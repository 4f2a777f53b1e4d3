---------------------------- MODULE KQueue_proofs ----------------------------
(***************************************************************************)
(* Proofs about KQueue, for any number of threads, queues and items and    *)
(* any depths.                                                             *)
(*                                                                         *)
(* TypeOK alone is not inductive: that front() returns an item rests on    *)
(* the queue not being empty, hence on the accounting of the semaphores,   *)
(* and the accounting rests on the types.  The inductive invariant adds    *)
(* that the mutex of a queue is held by the thread in its critical section *)
(* and that what front() returned stays at the front until the pop().      *)
(***************************************************************************)
EXTENDS KQueue, FiniteSetTheorems, TLAPS

\* A thread in the critical section of a queue holds the mutex of the queue.
LockHeld == \A t \in Threads : step[t] \in {"takePop", "putPush"} => mutex[opq[t]] = t

\* What front() returned is still at the front.
FrontRead == \A t \in Threads : step[t] = "takePop" => item[t] = Head(queue[opq[t]])

IInv == TypeOK /\ Accounting /\ LockHeld /\ FrontRead

-----------------------------------------------------------------------------
\* The sets that Accounting counts are finite.
LEMMA InFinite ==
  ASSUME NEW q, NEW s
  PROVE  /\ IsFiniteSet(In(q, s))
         /\ Cardinality(In(q, s)) \in Nat
<1>1. In(q, s) \subseteq Threads
  BY DEF In
<1>2. QED
  BY <1>1, KQueueAssumption, FS_Subset, FS_CardinalityType

\* A thread that is about to call front() or pop() finds an item.
LEMMA NonEmpty ==
  ASSUME TypeOK, Accounting, NEW t \in Threads, NEW q \in Queues,
         opq[t] = q, step[t] \in {"takeLock", "takePop"}
  PROVE  /\ queue[q] # <<>>
         /\ Len(queue[q]) \in Nat \ {0}
         /\ Head(queue[q]) \in Items
<1> DEFINE S == In(q, {"takeLock", "takePop"})
<1>1. t \in S
  BY DEF In
<1>2. IsFiniteSet(S) /\ Cardinality(S) \in Nat /\ S # {}
  BY <1>1, InFinite
<1>3. Cardinality(S) > 0
  BY <1>2, FS_EmptySet
<1>4. Cardinality(In(q, {"putPost"})) \in Nat
  BY InFinite
<1>5. fSem[q] \in Nat /\ queue[q] \in Seq(Items)
  BY DEF TypeOK
<1>6. fSem[q] + Cardinality(S) + Cardinality(In(q, {"putPost"})) = Len(queue[q])
  BY DEF Accounting
<1>7. Len(queue[q]) > 0
  BY <1>2, <1>3, <1>4, <1>5, <1>6
<1>8. QED
  BY <1>5, <1>7

One(c) == IF c THEN 1 ELSE 0

\* A thread joins, or leaves, one of the counted sets.
LEMMA Join ==
  ASSUME NEW S, IsFiniteSet(S), NEW t, t \notin S
  PROVE  Cardinality(S \cup {t}) = Cardinality(S) + 1
BY FS_AddElement

LEMMA Leave ==
  ASSUME NEW S, IsFiniteSet(S), NEW t, t \in S
  PROVE  Cardinality(S \ {t}) = Cardinality(S) - 1
BY FS_RemoveElement

-----------------------------------------------------------------------------
\* The types are preserved.
LEMMA TypeStep == IInv /\ [Next]_sync => TypeOK'
<1> SUFFICES ASSUME IInv, [Next]_sync
             PROVE  TypeOK'
  OBVIOUS
<1> USE KQueueAssumption DEF TypeOK, Steps
<1>0. TypeOK /\ Accounting
  BY DEF IInv
<1>1. CASE UNCHANGED sync
  BY <1>0, <1>1 DEF sync
<1>2. ASSUME NEW t \in Threads, NEW q \in Queues, TakeWait(t, q)
      PROVE  TypeOK'
  BY <1>0, <1>2 DEF TakeWait, Goto
<1>3. ASSUME NEW t \in Threads, NEW q \in Queues, TakeFront(t, q)
      PROVE  TypeOK'
  <2>1. Head(queue[q]) \in Items
    BY <1>0, <1>3, NonEmpty DEF TakeFront, At
  <2>2. QED
    BY <1>0, <1>3, <2>1 DEF TakeFront, Goto, At
<1>4. ASSUME NEW t \in Threads, NEW q \in Queues, TakePop(t, q)
      PROVE  TypeOK'
  <2>1. queue[q] # <<>>
    BY <1>0, <1>4, NonEmpty DEF TakePop, At
  <2>2. Tail(queue[q]) \in Seq(Items)
    BY <1>0, <2>1
  <2>3. QED
    BY <1>0, <1>4, <2>2 DEF TakePop, Goto, At
<1>5. ASSUME NEW t \in Threads, NEW q \in Queues, TakePost(t, q)
      PROVE  TypeOK'
  BY <1>0, <1>5 DEF TakePost, Goto, At
<1>6. ASSUME NEW t \in Threads, NEW q \in Queues, NEW v \in Items, PutWait(t, q, v)
      PROVE  TypeOK'
  BY <1>0, <1>6 DEF PutWait, Goto
<1>7. ASSUME NEW t \in Threads, NEW q \in Queues, PutLock(t, q)
      PROVE  TypeOK'
  BY <1>0, <1>7 DEF PutLock, Goto, At
<1>8. ASSUME NEW t \in Threads, NEW q \in Queues, PutPush(t, q)
      PROVE  TypeOK'
  <2>1. Append(queue[q], item[t]) \in Seq(Items)
    BY <1>0, <1>8 DEF PutPush, At
  <2>2. QED
    BY <1>0, <1>8, <2>1 DEF PutPush, Goto, At
<1>9. ASSUME NEW t \in Threads, NEW q \in Queues, PutPost(t, q)
      PROVE  TypeOK'
  BY <1>0, <1>9 DEF PutPost, Goto, At
<1>10. QED
  BY <1>1, <1>2, <1>3, <1>4, <1>5, <1>6, <1>7, <1>8, <1>9
     DEF Next, TakeInside, PutInside

\* The mutual exclusion parts are preserved.
LEMMA LockStep == IInv /\ [Next]_sync => (LockHeld /\ FrontRead)'
<1> SUFFICES ASSUME IInv, [Next]_sync
             PROVE  (LockHeld /\ FrontRead)'
  OBVIOUS
<1> USE KQueueAssumption DEF TypeOK, Steps, LockHeld, FrontRead
<1>0. TypeOK /\ Accounting /\ LockHeld /\ FrontRead
  BY DEF IInv
<1>1. CASE UNCHANGED sync
  BY <1>0, <1>1 DEF sync
<1>2. ASSUME NEW t \in Threads, NEW q \in Queues, TakeWait(t, q)
      PROVE  (LockHeld /\ FrontRead)'
  BY <1>0, <1>2 DEF TakeWait, Goto
<1>3. ASSUME NEW t \in Threads, NEW q \in Queues, TakeFront(t, q)
      PROVE  (LockHeld /\ FrontRead)'
  BY <1>0, <1>3 DEF TakeFront, Goto, At
<1>4. ASSUME NEW t \in Threads, NEW q \in Queues, TakePop(t, q)
      PROVE  (LockHeld /\ FrontRead)'
  <2>1. \A u \in Threads \ {t} :
          step[u] \in {"takePop", "putPush"} => opq[u] # q
    BY <1>0, <1>4 DEF TakePop, At
  <2>2. QED
    BY <1>0, <1>4, <2>1 DEF TakePop, Goto, At
<1>5. ASSUME NEW t \in Threads, NEW q \in Queues, TakePost(t, q)
      PROVE  (LockHeld /\ FrontRead)'
  BY <1>0, <1>5 DEF TakePost, Goto, At
<1>6. ASSUME NEW t \in Threads, NEW q \in Queues, NEW v \in Items, PutWait(t, q, v)
      PROVE  (LockHeld /\ FrontRead)'
  BY <1>0, <1>6 DEF PutWait, Goto
<1>7. ASSUME NEW t \in Threads, NEW q \in Queues, PutLock(t, q)
      PROVE  (LockHeld /\ FrontRead)'
  BY <1>0, <1>7 DEF PutLock, Goto, At
<1>8. ASSUME NEW t \in Threads, NEW q \in Queues, PutPush(t, q)
      PROVE  (LockHeld /\ FrontRead)'
  <2>1. \A u \in Threads \ {t} :
          step[u] \in {"takePop", "putPush"} => opq[u] # q
    BY <1>0, <1>8 DEF PutPush, At
  <2>2. QED
    BY <1>0, <1>8, <2>1 DEF PutPush, Goto, At
<1>9. ASSUME NEW t \in Threads, NEW q \in Queues, PutPost(t, q)
      PROVE  (LockHeld /\ FrontRead)'
  BY <1>0, <1>9 DEF PutPost, Goto, At
<1>10. QED
  BY <1>1, <1>2, <1>3, <1>4, <1>5, <1>6, <1>7, <1>8, <1>9
     DEF Next, TakeInside, PutInside

-----------------------------------------------------------------------------
\* The three sets that Accounting counts.
Taking(q)     == In(q, {"takeLock", "takePop"})
Announcing(q) == In(q, {"putPost"})
Busy(q)       == {t \in Threads : opq[t] = q}

LEMMA CountTypes ==
  ASSUME TypeOK, NEW q \in Queues
  PROVE  /\ \A S \in {Taking(q), Announcing(q), Busy(q)} :
              IsFiniteSet(S) /\ Cardinality(S) \in Nat
         /\ fSem[q] \in Nat /\ eSem[q] \in Nat /\ Depth[q] \in Nat
         /\ queue[q] \in Seq(Items) /\ Len(queue[q]) \in Nat
<1>1. Busy(q) \subseteq Threads
  BY DEF Busy
<1>2. IsFiniteSet(Busy(q)) /\ Cardinality(Busy(q)) \in Nat
  BY <1>1, KQueueAssumption, FS_Subset, FS_CardinalityType
<1>3. QED
  BY <1>2, InFinite, KQueueAssumption DEF TypeOK, Taking, Announcing

\* Accounting for one queue.
Balanced(q) ==
  /\ fSem[q] + Cardinality(Taking(q)) + Cardinality(Announcing(q)) = Len(queue[q])
  /\ fSem[q] + eSem[q] + Cardinality(Busy(q)) = Depth[q]

LEMMA AccountingBalanced == Accounting <=> \A q \in Queues : Balanced(q)
BY DEF Accounting, Balanced, Taking, Announcing, Busy

\* The accounting is preserved: each step moves one place of one queue from one
\* of the five quantities that make up its depth to another.
LEMMA AccountingStep == IInv /\ [Next]_sync => Accounting'
<1> SUFFICES ASSUME IInv, [Next]_sync, NEW p \in Queues
             PROVE  Balanced(p)'
  BY DEF Accounting, Balanced, Taking, Announcing, Busy
<1> USE DEF Balanced
<1>0. TypeOK /\ Accounting /\ Balanced(p)
  BY AccountingBalanced DEF IInv
<1>a. step \in [Threads -> Steps] /\ opq \in [Threads -> Queues \cup {NULL}]
  BY <1>0 DEF TypeOK
<1>b. \A t \in Threads : step[t] = "idle" => opq[t] # p
  BY <1>0, KQueueAssumption DEF TypeOK
<1>c. NULL # p
  BY KQueueAssumption
<1>d. fSem \in [Queues -> Nat] /\ eSem \in [Queues -> Nat] /\ queue \in [Queues -> Seq(Items)]
  BY <1>0 DEF TypeOK
<1>e. /\ fSem[p] \in Nat /\ Len(queue[p]) \in Nat
      /\ Cardinality(Taking(p)) \in Nat /\ Cardinality(Announcing(p)) \in Nat
      /\ fSem[p] + Cardinality(Taking(p)) + Cardinality(Announcing(p)) = Len(queue[p])
  BY <1>0, CountTypes
<1>f. /\ fSem[p] \in Nat /\ eSem[p] \in Nat /\ Cardinality(Busy(p)) \in Nat
      /\ fSem[p] + eSem[p] + Cardinality(Busy(p)) = Depth[p]
  BY <1>0, CountTypes
<1>1. CASE UNCHANGED sync
  BY <1>0, <1>1 DEF sync, Taking, Announcing, Busy, In
<1>2. ASSUME NEW t \in Threads, NEW q \in Queues, TakeWait(t, q)
      PROVE  Balanced(p)'
  <2>1. UNCHANGED <<Announcing(p)>>
    BY <1>a, <1>b, <1>c, <1>2 DEF TakeWait, Goto, At, In, Announcing
  <2>2. /\ p = q => t \notin Taking(p)
        /\ Taking(p)' = IF p = q THEN Taking(p) \cup {t} ELSE Taking(p)
    BY <1>a, <1>b, <1>c, <1>2 DEF TakeWait, Goto, At, In, Taking
  <2>3. Cardinality(Taking(p)') = IF p = q THEN Cardinality(Taking(p)) + 1 ELSE Cardinality(Taking(p))
    BY <1>0, <2>2, CountTypes, Join
  <2>4. /\ p = q => t \notin Busy(p)
        /\ Busy(p)' = IF p = q THEN Busy(p) \cup {t} ELSE Busy(p)
    BY <1>a, <1>b, <1>c, <1>2 DEF TakeWait, Goto, At, In, Busy
  <2>5. Cardinality(Busy(p)') = IF p = q THEN Cardinality(Busy(p)) + 1 ELSE Cardinality(Busy(p))
    BY <1>0, <2>4, CountTypes, Join
  <2>6. fSem'[p] + Cardinality(Taking(p)') + Cardinality(Announcing(p)') = Len(queue'[p])
    BY <1>d, <1>e, <1>2, <2>1, <2>3, <2>5 DEF TakeWait
  <2>7. fSem'[p] + eSem'[p] + Cardinality(Busy(p)') = Depth[p]
    BY <1>d, <1>f, <1>2, <2>1, <2>3, <2>5 DEF TakeWait
  <2>8. QED
    BY <2>6, <2>7
<1>3. ASSUME NEW t \in Threads, NEW q \in Queues, TakeFront(t, q)
      PROVE  Balanced(p)'
  <2>1. UNCHANGED <<Taking(p), Announcing(p), Busy(p)>>
    BY <1>a, <1>b, <1>c, <1>3 DEF TakeFront, Goto, At, In, Taking, Announcing, Busy
  <2>2. QED
    BY <1>0, <1>d, <1>3, <2>1, CountTypes DEF TakeFront
<1>4. ASSUME NEW t \in Threads, NEW q \in Queues, TakePop(t, q)
      PROVE  Balanced(p)'
  <2>1. UNCHANGED <<Announcing(p), Busy(p)>>
    BY <1>a, <1>b, <1>c, <1>4 DEF TakePop, Goto, At, In, Announcing, Busy
  <2>2. /\ p = q => t \in Taking(p)
        /\ Taking(p)' = IF p = q THEN Taking(p) \ {t} ELSE Taking(p)
    BY <1>a, <1>b, <1>c, <1>4 DEF TakePop, Goto, At, In, Taking
  <2>3. Cardinality(Taking(p)') = IF p = q THEN Cardinality(Taking(p)) - 1 ELSE Cardinality(Taking(p))
    BY <1>0, <2>2, CountTypes, Leave
  <2>4. /\ Len(queue'[p]) = IF p = q THEN Len(queue[p]) - 1 ELSE Len(queue[p])
        /\ UNCHANGED <<fSem, eSem>>
    <3>1. queue[q] # <<>> /\ queue[q] \in Seq(Items)
      BY <1>0, <1>4, NonEmpty DEF TakePop, At, TypeOK
    <3>2. Len(Tail(queue[q])) = Len(queue[q]) - 1
      BY <3>1
    <3>3. QED
      BY <1>d, <1>4, <3>2 DEF TakePop
  <2>5. QED
    BY <1>0, <1>d, <1>4, <2>1, <2>3, <2>4, CountTypes DEF TakePop
<1>5. ASSUME NEW t \in Threads, NEW q \in Queues, TakePost(t, q)
      PROVE  Balanced(p)'
  <2>1. UNCHANGED <<Taking(p), Announcing(p)>>
    BY <1>a, <1>b, <1>c, <1>5 DEF TakePost, Goto, At, In, Taking, Announcing
  <2>2. /\ p = q => t \in Busy(p)
        /\ Busy(p)' = IF p = q THEN Busy(p) \ {t} ELSE Busy(p)
    BY <1>a, <1>b, <1>c, <1>5 DEF TakePost, Goto, At, In, Busy
  <2>3. Cardinality(Busy(p)') = IF p = q THEN Cardinality(Busy(p)) - 1 ELSE Cardinality(Busy(p))
    BY <1>0, <2>2, CountTypes, Leave
  <2>4. QED
    BY <1>0, <1>d, <1>5, <2>1, <2>3, CountTypes DEF TakePost
<1>6. ASSUME NEW t \in Threads, NEW q \in Queues, NEW v \in Items, PutWait(t, q, v)
      PROVE  Balanced(p)'
  <2>1. UNCHANGED <<Taking(p), Announcing(p)>>
    BY <1>a, <1>b, <1>c, <1>6 DEF PutWait, Goto, At, In, Taking, Announcing
  <2>2. /\ p = q => t \notin Busy(p)
        /\ Busy(p)' = IF p = q THEN Busy(p) \cup {t} ELSE Busy(p)
    BY <1>a, <1>b, <1>c, <1>6 DEF PutWait, Goto, At, In, Busy
  <2>3. Cardinality(Busy(p)') = IF p = q THEN Cardinality(Busy(p)) + 1 ELSE Cardinality(Busy(p))
    BY <1>0, <2>2, CountTypes, Join
  <2>4. QED
    BY <1>0, <1>d, <1>6, <2>1, <2>3, CountTypes DEF PutWait
<1>7. ASSUME NEW t \in Threads, NEW q \in Queues, PutLock(t, q)
      PROVE  Balanced(p)'
  <2>1. UNCHANGED <<Taking(p), Announcing(p), Busy(p)>>
    BY <1>a, <1>b, <1>c, <1>7 DEF PutLock, Goto, At, In, Taking, Announcing, Busy
  <2>2. QED
    BY <1>0, <1>d, <1>7, <2>1, CountTypes DEF PutLock
<1>8. ASSUME NEW t \in Threads, NEW q \in Queues, PutPush(t, q)
      PROVE  Balanced(p)'
  <2>1. UNCHANGED <<Taking(p), Busy(p)>>
    BY <1>a, <1>b, <1>c, <1>8 DEF PutPush, Goto, At, In, Taking, Busy
  <2>2. /\ p = q => t \notin Announcing(p)
        /\ Announcing(p)' = IF p = q THEN Announcing(p) \cup {t} ELSE Announcing(p)
    BY <1>a, <1>b, <1>c, <1>8 DEF PutPush, Goto, At, In, Announcing
  <2>3. Cardinality(Announcing(p)') = IF p = q THEN Cardinality(Announcing(p)) + 1 ELSE Cardinality(Announcing(p))
    BY <1>0, <2>2, CountTypes, Join
  <2>4. /\ Len(queue'[p]) = IF p = q THEN Len(queue[p]) + 1 ELSE Len(queue[p])
        /\ UNCHANGED <<fSem, eSem>>
    <3>1. Len(Append(queue[q], item[t])) = Len(queue[q]) + 1
      BY <1>d
    <3>2. QED
      BY <1>d, <1>8, <3>1 DEF PutPush
  <2>5. fSem'[p] + Cardinality(Taking(p)') + Cardinality(Announcing(p)') = Len(queue'[p])
    BY <1>d, <1>e, <1>8, <2>1, <2>3, <2>4 DEF PutPush
  <2>6. fSem'[p] + eSem'[p] + Cardinality(Busy(p)') = Depth[p]
    BY <1>d, <1>f, <1>8, <2>1, <2>3, <2>4 DEF PutPush
  <2>7. QED
    BY <2>5, <2>6
<1>9. ASSUME NEW t \in Threads, NEW q \in Queues, PutPost(t, q)
      PROVE  Balanced(p)'
  <2>1. UNCHANGED <<Taking(p)>>
    BY <1>a, <1>b, <1>c, <1>9 DEF PutPost, Goto, At, In, Taking
  <2>2. /\ p = q => t \in Announcing(p)
        /\ Announcing(p)' = IF p = q THEN Announcing(p) \ {t} ELSE Announcing(p)
    BY <1>a, <1>b, <1>c, <1>9 DEF PutPost, Goto, At, In, Announcing
  <2>3. Cardinality(Announcing(p)') = IF p = q THEN Cardinality(Announcing(p)) - 1 ELSE Cardinality(Announcing(p))
    BY <1>0, <2>2, CountTypes, Leave
  <2>4. /\ p = q => t \in Busy(p)
        /\ Busy(p)' = IF p = q THEN Busy(p) \ {t} ELSE Busy(p)
    BY <1>a, <1>b, <1>c, <1>9 DEF PutPost, Goto, At, In, Busy
  <2>5. Cardinality(Busy(p)') = IF p = q THEN Cardinality(Busy(p)) - 1 ELSE Cardinality(Busy(p))
    BY <1>0, <2>4, CountTypes, Leave
  <2>6. fSem'[p] + Cardinality(Taking(p)') + Cardinality(Announcing(p)') = Len(queue'[p])
    BY <1>d, <1>e, <1>9, <2>1, <2>3, <2>5 DEF PutPost
  <2>7. fSem'[p] + eSem'[p] + Cardinality(Busy(p)') = Depth[p]
    BY <1>d, <1>f, <1>9, <2>1, <2>3, <2>5 DEF PutPost
  <2>8. QED
    BY <2>6, <2>7
<1>10. QED
  BY <1>1, <1>2, <1>3, <1>4, <1>5, <1>6, <1>7, <1>8, <1>9
     DEF Next, TakeInside, PutInside
-----------------------------------------------------------------------------
\* The invariant holds in the initial states ...
LEMMA InitIInv == Init => IInv
<1> SUFFICES ASSUME Init PROVE IInv
  OBVIOUS
<1>1. TypeOK
  <2>1. \A q \in Queues : Len(Initially[q]) \in Nat /\ Depth[q] - Len(Initially[q]) \in Nat
    BY KQueueAssumption
  <2>2. QED
    BY KQueueAssumption, <2>1 DEF Init, TypeOK, Steps
<1>2. ASSUME NEW q \in Queues
      PROVE  Balanced(q)
  <2>1. Taking(q) = {} /\ Announcing(q) = {} /\ Busy(q) = {}
    BY KQueueAssumption DEF Init, Taking, Announcing, Busy, In
  <2>2. Len(Initially[q]) \in Nat /\ Depth[q] \in Nat
    BY KQueueAssumption
  <2>3. Cardinality({}) = 0
    BY FS_EmptySet
  <2>4. QED
    BY <2>1, <2>2, <2>3 DEF Init, Balanced
<1>3. LockHeld /\ FrontRead
  BY DEF Init, LockHeld, FrontRead
<1>4. QED
  BY <1>1, <1>2, <1>3, AccountingBalanced DEF IInv

\* ... and in all that follow.
THEOREM Invariance == Spec => []IInv
<1>1. IInv /\ [Next]_sync => IInv'
  BY TypeStep, LockStep, AccountingStep DEF IInv
<1>2. QED
  BY <1>1, InitIInv, PTL DEF Spec

-----------------------------------------------------------------------------
\* Every variable keeps its type: what a thread takes is an item, the semaphores
\* never go below zero.
THEOREM TypeCorrect == Spec => []TypeOK
<1>1. IInv => TypeOK
  BY DEF IInv
<1>2. QED
  BY <1>1, Invariance, PTL

\* The two semaphores account for every place of every queue.
THEOREM AccountingCorrect == Spec => []Accounting
<1>1. IInv => Accounting
  BY DEF IInv
<1>2. QED
  BY <1>1, Invariance, PTL

\* No two threads are inside the critical section of a queue.
THEOREM MutualExclusionCorrect == Spec => []MutualExclusion
<1>1. IInv => MutualExclusion
  BY DEF IInv, LockHeld, MutualExclusion
<1>2. QED
  BY <1>1, Invariance, PTL

\* front() is never called on an empty queue, and pop() removes what it returned.
THEOREM FrontSafeCorrect == Spec => []FrontSafe
<1>1. IInv => FrontSafe
  <2> SUFFICES ASSUME IInv, NEW t \in Threads, NEW q \in Queues,
                      opq[t] = q, step[t] \in {"takeLock", "takePop"}
               PROVE  /\ queue[q] # <<>>
                      /\ step[t] = "takePop" => item[t] = Head(queue[q])
    BY DEF FrontSafe, At
  <2>1. queue[q] # <<>>
    BY NonEmpty DEF IInv
  <2>2. QED
    BY <2>1 DEF IInv, FrontRead
<1>2. QED
  BY <1>1, Invariance, PTL

-----------------------------------------------------------------------------
\* A putter that has the mutex finds an empty place: besides the places of the
\* items, one at least is its own.
LEMMA Room ==
  ASSUME TypeOK, Accounting, NEW t \in Threads, NEW q \in Queues,
         opq[t] = q, step[t] \in {"putLock", "putPush"}
  PROVE  Len(queue[q]) < Depth[q]
<1> DEFINE TA == Taking(q) \cup Announcing(q)
<1>1. /\ Taking(q) \cap Announcing(q) = {}
      /\ TA \cup {t} \subseteq Busy(q)
      /\ t \notin TA
  BY DEF Taking, Announcing, Busy, In
<1>2. /\ IsFiniteSet(Taking(q)) /\ IsFiniteSet(Announcing(q)) /\ IsFiniteSet(Busy(q))
      /\ fSem[q] \in Nat /\ eSem[q] \in Nat /\ Depth[q] \in Nat
  BY CountTypes
<1>3. /\ Cardinality(Taking(q)) \in Nat /\ Cardinality(Announcing(q)) \in Nat
      /\ Cardinality(Busy(q)) \in Nat
  BY CountTypes
<1>4. IsFiniteSet(TA) /\ Cardinality(TA) = Cardinality(Taking(q)) + Cardinality(Announcing(q))
  <2>1. /\ IsFiniteSet(TA)
        /\ Cardinality(TA) = Cardinality(Taking(q)) + Cardinality(Announcing(q))
                           - Cardinality(Taking(q) \cap Announcing(q))
    BY <1>2, FS_Union
  <2>2. Cardinality(Taking(q) \cap Announcing(q)) = 0
    BY <1>1, FS_EmptySet
  <2>3. QED
    BY <1>3, <2>1, <2>2
<1>5. Cardinality(TA) + 1 <= Cardinality(Busy(q))
  <2>1. Cardinality(TA \cup {t}) = Cardinality(TA) + 1
    BY <1>1, <1>4, Join
  <2>2. QED
    BY <1>1, <1>2, <2>1, FS_Subset
<1>6. /\ fSem[q] + Cardinality(Taking(q)) + Cardinality(Announcing(q)) = Len(queue[q])
      /\ fSem[q] + eSem[q] + Cardinality(Busy(q)) = Depth[q]
  BY AccountingBalanced DEF Balanced
<1>7. QED
  BY <1>2, <1>3, <1>4, <1>5, <1>6

\* The value of got in the refinement mapping.
Got == [t \in Threads |-> IF step[t] = "takePost" THEN item[t] ELSE NULL]

\* Every step is an atomic put, an atomic take, a return, or invisible.
LEMMA StepSimulation == IInv /\ [Next]_sync => [Fifo!Next]_(Fifo!vars)
<1> SUFFICES ASSUME IInv, [Next]_sync
             PROVE  [Fifo!Next]_(Fifo!vars)
  OBVIOUS
<1>0. TypeOK /\ Accounting /\ FrontRead
  BY DEF IInv
<1> USE KQueueAssumption
<1>1. ASSUME UNCHANGED sync
      PROVE  UNCHANGED <<queue, Got>>
  BY <1>1 DEF sync, Got
<1>2. ASSUME NEW t \in Threads, NEW q \in Queues, TakeWait(t, q)
      PROVE  UNCHANGED <<queue, Got>>
  BY <1>0, <1>2 DEF TakeWait, Goto, Got, TypeOK
<1>3. ASSUME NEW t \in Threads, NEW q \in Queues, TakeFront(t, q)
      PROVE  UNCHANGED <<queue, Got>>
  BY <1>0, <1>3 DEF TakeFront, Goto, At, Got, TypeOK
<1>4. ASSUME NEW t \in Threads, NEW q \in Queues, TakePop(t, q)
      PROVE  Fifo!Take(t, q)
  <2>1. queue[q] # <<>>
    BY <1>0, <1>4, NonEmpty DEF TakePop, At
  <2>2. item[t] = Head(queue[q])
    BY <1>0, <1>4 DEF TakePop, At, FrontRead
  <2>3. /\ Got[t] = NULL
        /\ Got' = [Got EXCEPT ![t] = Head(queue[q])]
    BY <1>0, <1>4, <2>2 DEF TakePop, Goto, At, Got, TypeOK
  <2>4. QED
    BY <1>4, <2>1, <2>3 DEF Fifo!Take, Got, TakePop
<1>5. ASSUME NEW t \in Threads, NEW q \in Queues, TakePost(t, q)
      PROVE  Fifo!Return(t)
  <2>1. item[t] # NULL
    BY <1>0, <1>5 DEF TakePost, At, TypeOK
  <2>2. /\ Got[t] # NULL
        /\ Got' = [Got EXCEPT ![t] = NULL]
    BY <1>0, <1>5, <2>1 DEF TakePost, Goto, At, Got, TypeOK
  <2>3. QED
    BY <1>5, <2>2 DEF Fifo!Return, Got, TakePost
<1>6. ASSUME NEW t \in Threads, NEW q \in Queues, NEW v \in Items, PutWait(t, q, v)
      PROVE  UNCHANGED <<queue, Got>>
  BY <1>0, <1>6 DEF PutWait, Goto, Got, TypeOK
<1>7. ASSUME NEW t \in Threads, NEW q \in Queues, PutLock(t, q)
      PROVE  UNCHANGED <<queue, Got>>
  BY <1>0, <1>7 DEF PutLock, Goto, At, Got, TypeOK
<1>8. ASSUME NEW t \in Threads, NEW q \in Queues, PutPush(t, q)
      PROVE  \E v \in Items : Fifo!Put(q, v)
  <2>1. item[t] \in Items
    BY <1>0, <1>8 DEF PutPush, At, TypeOK
  <2>2. Len(queue[q]) < Depth[q]
    BY <1>0, <1>8, Room DEF PutPush, At
  <2>3. Got' = Got
    BY <1>0, <1>8 DEF PutPush, Goto, At, Got, TypeOK
  <2>4. Fifo!Put(q, item[t])
    BY <1>8, <2>2, <2>3 DEF Fifo!Put, Got, PutPush
  <2>5. QED
    BY <2>1, <2>4
<1>9. ASSUME NEW t \in Threads, NEW q \in Queues, PutPost(t, q)
      PROVE  UNCHANGED <<queue, Got>>
  BY <1>0, <1>9 DEF PutPost, Goto, At, Got, TypeOK
<1>10. UNCHANGED <<queue, Got>> => UNCHANGED Fifo!vars
  BY DEF Fifo!vars, Got
<1>11. QED
  BY <1>1, <1>2, <1>3, <1>4, <1>5, <1>6, <1>7, <1>8, <1>9, <1>10
     DEF Next, TakeInside, PutInside, Fifo!Next

\* The protocol implements an atomic bounded FIFO.
THEOREM ImplementsFifo == Spec => FifoSpec
<1>1. Init => Fifo!Init
  BY DEF Init, Fifo!Init
<1>2. QED
  BY <1>1, StepSimulation, Invariance, PTL DEF Spec, FifoSpec, Fifo!Spec
=============================================================================

------------------------------- MODULE KQueue -------------------------------
(***************************************************************************)
(* The queue protocol of KScheduler (packages/kTThreads/KScheduler.cxx).   *)
(* Every std::queue of the scheduler is guarded by a TMutex and by two     *)
(* counting TSemaphores: F counts the filled places and E the empty ones.  *)
(* The fifteen places that take from or put into a queue all run           *)
(*                                                                         *)
(*     take:  F->Wait; Lock; x = front(); pop();  UnLock; E->Post          *)
(*     put:   E->Wait; Lock; push(x);             UnLock; F->Post          *)
(*                                                                         *)
(* A thread is at one step of at most one operation.  front() and pop()    *)
(* are two steps, so that the mutex is what makes the pair atomic, and     *)
(* UnLock goes with the access before it, which it releases.               *)
(***************************************************************************)
EXTENDS Naturals, Sequences, FiniteSets

CONSTANTS Threads,    \* the threads that share the queues
          Queues,     \* the queues
          Items,      \* what can be queued (pointers in the code)
          Depth,      \* [Queues -> Nat], initial F plus initial E
          Initially,  \* [Queues -> Seq(Items)], the contents after Init()
          NULL        \* "no thread", "no queue", "no item"

ASSUME KQueueAssumption ==
  /\ IsFiniteSet(Threads)
  /\ NULL \notin Threads \cup Queues \cup Items
  /\ Depth \in [Queues -> Nat]
  /\ Initially \in [Queues -> Seq(Items)]
  /\ \A q \in Queues : Len(Initially[q]) <= Depth[q]

VARIABLES queue,   \* [Queues -> Seq(Items)], the std::queue
          fSem,    \* [Queues -> Nat], the semaphore of filled places
          eSem,    \* [Queues -> Nat], the semaphore of empty places
          mutex,   \* [Queues -> Threads \cup {NULL}], who holds the mutex
          step,    \* [Threads -> Steps], where a thread is in its operation
          opq,     \* [Threads -> Queues \cup {NULL}], on which queue
          item     \* [Threads -> Items \cup {NULL}], the item it moves

sync == <<queue, fSem, eSem, mutex, step, opq, item>>

Steps == {"idle", "takeLock", "takePop", "takePost",
          "putLock", "putPush", "putPost"}

\* Mutant: the initial values of the two semaphores are swapped.
InitSwapped ==
        /\ queue = Initially
        /\ fSem  = [q \in Queues |-> Depth[q] - Len(Initially[q])]
        /\ eSem  = [q \in Queues |-> Len(Initially[q])]
        /\ mutex = [q \in Queues |-> NULL]
        /\ step  = [t \in Threads |-> "idle"]
        /\ opq   = [t \in Threads |-> NULL]
        /\ item  = [t \in Threads |-> NULL]

Init == /\ queue = Initially
        /\ fSem  = [q \in Queues |-> Len(Initially[q])]
        /\ eSem  = [q \in Queues |-> Depth[q] - Len(Initially[q])]
        /\ mutex = [q \in Queues |-> NULL]
        /\ step  = [t \in Threads |-> "idle"]
        /\ opq   = [t \in Threads |-> NULL]
        /\ item  = [t \in Threads |-> NULL]

-----------------------------------------------------------------------------
At(t, q, s) == step[t] = s /\ opq[t] = q

Goto(t, s) == step' = [step EXCEPT ![t] = s]

\* Mutant: Wait does not block.
TakeNoWait(t, q) ==
  /\ step[t] = "idle"
  /\ fSem' = [fSem EXCEPT ![q] = @ - 1]
  /\ Goto(t, "takeLock")
  /\ opq' = [opq EXCEPT ![t] = q]
  /\ UNCHANGED <<queue, eSem, mutex, item>>

\* TSemaphore::Wait on F: blocks while no place is filled.
TakeWait(t, q) ==
  /\ step[t] = "idle"
  /\ fSem[q] > 0
  /\ fSem' = [fSem EXCEPT ![q] = @ - 1]
  /\ Goto(t, "takeLock")
  /\ opq' = [opq EXCEPT ![t] = q]
  /\ UNCHANGED <<queue, eSem, mutex, item>>

\* Mutant: the taker does not wait for the mutex that the putters hold, as if it
\* locked the "TakeMutex" that every queue has beside its "PutMutex".
TakeFrontUnlocked(t, q) ==
  /\ At(t, q, "takeLock")
  /\ mutex' = [mutex EXCEPT ![q] = t]
  /\ item' = [item EXCEPT ![t] = Head(queue[q])]
  /\ Goto(t, "takePop")
  /\ UNCHANGED <<queue, fSem, eSem, opq>>

\* Lock, then x = front().
TakeFront(t, q) ==
  /\ At(t, q, "takeLock")
  /\ mutex[q] = NULL
  /\ mutex' = [mutex EXCEPT ![q] = t]
  /\ item' = [item EXCEPT ![t] = Head(queue[q])]
  /\ Goto(t, "takePop")
  /\ UNCHANGED <<queue, fSem, eSem, opq>>

\* Mutant: the pop() is missing.
TakeNoPop(t, q) ==
  /\ At(t, q, "takePop")
  /\ mutex' = [mutex EXCEPT ![q] = NULL]
  /\ Goto(t, "takePost")
  /\ UNCHANGED <<queue, fSem, eSem, opq, item>>

\* pop(), then UnLock.
TakePop(t, q) ==
  /\ At(t, q, "takePop")
  /\ queue' = [queue EXCEPT ![q] = Tail(@)]
  /\ mutex' = [mutex EXCEPT ![q] = NULL]
  /\ Goto(t, "takePost")
  /\ UNCHANGED <<fSem, eSem, opq, item>>

\* Mutant: Post goes to the wrong semaphore of the pair.
TakePostFull(t, q) ==
  /\ At(t, q, "takePost")
  /\ fSem' = [fSem EXCEPT ![q] = @ + 1]
  /\ Goto(t, "idle")
  /\ opq'  = [opq  EXCEPT ![t] = NULL]
  /\ item' = [item EXCEPT ![t] = NULL]
  /\ UNCHANGED <<queue, eSem, mutex>>

\* TSemaphore::Post on E: the operation is over and x = item[t] is returned.
TakePost(t, q) ==
  /\ At(t, q, "takePost")
  /\ eSem' = [eSem EXCEPT ![q] = @ + 1]
  /\ Goto(t, "idle")
  /\ opq'  = [opq  EXCEPT ![t] = NULL]
  /\ item' = [item EXCEPT ![t] = NULL]
  /\ UNCHANGED <<queue, fSem, mutex>>

\* TSemaphore::Wait on E: blocks while no place is empty.
PutWait(t, q, v) ==
  /\ step[t] = "idle"
  /\ eSem[q] > 0
  /\ eSem' = [eSem EXCEPT ![q] = @ - 1]
  /\ Goto(t, "putLock")
  /\ opq'  = [opq  EXCEPT ![t] = q]
  /\ item' = [item EXCEPT ![t] = v]
  /\ UNCHANGED <<queue, fSem, mutex>>

\* Lock.
PutLock(t, q) ==
  /\ At(t, q, "putLock")
  /\ mutex[q] = NULL
  /\ mutex' = [mutex EXCEPT ![q] = t]
  /\ Goto(t, "putPush")
  /\ UNCHANGED <<queue, fSem, eSem, opq, item>>

\* Mutant: push at the front.
PutPushFront(t, q) ==
  /\ At(t, q, "putPush")
  /\ queue' = [queue EXCEPT ![q] = <<item[t]>> \o @]
  /\ mutex' = [mutex EXCEPT ![q] = NULL]
  /\ Goto(t, "putPost")
  /\ UNCHANGED <<fSem, eSem, opq, item>>

\* push(x), then UnLock.
PutPush(t, q) ==
  /\ At(t, q, "putPush")
  /\ queue' = [queue EXCEPT ![q] = Append(@, item[t])]
  /\ mutex' = [mutex EXCEPT ![q] = NULL]
  /\ Goto(t, "putPost")
  /\ UNCHANGED <<fSem, eSem, opq, item>>

\* TSemaphore::Post on F.
PutPost(t, q) ==
  /\ At(t, q, "putPost")
  /\ fSem' = [fSem EXCEPT ![q] = @ + 1]
  /\ Goto(t, "idle")
  /\ opq'  = [opq  EXCEPT ![t] = NULL]
  /\ item' = [item EXCEPT ![t] = NULL]
  /\ UNCHANGED <<queue, eSem, mutex>>

\* The steps of an operation before the one that completes it.
TakeInside(t, q) == TakeWait(t, q) \/ TakeFront(t, q) \/ TakePop(t, q)
PutInside(t, q, v) == PutWait(t, q, v) \/ PutLock(t, q) \/ PutPush(t, q)

Next == \E t \in Threads, q \in Queues :
          \/ TakeInside(t, q)
          \/ TakePost(t, q)
          \/ \E v \in Items : PutInside(t, q, v)
          \/ PutPost(t, q)

Spec == Init /\ [][Next]_sync

-----------------------------------------------------------------------------
(* Properties *)

\* The variables have the types declared above, and a thread outside an
\* operation refers to no queue and no item.
TypeOK ==
  /\ queue \in [Queues -> Seq(Items)]
  /\ fSem  \in [Queues -> Nat]
  /\ eSem  \in [Queues -> Nat]
  /\ mutex \in [Queues -> Threads \cup {NULL}]
  /\ step  \in [Threads -> Steps]
  /\ opq   \in [Threads -> Queues \cup {NULL}]
  /\ item  \in [Threads -> Items \cup {NULL}]
  /\ \A t \in Threads :
       /\ step[t] = "idle" <=> opq[t] = NULL
       /\ step[t] \in {"takePop", "takePost", "putLock", "putPush"}
            => item[t] \in Items

\* The threads that are at one of the steps s of an operation on q.
In(q, s) == {t \in Threads : opq[t] = q /\ step[t] \in s}

\* The semaphores account for every place of a queue.  F is the number of its
\* items that no taker has yet been promised, less those whose arrival is
\* still to be announced; and each place is counted by F, or by E, or belongs to
\* exactly one thread that is in the middle of an operation.
Accounting ==
  \A q \in Queues :
    /\ fSem[q] + Cardinality(In(q, {"takeLock", "takePop"}))
               + Cardinality(In(q, {"putPost"})) = Len(queue[q])
    /\ fSem[q] + eSem[q] + Cardinality({t \in Threads : opq[t] = q}) = Depth[q]

\* No two threads are inside the critical section of one queue: std::queue
\* is not thread safe.
MutualExclusion ==
  \A t, u \in Threads :
    /\ step[t] \in {"takePop", "putPush"}
    /\ step[u] \in {"takePop", "putPush"}
    /\ opq[t] = opq[u]
    => t = u

\* front() is never called on an empty queue, which would be undefined
\* behaviour, and pop() removes the very item that front() returned.
FrontSafe ==
  \A t \in Threads, q \in Queues :
    /\ At(t, q, "takeLock") => queue[q] # <<>>
    /\ At(t, q, "takePop")  => queue[q] # <<>> /\ item[t] = Head(queue[q])

\* The protocol implements an atomic bounded FIFO: a put takes effect at its
\* push() and a take at its pop().
Fifo == INSTANCE BoundedFifo WITH
  contents <- queue,
  got <- [t \in Threads |-> IF step[t] = "takePost" THEN item[t] ELSE NULL]

FifoSpec == Fifo!Spec
=============================================================================

------------------------- MODULE KScheduler_proofs --------------------------
(***************************************************************************)
(* Theorems about the scheduler, for any numbers of threads, events,       *)
(* objects in the pools and places in the pipes, in four layers.  Control: *)
(* which queue operation a thread can be in at each label, what its        *)
(* pointers are there, and what each queue carries.  The queues themselves *)
(* are proved in KQueue_proofs; here the scheduler is shown to use them as *)
(* KQueue assumes, and its steps are sorted by what they do with a queue,  *)
(* so that the proofs after that have one case per form and not one per    *)
(* thread, label and queue.  Ownership: every job, reducer, tracker and    *)
(* array is in one place, a queue or a hand.  Contents: a job is blank     *)
(* until a worker has filled it and full afterwards, and an array is empty *)
(* unless a job has it.  Ends: nothing is lost, and the pills come last.   *)
(* The theorems are at the end.                                            *)
(***************************************************************************)
EXTENDS KScheduler, FiniteSetTheorems, TLAPS

QP == INSTANCE KQueue_proofs WITH Queues <- Pipes \cup Pools, Initially <- Filled

AllQueues == Pipes \cup Pools

\* What the queue q carries.
Carried(q) == IF q \in Pipes THEN Events \cup {POISON} ELSE Pool[q]

\* At its label, t takes from q.
TakesAt(t, q) ==
  \/ t \in Workers /\ pc[t] = "takeJob" /\ q = "newJobQueue"
  \/ t = Reaper /\ pc[t] = "takeJob" /\ q = "cmpJobQueue"
  \/ t \in Workers /\ pc[t] = "takeReducer" /\ q = "eventReducerQueue"
  \/ t \in Workers /\ pc[t] = "takeTracker" /\ q = "kFastTrkQueue"
  \/ t = Reader /\ pc[t] = "takeArray" /\ q = "kTrackArrQueue"

\* At its label, t puts v into q.
PutsAt(t, q, v) ==
  \/ t = Reader /\ pc[t] \in {"putJob", "putPill"} /\ q = "newJobQueue" /\ v = job[t]
  \/ t \in Workers /\ pc[t] \in {"putJob", "putPill"} /\ q = "cmpJobQueue" /\ v = job[t]
  \/ t \in Workers /\ pc[t] = "putReducer" /\ q = "eventReducerQueue" /\ v = tool[t]
  \/ t \in Workers /\ pc[t] = "putTracker" /\ q = "kFastTrkQueue" /\ v = tool[t]
  \/ t = Reaper /\ pc[t] = "putArray" /\ q = "kTrackArrQueue" /\ v = tool[t]

\* A thread in the middle of a queue operation is at the label of it.
InOperation ==
  \A t \in Threads :
    /\ step[t] \in {"takeLock", "takePop", "takePost"} => TakesAt(t, opq[t])
    /\ step[t] \in {"putLock", "putPush", "putPost"} => PutsAt(t, opq[t], item[t])

\* The queues, and the threads that move an item, carry what is meant for them.
Carriage ==
  /\ \A q \in AllQueues : queue[q] \in Seq(Carried(q))
  /\ \A t \in Threads :
       step[t] \in {"takePop", "takePost", "putLock", "putPush", "putPost"}
         => item[t] \in Carried(opq[t])

\* What the pointers of a thread are at each label.
Pointers ==
  /\ \A w \in Workers :
       /\ pc[w] \in {"takeReducer", "putReducer", "takeTracker", "setRawEvent",
                     "fill", "putTracker", "putJob"} => job[w] \in Events
       /\ pc[w] = "putPill" => job[w] = POISON
       /\ pc[w] = "putReducer" => tool[w] \in Reducers
       /\ pc[w] \in {"setRawEvent", "fill", "putTracker"} => tool[w] \in Trackers
  /\ pc[Reader] \in {"takeArray", "putJob"} => job[Reader] \in Events
  /\ pc[Reader] = "putPill" => job[Reader] = POISON
  /\ pc[Reaper] \in {"fill", "delete"} => job[Reaper] \in Events
  /\ pc[Reaper] = "countPill" => job[Reaper] = POISON
  /\ pc[Reaper] = "putArray" => tool[Reaper] \in Arrays

\* The types of what the threads keep to themselves.
Locals ==
  /\ pc \in [Threads \cup {Main} ->
               ReaderLabels \cup WorkerLabels \cup ReaperLabels \cup MainLabels]
  /\ pc[Reader] \in ReaderLabels
  /\ \A w \in Workers : pc[w] \in WorkerLabels
  /\ pc[Reaper] \in ReaperLabels
  /\ pc[Main] \in MainLabels
  /\ entry \in 0..NEvents
  /\ pills \in 0..NTHREADS
  /\ job  \in [Threads -> Events \cup {POISON, NULL}]
  /\ tool \in [Threads -> Reducers \cup Trackers \cup Arrays \cup {NULL}]
  /\ poisonPills \in 0..NTHREADS
  /\ pc[Reaper] \notin {"close", "done"} => poisonPills < NTHREADS
  /\ completedEvents \in Nat

Control == InOperation /\ Carriage /\ Pointers /\ Locals

-----------------------------------------------------------------------------
\* What follows from the assumptions on the constants.
LEMMA Constants ==
  /\ Reader \in Threads /\ Reaper \in Threads /\ Workers \subseteq Threads
  /\ Reader # Reaper /\ Reader \notin Workers /\ Reaper \notin Workers
  /\ Main \notin Threads
  /\ NEvents \in Nat /\ Events \subseteq Int
  /\ NULL \notin Events /\ POISON \notin Events /\ POISON # NULL
  /\ NULL \notin Threads \cup AllQueues \cup Items
  /\ POISON \notin Reducers \cup Trackers \cup Arrays
  /\ NULL \notin Reducers \cup Trackers \cup Arrays
  /\ NTHREADS \in Nat /\ NTHREADS > 0 /\ NTRACK_ARRAYS = NTHREADS
  /\ IsFiniteSet(Threads)
<1> USE KSchedulerAssumption
<1>1. NTHREADS \in Nat /\ NTHREADS > 0
  BY FS_CardinalityType, FS_EmptySet DEF NTHREADS
<1>2. IsFiniteSet(Threads)
  <2>1. IsFiniteSet({Reader, Reaper})
    <3>1. IsFiniteSet({Reader} \cup {Reaper})
      BY FS_Singleton, FS_Union
    <3>2. {Reader} \cup {Reaper} = {Reader, Reaper}
      OBVIOUS
    <3>3. QED
      BY <3>1, <3>2
  <2>2. QED
    BY <2>1, FS_Union DEF Threads
<1>3. NULL \notin AllQueues
  BY DEF AllQueues
<1>4. /\ Events \subseteq Int /\ Reducers \subseteq Int
      /\ Trackers \subseteq Int /\ Arrays \subseteq Int
  BY <1>1 DEF Events, Reducers, Trackers, Arrays, NTRACK_ARRAYS
<1>5. QED
  BY <1>1, <1>2, <1>3, <1>4 DEF Threads, Items, NTRACK_ARRAYS

\* The scheduler uses the queues as KQueue assumes.
LEMMA QueueAssumption == QP!KQueueAssumption
<1> USE KSchedulerAssumption
<1>0. /\ INPUT_PIPE_DEPTH \in Nat /\ OUTPUT_PIPE_DEPTH \in Nat
      /\ NEVENT_REDUCERS \in Nat /\ NKFAST_TRACKERS \in Nat /\ NTRACK_ARRAYS \in Nat
  BY Constants
<1>1. Depth \in [AllQueues -> Nat]
  BY <1>0 DEF Depth, AllQueues, Pipes, Pools
<1>2. ASSUME NEW q \in AllQueues
      PROVE  Filled[q] \in Seq(Items) /\ Len(Filled[q]) <= Depth[q]
  <2>1. CASE q \in Pipes
    BY <1>1, <2>1 DEF Filled, AllQueues
  <2>2. CASE q \notin Pipes
    <3>1. Filled[q] = [i \in 1..Depth[q] |-> i]
      BY <2>2 DEF Filled, AllQueues
    <3>2. Depth[q] \in Nat /\ 1..Depth[q] \subseteq Items
      BY <1>0, <2>2 DEF Depth, AllQueues, Pipes, Pools, Items, Reducers, Trackers, Arrays
    <3>3. QED
      BY <3>1, <3>2
  <2>3. QED
    BY <2>1, <2>2
<1>3. Filled \in [AllQueues -> Seq(Items)]
  BY <1>2 DEF Filled, AllQueues
<1>4. QP!IsFiniteSet(Threads)
  BY Constants DEF QP!IsFiniteSet, IsFiniteSet
<1>5. QED
  BY <1>1, <1>2, <1>3, <1>4, Constants DEF QP!KQueueAssumption, AllQueues

-----------------------------------------------------------------------------
(* The steps, sorted by what they do with a queue *)

privateVars == <<pc, entry, pills, job, tool, jobs, raw, tracklets, trackletsInSt,
                 saveTree, onDisk, poisonPills, completedEvents>>

Taking(t, q) == TakesAt(t, q) /\ Q!TakeInside(t, q) /\ UNCHANGED privateVars

Putting(t, q, v) == PutsAt(t, q, v) /\ Q!PutInside(t, q, v) /\ UNCHANGED privateVars

JobTaken(t, q) ==
  /\ TakesAt(t, q) /\ q \in Pipes
  /\ Q!TakePost(t, q)
  /\ job' = [job EXCEPT ![t] = item[t]]
  /\ GoTo(t, IF t = Reaper THEN IF item[t] = POISON THEN "countPill" ELSE "fill"
                           ELSE IF item[t] = POISON THEN "putPill" ELSE "takeReducer")
  /\ UNCHANGED <<readerVars, tool, dataVars, outputVars>>

JobPut(t, q) ==
  /\ PutsAt(t, q, job[t]) /\ q \in Pipes
  /\ Q!PutPost(t, q)
  /\ job' = [job EXCEPT ![t] = NULL]
  /\ GoTo(t, IF t = Reader THEN "loop" ELSE IF pc[t] = "putJob" THEN "takeJob" ELSE "done")
  /\ UNCHANGED <<readerVars, tool, dataVars, outputVars>>

ToolTaken(t, q) ==
  /\ TakesAt(t, q) /\ q \in Pools /\ t \in Workers
  /\ Q!TakePost(t, q)
  /\ tool' = [tool EXCEPT ![t] = item[t]]
  /\ GoTo(t, IF q = "kFastTrkQueue" THEN "setRawEvent" ELSE "putReducer")
  /\ UNCHANGED <<readerVars, job, dataVars, outputVars>>

ToolPut(t, q) ==
  /\ PutsAt(t, q, tool[t]) /\ q \in Pools
  /\ Q!PutPost(t, q)
  /\ tool' = [tool EXCEPT ![t] = NULL]
  /\ GoTo(t, CASE q = "eventReducerQueue" -> "takeTracker"
               [] q = "kFastTrkQueue" -> "putJob"
               [] q = "kTrackArrQueue" -> "postCompletedEvent")
  /\ UNCHANGED <<readerVars, job, dataVars, outputVars>>

ArrayTaken ==
  /\ pc[Reader] = "takeArray"
  /\ Q!TakePost(Reader, "kTrackArrQueue")
  /\ jobs' = [jobs EXCEPT ![job[Reader]].tracklets = item[Reader]]
  /\ GoTo(Reader, "putJob")
  /\ UNCHANGED <<readerVars, job, tool, raw, tracklets, trackletsInSt, outputVars>>

QueueStep ==
  \E t \in Threads, q \in AllQueues :
    \/ Taking(t, q)
    \/ \E v : Putting(t, q, v)
    \/ JobTaken(t, q)
    \/ JobPut(t, q)
    \/ ToolTaken(t, q)
    \/ ToolPut(t, q)

LocalStep ==
  \/ ReaderGetEntry \/ ReaderNewPill \/ ReaderReturn
  \/ \E w \in Workers : WorkerSetRawEvent(w) \/ WorkerFillTracklets(w)
  \/ ReaperCountPill \/ ReaperFill \/ ReaperDelete \/ ReaperPostCompletedEvent \/ ReaperClose
  \/ MainStep

USE DEF Pipes, Pools, AllQueues, GoTo

\* The steps of the reader are of these forms ...
LEMMA ReaderMoves == ReaderStep => QueueStep \/ ArrayTaken \/ LocalStep
<1> USE Constants DEF TakesAt, PutsAt
<1>1. CASE ReaderTakeArray
  <2>1. CASE Q!TakeInside(Reader, "kTrackArrQueue") /\ UNCHANGED <<pc, jobs>>
    <3>1. Taking(Reader, "kTrackArrQueue")
      BY <1>1, <2>1 DEF ReaderTakeArray, Taking, privateVars, readerVars, outputVars
    <3>2. QED
      BY <3>1 DEF QueueStep
  <2>2. QED
    BY <1>1, <2>1 DEF ReaderTakeArray, ArrayTaken
<1>2. CASE ReaderPutJob \/ ReaderPutPill
  <2>1. \/ Putting(Reader, "newJobQueue", job[Reader])
        \/ JobPut(Reader, "newJobQueue")
    BY <1>2 DEF ReaderPutJob, ReaderPutPill, PutJob, Putting, JobPut,
                privateVars, readerVars, dataVars, outputVars
  <2>2. QED
    BY <2>1 DEF QueueStep
<1>3. QED
  BY <1>1, <1>2 DEF ReaderStep, LocalStep

\* ... those of a worker ...
LEMMA WorkerMoves ==
  ASSUME NEW w \in Workers, WorkerStep(w)
  PROVE  QueueStep \/ LocalStep
<1> USE Constants DEF TakesAt, PutsAt
<1>0. w \in Threads /\ w # Reaper /\ w # Reader
  OBVIOUS
<1>1. CASE WorkerTakeJob(w)
  <2>1. Taking(w, "newJobQueue") \/ JobTaken(w, "newJobQueue")
    BY <1>0, <1>1 DEF WorkerTakeJob, TakeJob, Taking, JobTaken,
                      privateVars, readerVars, dataVars, outputVars
  <2>2. QED
    BY <1>0, <2>1 DEF QueueStep
<1>2. CASE WorkerTakeReducer(w)
  <2>1. Taking(w, "eventReducerQueue") \/ ToolTaken(w, "eventReducerQueue")
    BY <1>0, <1>2 DEF WorkerTakeReducer, TakeTool, Taking, ToolTaken,
                      privateVars, readerVars, dataVars, outputVars
  <2>2. QED
    BY <1>0, <2>1 DEF QueueStep
<1>3. CASE WorkerPutReducer(w)
  <2>1. \/ Putting(w, "eventReducerQueue", tool[w])
        \/ ToolPut(w, "eventReducerQueue")
    BY <1>0, <1>3 DEF WorkerPutReducer, PutTool, Putting, ToolPut,
                      privateVars, readerVars, dataVars, outputVars
  <2>2. QED
    BY <1>0, <2>1 DEF QueueStep
<1>4. CASE WorkerTakeTracker(w)
  <2>1. Taking(w, "kFastTrkQueue") \/ ToolTaken(w, "kFastTrkQueue")
    BY <1>0, <1>4 DEF WorkerTakeTracker, TakeTool, Taking, ToolTaken,
                      privateVars, readerVars, dataVars, outputVars
  <2>2. QED
    BY <1>0, <2>1 DEF QueueStep
<1>5. CASE WorkerPutTracker(w)
  <2>1. \/ Putting(w, "kFastTrkQueue", tool[w])
        \/ ToolPut(w, "kFastTrkQueue")
    BY <1>0, <1>5 DEF WorkerPutTracker, PutTool, Putting, ToolPut,
                      privateVars, readerVars, dataVars, outputVars
  <2>2. QED
    BY <1>0, <2>1 DEF QueueStep
<1>6. CASE WorkerPutJob(w) \/ WorkerPutPill(w)
  <2>1. \/ Putting(w, "cmpJobQueue", job[w])
        \/ JobPut(w, "cmpJobQueue")
    BY <1>0, <1>6 DEF WorkerPutJob, WorkerPutPill, PutJob, Putting, JobPut,
                      privateVars, readerVars, dataVars, outputVars
  <2>2. QED
    BY <1>0, <2>1 DEF QueueStep
<1>7. QED
  BY <1>1, <1>2, <1>3, <1>4, <1>5, <1>6 DEF WorkerStep, LocalStep

\* ... those of the reaper ...
LEMMA ReaperMoves == ReaperStep => QueueStep \/ LocalStep
<1> USE Constants DEF TakesAt, PutsAt
<1>1. CASE ReaperTakeJob
  <2>1. Taking(Reaper, "cmpJobQueue") \/ JobTaken(Reaper, "cmpJobQueue")
    BY <1>1 DEF ReaperTakeJob, TakeJob, Taking, JobTaken,
                privateVars, readerVars, dataVars, outputVars
  <2>2. QED
    BY <2>1 DEF QueueStep
<1>2. CASE ReaperPutArray
  <2>1. \/ Putting(Reaper, "kTrackArrQueue", tool[Reaper])
        \/ ToolPut(Reaper, "kTrackArrQueue")
    BY <1>2 DEF ReaperPutArray, PutTool, Putting, ToolPut,
                privateVars, readerVars, dataVars, outputVars
  <2>2. QED
    BY <2>1 DEF QueueStep
<1>3. QED
  BY <1>1, <1>2 DEF ReaperStep, LocalStep

\* ... and so are all steps.
LEMMA Moves == [Next]_vars => QueueStep \/ ArrayTaken \/ LocalStep \/ UNCHANGED vars
BY ReaderMoves, WorkerMoves, ReaperMoves DEF Next, LocalStep, Terminated

-----------------------------------------------------------------------------
(* What the queues guarantee *)

\* front() and pop() find the item at the front.
Front ==
  \A t \in Threads :
    /\ step[t] \in {"takeLock", "takePop"} => queue[opq[t]] # <<>>
    /\ step[t] = "takePop" => item[t] = Head(queue[opq[t]])

\* The invariant of the queues gives their types, and an item to who takes one.
LEMMA QueueFacts == QP!IInv => Q!TypeOK /\ Front
<1> SUFFICES ASSUME QP!IInv
             PROVE  Q!TypeOK /\ Front
  OBVIOUS
<1> USE QueueAssumption
<1>1. QP!TypeOK /\ QP!Accounting /\ QP!FrontRead
  BY DEF QP!IInv
<1>2. Q!TypeOK
  BY <1>1 DEF QP!TypeOK, Q!TypeOK, QP!Steps, Q!Steps
<1>3. ASSUME NEW t \in Threads, step[t] \in {"takeLock", "takePop"}
      PROVE  queue[opq[t]] # <<>>
  <2>1. opq[t] \in AllQueues
    BY <1>2, <1>3 DEF Q!TypeOK
  <2>2. QED
    BY <1>1, <1>3, <2>1, QP!NonEmpty
<1>4. QED
  BY <1>1, <1>2, <1>3 DEF Front, QP!FrontRead

\* It holds at first ...
LEMMA QueueInit == Init => QP!IInv
BY QueueAssumption, QP!InitIInv DEF Init, Q!Init, QP!Init

\* ... and every step on the queues keeps it.
LEMMA QueueNext == QP!IInv /\ [QP!Next]_(QP!sync) => QP!IInv'
BY QueueAssumption, QP!TypeStep, QP!LockStep, QP!AccountingStep DEF QP!IInv

-----------------------------------------------------------------------------
(* Control: labels, pointers and queues fit together *)

\* Taking from a queue, before the last Post, keeps Control ...
LEMMA TakingControl ==
  ASSUME Q!TypeOK, Front, Control, NEW t \in Threads, NEW q \in AllQueues, Taking(t, q)
  PROVE  Control'
<1> USE Constants
<1>1. Locals' /\ Pointers'
  BY DEF Control, Taking, privateVars, Locals, Pointers
<1>2. InOperation'
  BY DEF Control, InOperation, Taking, privateVars, TakesAt, PutsAt, Q!TypeOK,
         Q!TakeInside, Q!TakeWait, Q!TakeFront, Q!TakePop, Q!Goto, Q!At
<1>3. Carriage'
  <2> USE DEF Control, Carriage, Taking, Q!TypeOK
  <2>1. CASE Q!TakeWait(t, q)
    BY <2>1 DEF Q!TakeWait, Q!Goto
  <2>2. CASE Q!TakeFront(t, q)
    <3>1. queue[q] # <<>> /\ queue[q] \in Seq(Carried(q))
      BY <2>2 DEF Front, Q!TakeFront, Q!At
    <3>2. Head(queue[q]) \in Carried(q)
      BY <3>1
    <3>3. QED
      BY <2>2, <3>2 DEF Q!TakeFront, Q!Goto, Q!At
  <2>3. CASE Q!TakePop(t, q)
    <3>1. queue[q] # <<>> /\ queue[q] \in Seq(Carried(q))
      BY <2>3 DEF Front, Q!TakePop, Q!At
    <3>2. Tail(queue[q]) \in Seq(Carried(q))
      BY <3>1
    <3>3. QED
      BY <2>3, <3>2 DEF Q!TakePop, Q!Goto, Q!At
  <2>4. QED
    BY <2>1, <2>2, <2>3 DEF Q!TakeInside
<1>4. QED
  BY <1>1, <1>2, <1>3 DEF Control

\* At its label, a thread puts what is meant for the queue.
LEMMA PutsWhatFits ==
  ASSUME Pointers, NEW t \in Threads, NEW q, NEW v, PutsAt(t, q, v)
  PROVE  q \in AllQueues /\ v \in Carried(q) /\ v \in Items
BY Constants DEF Pointers, PutsAt, Carried, Pool, Items

\* ... so does putting into one ...
LEMMA PuttingControl ==
  ASSUME Q!TypeOK, Front, Control, NEW t \in Threads, NEW q \in AllQueues, NEW v,
         Putting(t, q, v)
  PROVE  Control'
<1> USE Constants
<1>0. v \in Carried(q)
  BY PutsWhatFits DEF Control, Putting
<1>1. Locals' /\ Pointers'
  BY DEF Control, Putting, privateVars, Locals, Pointers
<1>2. InOperation'
  <2> USE DEF Control, InOperation, Putting, privateVars, Q!TypeOK
  <2>1. CASE Q!PutWait(t, q, v)
    BY <2>1 DEF Q!PutWait, Q!Goto, TakesAt, PutsAt
  <2>2. CASE Q!PutLock(t, q)
    BY <2>2 DEF Q!PutLock, Q!Goto, Q!At, TakesAt, PutsAt
  <2>3. CASE Q!PutPush(t, q)
    BY <2>3 DEF Q!PutPush, Q!Goto, Q!At, TakesAt, PutsAt
  <2>4. QED
    BY <2>1, <2>2, <2>3 DEF Q!PutInside
<1>3. Carriage'
  <2> USE DEF Control, Carriage, Putting, Q!TypeOK
  <2>1. CASE Q!PutWait(t, q, v)
    BY <1>0, <2>1 DEF Q!PutWait, Q!Goto
  <2>2. CASE Q!PutLock(t, q)
    BY <2>2 DEF Q!PutLock, Q!Goto, Q!At
  <2>3. CASE Q!PutPush(t, q)
    <3>1. item[t] \in Carried(q) /\ queue[q] \in Seq(Carried(q))
      BY <2>3 DEF Q!PutPush, Q!At
    <3>2. Append(queue[q], item[t]) \in Seq(Carried(q))
      BY <3>1
    <3>3. QED
      BY <2>3, <3>1, <3>2 DEF Q!PutPush, Q!Goto, Q!At
  <2>4. QED
    BY <2>1, <2>2, <2>3 DEF Q!PutInside
<1>4. QED
  BY <1>1, <1>2, <1>3 DEF Control

\* The end of an operation of t, after which t is at another label.
LEMMA IdleInOperation ==
  ASSUME Q!TypeOK, InOperation, NEW t \in Threads,
         step' = [step EXCEPT ![t] = "idle"],
         opq'  = [opq EXCEPT ![t] = NULL],
         item' = [item EXCEPT ![t] = NULL],
         \A u \in Threads \ {t} : pc'[u] = pc[u] /\ job'[u] = job[u] /\ tool'[u] = tool[u]
  PROVE  InOperation'
<1>1. step'[t] = "idle"
  BY DEF Q!TypeOK
<1>2. ASSUME NEW u \in Threads \ {t}
      PROVE  step'[u] = step[u] /\ opq'[u] = opq[u] /\ item'[u] = item[u]
  BY DEF Q!TypeOK
<1>3. QED
  BY <1>1, <1>2 DEF InOperation, TakesAt, PutsAt

\* ... and the Post after taking a job, with its branch on isPoison ...
LEMMA JobTakenControl ==
  ASSUME Q!TypeOK, Control, NEW t \in Threads, NEW q \in AllQueues, JobTaken(t, q)
  PROVE  Control'
<1> USE Constants DEF Q!TakePost, Q!Goto, Q!At
<1>0. item[t] \in Events \cup {POISON} /\ (t \in Workers \/ t = Reaper)
  BY DEF Control, Carriage, JobTaken, Carried, TakesAt
<1>1. Locals'
  BY <1>0 DEF Control, Locals, JobTaken, TakesAt, readerVars, outputVars,
              ReaderLabels, WorkerLabels, ReaperLabels
<1>2. Pointers'
  BY <1>0 DEF Control, Locals, Pointers, JobTaken, TakesAt, readerVars, outputVars
<1>3. InOperation'
  BY IdleInOperation DEF Control, Locals, JobTaken, readerVars, outputVars
<1>4. Carriage'
  BY DEF Control, Carriage, JobTaken, Q!TypeOK
<1>5. QED
  BY <1>1, <1>2, <1>3, <1>4 DEF Control

\* ... after putting one ...
LEMMA JobPutControl ==
  ASSUME Q!TypeOK, Control, NEW t \in Threads, NEW q \in AllQueues, JobPut(t, q)
  PROVE  Control'
<1> USE Constants DEF Q!PutPost, Q!Goto, Q!At
<1>0. t \in Workers \/ t = Reader
  BY DEF JobPut, PutsAt
<1>1. Locals'
  BY <1>0 DEF Control, Locals, JobPut, PutsAt, readerVars, outputVars,
              ReaderLabels, WorkerLabels, ReaperLabels
<1>2. Pointers'
  BY <1>0 DEF Control, Locals, Pointers, JobPut, PutsAt, readerVars, outputVars
<1>3. InOperation'
  BY IdleInOperation DEF Control, Locals, JobPut, readerVars, outputVars
<1>4. Carriage'
  BY DEF Control, Carriage, JobPut, Q!TypeOK
<1>5. QED
  BY <1>1, <1>2, <1>3, <1>4 DEF Control

\* ... after borrowing an object of a pool ...
LEMMA ToolTakenControl ==
  ASSUME Q!TypeOK, Control, NEW t \in Threads, NEW q \in AllQueues, ToolTaken(t, q)
  PROVE  Control'
<1> USE Constants DEF Q!TakePost, Q!Goto, Q!At
<1>0. /\ item[t] \in Reducers \cup Trackers
      /\ q = "eventReducerQueue" => item[t] \in Reducers
      /\ q # "eventReducerQueue" => item[t] \in Trackers /\ q = "kFastTrkQueue"
  BY DEF Control, Carriage, ToolTaken, Carried, Pool, TakesAt
<1>1. Locals'
  BY <1>0 DEF Control, Locals, ToolTaken, TakesAt, readerVars, outputVars,
              ReaderLabels, WorkerLabels, ReaperLabels
<1>2. Pointers'
  BY <1>0 DEF Control, Locals, Pointers, ToolTaken, TakesAt, readerVars, outputVars
<1>3. InOperation'
  BY IdleInOperation DEF Control, Locals, ToolTaken, readerVars, outputVars
<1>4. Carriage'
  BY DEF Control, Carriage, ToolTaken, Q!TypeOK
<1>5. QED
  BY <1>1, <1>2, <1>3, <1>4 DEF Control

\* ... after giving it back ...
LEMMA ToolPutControl ==
  ASSUME Q!TypeOK, Control, NEW t \in Threads, NEW q \in AllQueues, ToolPut(t, q)
  PROVE  Control'
<1> USE Constants DEF Q!PutPost, Q!Goto, Q!At
<1>0. IF q = "kTrackArrQueue" THEN t = Reaper ELSE t \in Workers
  <2>1. PutsAt(t, q, tool[t]) /\ q \in Pools
    BY DEF ToolPut
  <2>2. QED
    BY <2>1 DEF PutsAt
<1>1. Locals'
  BY <1>0 DEF Control, Locals, ToolPut, PutsAt, readerVars, outputVars,
              ReaderLabels, WorkerLabels, ReaperLabels
<1>2. Pointers'
  BY <1>0 DEF Control, Locals, Pointers, ToolPut, PutsAt, readerVars, outputVars
<1>3. InOperation'
  BY IdleInOperation DEF Control, Locals, ToolPut, readerVars, outputVars
<1>4. Carriage'
  BY DEF Control, Carriage, ToolPut, Q!TypeOK
<1>5. QED
  BY <1>1, <1>2, <1>3, <1>4 DEF Control

\* ... and after taking the array of a new job.
LEMMA ArrayTakenControl ==
  ASSUME Q!TypeOK, Control, ArrayTaken
  PROVE  Control'
<1> USE Constants DEF Q!TakePost, Q!Goto, Q!At, ArrayTaken
<1>1. Locals'
  BY DEF Control, Locals, readerVars, outputVars, ReaderLabels
<1>2. Pointers'
  BY DEF Control, Locals, Pointers, readerVars, outputVars
<1>3. InOperation'
  BY IdleInOperation DEF Control, Locals
<1>4. Carriage'
  BY DEF Control, Carriage, Q!TypeOK
<1>5. QED
  BY <1>1, <1>2, <1>3, <1>4 DEF Control

\* The reaper's job has its array.
ReapsWhole == pc[Reaper] \in {"fill", "delete"} => jobs[job[Reaper]].tracklets \in Arrays

\* The steps outside the queue operations keep Control.
LEMMA LocalControl ==
  ASSUME Q!TypeOK, Control, ReapsWhole, LocalStep
  PROVE  Control'
<1> USE Constants
<1>0. Locals /\ Pointers /\ InOperation /\ Carriage
  BY DEF Control
<1>1. UNCHANGED syncVars
  BY DEF LocalStep, ReaderGetEntry, ReaderNewPill, ReaderReturn, WorkerSetRawEvent,
         WorkerFillTracklets, ReaperCountPill, ReaperFill, ReaperDelete,
         ReaperPostCompletedEvent, ReaperClose, MainStep, startReaderThread,
         startReaperThread, startWorkerThread, Start, Join, Destroy
<1>2. Carriage'
  BY <1>0, <1>1 DEF Carriage, syncVars
<1>3. ASSUME NEW t \in Threads \cup {Main}, NEW label,
             pc' = [pc EXCEPT ![t] = label],
             \A u \in Threads \ {t} : job'[u] = job[u] /\ tool'[u] = tool[u],
             pc[t] \in {"unborn", "loop", "setRawEvent", "fill", "countPill", "delete",
                        "postCompletedEvent", "close"} \cup MainLabels
      PROVE  InOperation'
  <2>1. t \in Threads => step[t] = "idle"
    BY <1>0, <1>3 DEF InOperation, TakesAt, PutsAt, MainLabels, Q!TypeOK, Q!Steps
  <2>2. ASSUME NEW u \in Threads \ {t}
        PROVE  pc'[u] = pc[u] /\ job'[u] = job[u] /\ tool'[u] = tool[u]
    BY <1>0, <1>3 DEF Locals
  <2>3. QED
    BY <1>0, <1>1, <2>1, <2>2 DEF InOperation, TakesAt, PutsAt, syncVars
<1>4. CASE ReaderGetEntry
  <2>1. Locals' /\ Pointers'
    BY <1>0, <1>4 DEF ReaderGetEntry, Locals, Pointers, ReaderLabels, outputVars, Events
  <2>2. InOperation'
    BY <1>0, <1>3, <1>4 DEF ReaderGetEntry, Locals
  <2>3. QED
    BY <1>2, <2>1, <2>2 DEF Control
<1>5. CASE ReaderNewPill
  <2>1. Locals' /\ Pointers'
    BY <1>0, <1>5 DEF ReaderNewPill, Locals, Pointers, ReaderLabels, outputVars
  <2>2. InOperation'
    BY <1>0, <1>3, <1>5 DEF ReaderNewPill, Locals
  <2>3. QED
    BY <1>2, <2>1, <2>2 DEF Control
<1>6. CASE ReaderReturn
  <2>1. Locals' /\ Pointers'
    BY <1>0, <1>6 DEF ReaderReturn, Locals, Pointers, ReaderLabels, readerVars, outputVars
  <2>2. InOperation'
    BY <1>0, <1>3, <1>6 DEF ReaderReturn, Locals
  <2>3. QED
    BY <1>2, <2>1, <2>2 DEF Control
<1>7. ASSUME NEW w \in Workers, WorkerSetRawEvent(w) \/ WorkerFillTracklets(w)
      PROVE  Control'
  <2>1. Locals' /\ Pointers'
    BY <1>0, <1>7 DEF WorkerSetRawEvent, WorkerFillTracklets, Locals, Pointers,
                      WorkerLabels, readerVars, outputVars
  <2>2. InOperation'
    BY <1>0, <1>3, <1>7 DEF WorkerSetRawEvent, WorkerFillTracklets, Locals
  <2>3. QED
    BY <1>2, <2>1, <2>2 DEF Control
<1>8. CASE ReaperCountPill
  <2>1. Locals' /\ Pointers'
    BY <1>0, <1>8 DEF ReaperCountPill, Locals, Pointers, ReaperLabels, readerVars
  <2>2. InOperation'
    BY <1>0, <1>3, <1>8 DEF ReaperCountPill, Locals
  <2>3. QED
    BY <1>2, <2>1, <2>2 DEF Control
<1>9. CASE ReaperFill \/ ReaperPostCompletedEvent \/ ReaperClose
  <2>1. Locals' /\ Pointers'
    BY <1>0, <1>9 DEF ReaperFill, ReaperPostCompletedEvent, ReaperClose, Locals, Pointers,
                      ReaperLabels, readerVars
  <2>2. InOperation'
    BY <1>0, <1>3, <1>9 DEF ReaperFill, ReaperPostCompletedEvent, ReaperClose, Locals
  <2>3. QED
    BY <1>2, <2>1, <2>2 DEF Control
<1>10. CASE ReaperDelete
  <2>1. Locals' /\ Pointers'
    <3>1. tool'[Reaper] = jobs[job[Reaper]].tracklets
      BY <1>0, <1>10 DEF ReaperDelete, Locals
    <3>2. jobs[job[Reaper]].tracklets \in Arrays
      BY <1>10 DEF ReaperDelete, ReapsWhole
    <3>3. QED
      BY <1>0, <1>10, <3>1, <3>2
         DEF ReaperDelete, Locals, Pointers, ReaperLabels, readerVars, outputVars
  <2>2. InOperation'
    BY <1>0, <1>3, <1>10 DEF ReaperDelete, Locals
  <2>3. QED
    BY <1>2, <2>1, <2>2 DEF Control
<1>11. CASE MainStep
  <2>1. ASSUME NEW t \in Threads, NEW at, NEW label, NEW next, Start(t, at, label, next),
               at \in MainLabels, next \in MainLabels,
               label = IF t = Reader THEN "loop" ELSE "takeJob"
        PROVE  Control'
    <3>1. pc'[t] = label /\ pc[t] = "unborn" /\ pc'[Main] = next
          /\ \A u \in Threads \ {t} : pc'[u] = pc[u]
      BY <1>0, <2>1 DEF Start, Locals
    <3>6. pc'[t] \in {"loop", "takeJob"} /\ job' = job /\ tool' = tool
      BY <2>1, <3>1 DEF Start
    <3>7. step[t] = "idle" /\ step' = step /\ opq' = opq /\ item' = item
      BY <1>0, <1>1, <3>1 DEF InOperation, TakesAt, PutsAt, Q!TypeOK, Q!Steps, syncVars
    <3>2. Locals'
      BY <1>0, <2>1 DEF Start, Locals, ReaderLabels, WorkerLabels, ReaperLabels, readerVars,
                        outputVars
    <3>3. Pointers'
      BY <1>0, <3>1, <3>6 DEF Pointers
    <3>4. InOperation'
      BY <1>0, <3>1, <3>6, <3>7 DEF InOperation, TakesAt, PutsAt
    <3>5. QED
      BY <1>2, <3>2, <3>3, <3>4 DEF Control
  <2>2. ASSUME NEW at \in MainLabels, NEW next \in MainLabels, pc[Main] = at,
               pc' = [pc EXCEPT ![Main] = next],
               UNCHANGED <<readerVars, job, tool, dataVars, outputVars>>
        PROVE  Control'
    <3>1. \A t \in Threads : pc'[t] = pc[t]
      BY <1>0, <2>2 DEF Locals
    <3>2. Locals' /\ Pointers'
      BY <1>0, <2>2, <3>1 DEF Locals, Pointers, readerVars, outputVars
    <3>3. InOperation'
      BY <1>0, <1>3, <2>2 DEF Locals
    <3>4. QED
      BY <1>2, <3>2, <3>3 DEF Control
  <2>3. CASE startReaderThread \/ startReaperThread
             \/ \E w \in Workers : startWorkerThread(w)
    BY <2>1, <2>3 DEF startReaderThread, startReaperThread, startWorkerThread, MainLabels
  <2>4. CASE \/ Join({Reader}, "joinReader", "joinReaper")
             \/ Join({Reaper}, "joinReaper", "joinWorkers")
             \/ Join(Workers, "joinWorkers", "returned")
             \/ Destroy
    BY <2>2, <2>4 DEF Join, Destroy, MainLabels
  <2>5. QED
    BY <1>11, <2>3, <2>4 DEF MainStep
<1>12. QED
  BY <1>4, <1>5, <1>6, <1>7, <1>8, <1>9, <1>10, <1>11 DEF LocalStep

\* Control holds at first ...
LEMMA InitControl == Init => Control
<1> SUFFICES ASSUME Init PROVE Control
  OBVIOUS
<1> USE Constants DEF Init, Q!Init
<1>1. Locals
  BY DEF Locals, ReaderLabels, WorkerLabels, ReaperLabels, MainLabels
<1>2. Pointers
  BY DEF Pointers
<1>3. InOperation
  BY DEF InOperation
<1>4. Carriage
  <2>1. ASSUME NEW q \in AllQueues
        PROVE  queue[q] \in Seq(Carried(q))
    <3>1. CASE q \in Pipes
      BY <2>1, <3>1 DEF Filled
    <3>2. CASE q \in Pools
      <4>1. queue[q] = [i \in 1..Depth[q] |-> i]
        BY <3>2 DEF Filled
      <4>2. Depth[q] \in Nat /\ 1..Depth[q] \subseteq Carried(q)
        <5>1. NEVENT_REDUCERS \in Nat /\ NKFAST_TRACKERS \in Nat /\ NTRACK_ARRAYS \in Nat
          BY KSchedulerAssumption
        <5>2. QED
          BY <3>2, <5>1 DEF Depth, Carried, Pool, Reducers, Trackers, Arrays
      <4>3. QED
        BY <4>1, <4>2
    <3>3. QED
      BY <3>1, <3>2
  <2>2. QED
    BY <2>1 DEF Carriage
<1>5. QED
  BY <1>1, <1>2, <1>3, <1>4 DEF Control

\* ... and every step keeps it.
LEMMA NextControl ==
  ASSUME Q!TypeOK, Front, Control, ReapsWhole, [Next]_vars
  PROVE  Control'
<1>1. CASE QueueStep
  BY <1>1, TakingControl, PuttingControl, JobTakenControl, JobPutControl, ToolTakenControl,
     ToolPutControl DEF QueueStep
<1>2. CASE UNCHANGED vars
  BY <1>2 DEF vars, Control, InOperation, TakesAt, PutsAt, Carriage, Pointers, Locals
<1>3. QED
  BY <1>1, <1>2, ArrayTakenControl, LocalControl, Moves

\* A step of the scheduler is a step of the queues, or leaves them alone.
LEMMA NextQueues ==
  ASSUME Control, [Next]_vars
  PROVE  [QP!Next]_(QP!sync)
<1> USE Constants
<1>1. ASSUME NEW t \in Threads, NEW q \in AllQueues,
             \/ Q!TakeInside(t, q)
             \/ Q!TakePost(t, q)
             \/ \E v \in Items : Q!PutInside(t, q, v)
             \/ Q!PutPost(t, q)
      PROVE  QP!Next
  BY <1>1 DEF QP!Next, QP!TakeInside, QP!TakePost, QP!PutInside, QP!PutPost,
              QP!TakeWait, QP!TakeFront, QP!TakePop, QP!PutWait, QP!PutLock, QP!PutPush,
              QP!Goto, QP!At,
              Q!TakeInside, Q!TakePost, Q!PutInside, Q!PutPost,
              Q!TakeWait, Q!TakeFront, Q!TakePop, Q!PutWait, Q!PutLock, Q!PutPush,
              Q!Goto, Q!At
<1>2. CASE QueueStep
  <2>1. PICK t \in Threads, q \in AllQueues :
          \/ Taking(t, q)
          \/ \E v : Putting(t, q, v)
          \/ JobTaken(t, q)
          \/ JobPut(t, q)
          \/ ToolTaken(t, q)
          \/ ToolPut(t, q)
    BY <1>2 DEF QueueStep
  <2>2. CASE \E v : Putting(t, q, v)
    <3>1. PICK v : Putting(t, q, v)
      BY <2>2
    <3>2. v \in Items
      BY <3>1, PutsWhatFits DEF Putting, Control
    <3>3. QED
      BY <1>1, <3>1, <3>2 DEF Putting
  <2>3. QED
    BY <1>1, <2>1, <2>2 DEF Taking, JobTaken, JobPut, ToolTaken, ToolPut
<1>3. CASE ArrayTaken
  BY <1>1, <1>3 DEF ArrayTaken
<1>4. CASE LocalStep \/ UNCHANGED vars
  <2>1. UNCHANGED syncVars
    BY <1>4 DEF vars, syncVars, LocalStep, ReaderGetEntry, ReaderNewPill,
         ReaderReturn, WorkerSetRawEvent,
         WorkerFillTracklets, ReaperCountPill, ReaperFill, ReaperDelete,
         ReaperPostCompletedEvent, ReaperClose, MainStep, startReaderThread,
         startReaperThread, startWorkerThread, Start, Join, Destroy
  <2>2. QED
    BY <2>1 DEF syncVars, QP!sync
<1>5. QED
  BY <1>2, <1>3, <1>4, Moves

HIDE DEF Pipes, Pools, AllQueues, GoTo

-----------------------------------------------------------------------------
(***************************************************************************)
(* Who has what: a job is in one pipe or in the hand of one thread, and    *)
(* exists as long as it is; a reducer, a tracker or an array is in its     *)
(* pool, in one hand, or, an array, in one job.  No lock protects the      *)
(* jobs: this is what takes its place.  Lemmas about items in sequences    *)
(* and their owners come first.                                            *)
(***************************************************************************)

-----------------------------------------------------------------------------
(* Items in sequences *)

\* Tail takes the first item and moves the others up.
LEMMA TailItems ==
  ASSUME NEW S, NEW s \in Seq(S), s # <<>>
  PROVE  /\ 1 \in 1..Len(s) /\ Head(s) = s[1] /\ Len(s) \in Nat
         /\ Len(Tail(s)) = Len(s) - 1
         /\ \A i \in 1..Len(Tail(s)) : i + 1 \in 1..Len(s) /\ Tail(s)[i] = s[i + 1]
<1>1. /\ Len(s) \in Nat /\ Len(s) > 0 /\ Head(s) = s[1]
      /\ Len(Tail(s)) = Len(s) - 1
      /\ \A i \in 1..(Len(s) - 1) : Tail(s)[i] = s[i + 1]
  OBVIOUS
<1>2. QED
  BY <1>1

\* Append leaves the items where they are and puts the new one after them.
LEMMA AppendItems ==
  ASSUME NEW S, NEW s \in Seq(S), NEW v \in S
  PROVE  /\ Len(s) \in Nat
         /\ Len(Append(s, v)) = Len(s) + 1
         /\ \A i \in 1..Len(s) : Append(s, v)[i] = s[i]
         /\ Append(s, v)[Len(s) + 1] = v
OBVIOUS

\* Where the item x is in the sequence s.
PlacesOf(x, s) == {i \in 1..Len(s) : s[i] = x}

\* There are finitely many such places.
LEMMA PlacesFinite ==
  ASSUME NEW S, NEW s \in Seq(S), NEW x
  PROVE  IsFiniteSet(PlacesOf(x, s)) /\ Cardinality(PlacesOf(x, s)) \in Nat
<1>1. IsFiniteSet(1..Len(s))
  BY FS_Interval
<1>2. PlacesOf(x, s) \in SUBSET (1..Len(s))
  BY DEF PlacesOf
<1>3. QED
  BY <1>1, <1>2, FS_Subset, FS_CardinalityType

\* Append adds a place if it adds the item ...
LEMMA PlacesOfAppend ==
  ASSUME NEW S, NEW s \in Seq(S), NEW v \in S, NEW x
  PROVE  /\ PlacesOf(x, Append(s, v)) =
              IF v = x THEN PlacesOf(x, s) \cup {Len(s) + 1} ELSE PlacesOf(x, s)
         /\ Cardinality(PlacesOf(x, Append(s, v))) =
              Cardinality(PlacesOf(x, s)) + IF v = x THEN 1 ELSE 0
<1>1. /\ Len(s) \in Nat
      /\ Len(Append(s, v)) = Len(s) + 1
      /\ \A i \in 1..Len(s) : Append(s, v)[i] = s[i]
      /\ Append(s, v)[Len(s) + 1] = v
  BY AppendItems
<1>2. PlacesOf(x, Append(s, v)) =
        IF v = x THEN PlacesOf(x, s) \cup {Len(s) + 1} ELSE PlacesOf(x, s)
  <2>1. 1..Len(Append(s, v)) = 1..Len(s) \cup {Len(s) + 1}
    BY <1>1
  <2>2. QED
    BY <1>1, <2>1 DEF PlacesOf
<1>3. Len(s) + 1 \notin PlacesOf(x, s)
  BY <1>1 DEF PlacesOf
<1>4. IsFiniteSet(PlacesOf(x, s)) /\ Cardinality(PlacesOf(x, s)) \in Nat
  BY PlacesFinite
<1>5. Cardinality(PlacesOf(x, s) \cup {Len(s) + 1}) = Cardinality(PlacesOf(x, s)) + 1
  BY <1>3, <1>4, FS_AddElement
<1>6. QED
  BY <1>2, <1>4, <1>5

\* ... and Tail moves the places up, and drops the first one.
LEMMA PlacesOfTail ==
  ASSUME NEW S, NEW s \in Seq(S), s # <<>>, NEW x
  PROVE  /\ PlacesOf(x, Tail(s)) = {i \in 1..Len(Tail(s)) : i + 1 \in PlacesOf(x, s)}
         /\ Cardinality(PlacesOf(x, Tail(s))) =
              Cardinality(PlacesOf(x, s)) - IF Head(s) = x THEN 1 ELSE 0
<1> DEFINE P == PlacesOf(x, s)
           T == PlacesOf(x, Tail(s))
           shift == [i \in P \ {1} |-> i - 1]
<1>1. /\ 1 \in 1..Len(s) /\ Head(s) = s[1] /\ Len(s) \in Nat
      /\ Len(Tail(s)) = Len(s) - 1
      /\ \A i \in 1..Len(Tail(s)) : i + 1 \in 1..Len(s) /\ Tail(s)[i] = s[i + 1]
  BY TailItems
<1>2. T = {i \in 1..Len(Tail(s)) : i + 1 \in P}
  BY <1>1 DEF PlacesOf
<1>3. P \subseteq 1..Len(s) /\ T \subseteq 1..Len(Tail(s))
  BY DEF PlacesOf
<1>4. 1 \in P <=> Head(s) = x
  BY <1>1 DEF PlacesOf
<1> HIDE DEF P, T
<1>5. shift \in Bijection(P \ {1}, T)
  <2>1. \A i \in P \ {1} : i - 1 \in T
    BY <1>1, <1>2, <1>3
  <2>2. shift \in [P \ {1} -> T]
    BY <2>1
  <2>3. \A i, j \in P \ {1} : shift[i] = shift[j] => i = j
    BY <1>1, <1>3
  <2>4. \A k \in T : \E i \in P \ {1} : shift[i] = k
    <3>1. ASSUME NEW k \in T
          PROVE  k + 1 \in P \ {1} /\ (k + 1) - 1 = k
      BY <1>1, <1>2, <1>3
    <3>2. QED
      BY <3>1
  <2> HIDE DEF shift
  <2>5. QED
    BY <2>2, <2>3, <2>4 DEF Bijection, Injection, Surjection, IsInjective
<1>6. IsFiniteSet(P) /\ Cardinality(P) \in Nat
  BY PlacesFinite DEF P
<1>7. /\ IsFiniteSet(P \ {1})
      /\ Cardinality(P \ {1}) = IF 1 \in P THEN Cardinality(P) - 1 ELSE Cardinality(P)
  BY <1>6, FS_RemoveElement
<1>8. ExistsBijection(P \ {1}, T)
  BY <1>5 DEF ExistsBijection
<1>9. Cardinality(T) = Cardinality(P \ {1})
  BY <1>7, <1>8, FS_Bijection
<1>10. QED
  BY <1>2, <1>4, <1>6, <1>7, <1>9 DEF P, T

-----------------------------------------------------------------------------
(* Things that lie in sequences or are held by owners, and go from one to the *)
(* other: each is in one place at a time.                                     *)

\* No thing is held by two owners, or held and in one of the queues qs, or in
\* the queues twice.  What is in the queues and no thing does not matter.
Sole(owners, things, held, seqs, qs) ==
  /\ \A h, k \in owners : \A x \in things : x \in held[h] /\ x \in held[k] => h = k
  /\ \A h \in owners, q \in qs : \A i \in 1..Len(seqs[q]) :
       seqs[q][i] \in things => seqs[q][i] \notin held[h]
  /\ \A q, p \in qs : \A i \in 1..Len(seqs[q]), j \in 1..Len(seqs[p]) :
       seqs[q][i] \in things /\ seqs[q][i] = seqs[p][j] => q = p /\ i = j

\* Things may be dropped.
LEMMA SoleKept ==
  ASSUME NEW owners, NEW things, NEW held, NEW seqs, NEW qs, NEW held2, NEW seqs2,
         Sole(owners, things, held, seqs, qs),
         \A h \in owners : held2[h] \subseteq held[h],
         \A q \in qs : seqs2[q] = seqs[q]
  PROVE  Sole(owners, things, held2, seqs2, qs)
BY DEF Sole

\* A new thing, or one that its owner gives away, goes to the owner o.
LEMMA SoleGiven ==
  ASSUME NEW owners, NEW things, NEW held, NEW seqs, NEW qs, NEW held2, NEW seqs2,
         Sole(owners, things, held, seqs, qs),
         NEW o \in owners, NEW x \in things,
         \A h \in owners : held2[h] \subseteq held[h] \cup {x},
         \A h \in owners \ {o} : x \notin held2[h],
         \A q \in qs : \A i \in 1..Len(seqs[q]) : seqs[q][i] # x,
         \A q \in qs : seqs2[q] = seqs[q]
  PROVE  Sole(owners, things, held2, seqs2, qs)
BY DEF Sole

\* The owner o takes the first item of the queue p.
LEMMA SolePop ==
  ASSUME NEW owners, NEW things, NEW held, NEW seqs, NEW qs, NEW held2, NEW seqs2,
         Sole(owners, things, held, seqs, qs),
         NEW o \in owners, NEW p \in qs, NEW S,
         seqs[p] \in Seq(S), seqs[p] # <<>>,
         \A h \in owners \ {o} : held2[h] \subseteq held[h],
         held2[o] \subseteq held[o] \cup {Head(seqs[p])},
         seqs2[p] = Tail(seqs[p]),
         \A q \in qs \ {p} : seqs2[q] = seqs[q]
  PROVE  Sole(owners, things, held2, seqs2, qs)
<1> DEFINE Old(q, i) == IF q = p THEN i + 1 ELSE i
<1>1. 1 \in 1..Len(seqs[p]) /\ Head(seqs[p]) = seqs[p][1]
  OBVIOUS
<1>9. /\ Len(seqs2[p]) = Len(seqs[p]) - 1 /\ Len(seqs[p]) \in Nat
      /\ \A k \in 1..Len(seqs2[p]) : seqs2[p][k] = seqs[p][k + 1]
  OBVIOUS
<1>2. ASSUME NEW q \in qs, NEW i \in 1..Len(seqs2[q])
      PROVE  /\ Old(q, i) \in 1..Len(seqs[q])
             /\ seqs2[q][i] = seqs[q][Old(q, i)]
             /\ q = p => Old(q, i) # 1
  <2>1. CASE q = p
    <3>1. i \in 1..(Len(seqs[p]) - 1) /\ seqs2[p][i] = seqs[p][i + 1]
      BY <1>9, <2>1
    <3>2. i + 1 \in 1..Len(seqs[p]) /\ i + 1 # 1
      BY <1>9, <3>1
    <3>3. QED
      BY <2>1, <3>1, <3>2
  <2>2. CASE q # p
    BY <2>2
  <2>3. QED
    BY <2>1, <2>2
<1>3. /\ \A h, k \in owners : \A x \in things : x \in held[h] /\ x \in held[k] => h = k
      /\ \A h \in owners, q \in qs : \A i \in 1..Len(seqs[q]) :
           seqs[q][i] \in things => seqs[q][i] \notin held[h]
      /\ \A q, r \in qs : \A i \in 1..Len(seqs[q]), j \in 1..Len(seqs[r]) :
           seqs[q][i] \in things /\ seqs[q][i] = seqs[r][j] => q = r /\ i = j
  BY DEF Sole
<1>4. ASSUME NEW q \in qs, NEW i \in 1..Len(seqs2[q]), seqs2[q][i] \in things
      PROVE  seqs2[q][i] # seqs[p][1]
  <2> HIDE DEF Old
  <2>1. /\ Old(q, i) \in 1..Len(seqs[q]) /\ seqs2[q][i] = seqs[q][Old(q, i)]
        /\ q = p => Old(q, i) # 1
    BY <1>2
  <2>2. QED
    BY <1>1, <1>3, <1>4, <2>1
<1>5. \A h, k \in owners : \A x \in things : x \in held2[h] /\ x \in held2[k] => h = k
  BY <1>1, <1>3
<1>6. \A h \in owners, q \in qs : \A i \in 1..Len(seqs2[q]) :
        seqs2[q][i] \in things => seqs2[q][i] \notin held2[h]
  <2> HIDE DEF Old
  <2>1. ASSUME NEW h \in owners, NEW q \in qs, NEW i \in 1..Len(seqs2[q]),
               seqs2[q][i] \in things, seqs2[q][i] \in held2[h]
        PROVE  FALSE
    <3>1. seqs2[q][i] \in held[h]
      BY <1>1, <1>4, <2>1
    <3>2. QED
      BY <1>2, <1>3, <2>1, <3>1
  <2>2. QED
    BY <2>1
<1>7. ASSUME NEW q \in qs, NEW r \in qs, NEW i \in 1..Len(seqs2[q]), NEW j \in 1..Len(seqs2[r]),
             seqs2[q][i] \in things, seqs2[q][i] = seqs2[r][j]
      PROVE  q = r /\ i = j
  <2>1. q = r /\ Old(q, i) = Old(r, j)
    <3> HIDE DEF Old
    <3>1. /\ Old(q, i) \in 1..Len(seqs[q]) /\ seqs2[q][i] = seqs[q][Old(q, i)]
          /\ Old(r, j) \in 1..Len(seqs[r]) /\ seqs2[r][j] = seqs[r][Old(r, j)]
      BY <1>2
    <3>2. seqs[q][Old(q, i)] \in things /\ seqs[q][Old(q, i)] = seqs[r][Old(r, j)]
      BY <1>7, <3>1
    <3>3. QED
      BY <1>3, <3>1, <3>2
  <2>2. QED
    BY <2>1
<1>8. QED
  BY <1>5, <1>6, <1>7 DEF Sole

\* The owner o puts v, which is its own if it is a thing, into the queue p.
LEMMA SolePush ==
  ASSUME NEW owners, NEW things, NEW held, NEW seqs, NEW qs, NEW held2, NEW seqs2,
         Sole(owners, things, held, seqs, qs),
         NEW o \in owners, NEW p \in qs, NEW S, NEW v \in S,
         seqs[p] \in Seq(S),
         v \in things => v \in held[o],
         \A h \in owners : held2[h] \subseteq held[h],
         v \notin held2[o],
         seqs2[p] = Append(seqs[p], v),
         \A q \in qs \ {p} : seqs2[q] = seqs[q]
  PROVE  Sole(owners, things, held2, seqs2, qs)
<1>1. /\ Len(seqs2[p]) = Len(seqs[p]) + 1 /\ Len(seqs[p]) \in Nat
      /\ \A i \in 1..Len(seqs[p]) : seqs2[p][i] = seqs[p][i]
      /\ seqs2[p][Len(seqs[p]) + 1] = v
  OBVIOUS
<1>0. \A q, r \in qs : \A i \in 1..Len(seqs[q]), j \in 1..Len(seqs[r]) :
        seqs[q][i] \in things /\ seqs[q][i] = seqs[r][j] => q = r /\ i = j
  BY DEF Sole
<1>2. ASSUME v \in things
      PROVE  /\ \A h \in owners : v \notin held2[h]
             /\ \A q \in qs : \A i \in 1..Len(seqs[q]) : seqs[q][i] # v
  BY <1>2 DEF Sole
<1>3. \A h, k \in owners : \A x \in things : x \in held2[h] /\ x \in held2[k] => h = k
  BY DEF Sole
<1>4. ASSUME NEW q \in qs, NEW i \in 1..Len(seqs2[q])
      PROVE  \/ i \in 1..Len(seqs[q]) /\ seqs2[q][i] = seqs[q][i]
             \/ q = p /\ i = Len(seqs[p]) + 1 /\ seqs2[q][i] = v
  <2>1. CASE q = p
    BY <1>1, <2>1
  <2>2. CASE q # p
    BY <2>2
  <2>3. QED
    BY <2>1, <2>2
<1>5. \A h \in owners, q \in qs : \A i \in 1..Len(seqs2[q]) :
        seqs2[q][i] \in things => seqs2[q][i] \notin held2[h]
  <2>1. ASSUME NEW h \in owners, NEW q \in qs, NEW i \in 1..Len(seqs2[q]),
               seqs2[q][i] \in things
        PROVE  seqs2[q][i] \notin held2[h]
    BY <1>2, <1>4, <2>1 DEF Sole
  <2>2. QED
    BY <2>1
<1>6. ASSUME NEW q \in qs, NEW r \in qs, NEW i \in 1..Len(seqs2[q]), NEW j \in 1..Len(seqs2[r]),
             seqs2[q][i] \in things, seqs2[q][i] = seqs2[r][j]
      PROVE  q = r /\ i = j
  <2>1. CASE i \in 1..Len(seqs[q]) /\ seqs2[q][i] = seqs[q][i]
    <3>1. j \in 1..Len(seqs[r]) /\ seqs2[r][j] = seqs[r][j]
      <4>1. ~(r = p /\ j = Len(seqs[p]) + 1 /\ seqs2[r][j] = v)
        BY <1>2, <1>6, <2>1
      <4>2. QED
        BY <1>4, <4>1
    <3>2. seqs[q][i] \in things /\ seqs[q][i] = seqs[r][j]
      BY <1>6, <2>1, <3>1
    <3>3. QED
      BY <1>0, <2>1, <3>1, <3>2
  <2>2. CASE q = p /\ i = Len(seqs[p]) + 1 /\ seqs2[q][i] = v
    BY <1>2, <1>4, <1>6, <2>2
  <2>3. QED
    BY <1>4, <2>1, <2>2
<1>7. QED
  BY <1>3, <1>5, <1>6 DEF Sole

-----------------------------------------------------------------------------
(* The jobs *)

\* The jobs that t has in hand: its pointer, unless it has just put it into a
\* pipe, and what it has just taken from one.
JobsHeld == [t \in Threads |->
  {e \in Events : \/ job[t] = e /\ ~Pushed(t)
                  \/ step[t] = "takePost" /\ opq[t] \in Pipes /\ item[t] = e}]

\* A job is in one place, and exists as long as it is there.
JobsOwned ==
  /\ Sole(Threads, Events, JobsHeld, queue, Pipes)
  /\ \A t \in Threads : \A e \in JobsHeld[t] : jobs[e] # NULL
  /\ \A q \in Pipes : \A i \in 1..Len(queue[q]) :
       queue[q][i] \in Events => jobs[queue[q][i]] # NULL

\* What the fields of a job are.
JobData ==
  /\ jobs \in [Events -> KJob \cup {NULL}]
  /\ raw  \in [Events \cup {BUF} -> Events \cup {NULL}]
  /\ trackletsInSt \in [Trackers -> Events \cup {NULL}]
  /\ \A e \in Events : jobs[e] # NULL =>
       /\ e < entry
       /\ jobs[e].evData = e
       /\ raw[e] = e
       /\ jobs[e].tracklets \in Arrays \/ (pc[Reader] = "takeArray" /\ job[Reader] = e)
  /\ \A w \in Workers : pc[w] = "fill" => trackletsInSt[tool[w]] \in Events

-----------------------------------------------------------------------------
\* A step after which no thread has other jobs than before, and which deletes none.
LEMMA JobsKept ==
  ASSUME JobsOwned,
         \A t \in Threads : JobsHeld'[t] \subseteq JobsHeld[t],
         \A q \in Pipes : queue'[q] = queue[q],
         \A e \in Events : jobs[e] # NULL => jobs'[e] # NULL
  PROVE  JobsOwned'
<1>1. Sole(Threads, Events, JobsHeld', queue', Pipes)
  BY SoleKept DEF JobsOwned
<1>2. \A t \in Threads : \A e \in JobsHeld'[t] : e \in Events
  BY DEF JobsHeld
<1>3. QED
  BY <1>1, <1>2 DEF JobsOwned

\* A job that is popped goes from the pipe to the thread.
LEMMA TakingJobs ==
  ASSUME Q!TypeOK, Front, Control, JobsOwned,
         NEW t \in Threads, NEW q \in AllQueues, Taking(t, q)
  PROVE  JobsOwned'
<1> USE Constants DEF Taking, privateVars, Q!TypeOK
<1>1. CASE Q!TakeWait(t, q) \/ Q!TakeFront(t, q)
  <2>1. \A u \in Threads : JobsHeld'[u] \subseteq JobsHeld[u]
    BY <1>1 DEF JobsHeld, Pushed, Q!TakeWait, Q!TakeFront, Q!Goto, Q!At
  <2>2. QED
    BY <1>1, <2>1, JobsKept DEF Q!TakeWait, Q!TakeFront
<1>0. Pipes \cap Pools = {} /\ AllQueues = Pipes \cup Pools
  BY DEF Pipes, Pools, AllQueues
<1>2. CASE Q!TakePop(t, q) /\ q \in Pools
  <2>1. \A u \in Threads : JobsHeld'[u] \subseteq JobsHeld[u]
    BY <1>0, <1>2 DEF JobsHeld, Pushed, Q!TakePop, Q!Goto, Q!At
  <2>2. \A p \in Pipes : queue'[p] = queue[p]
    BY <1>0, <1>2 DEF Q!TakePop
  <2>3. QED
    BY <2>1, <2>2, JobsKept
<1>3. CASE Q!TakePop(t, q) /\ q \in Pipes
  <2>1. /\ queue[q] # <<>> /\ queue[q] \in Seq(Items) /\ item[t] = Head(queue[q])
        /\ opq[t] = q /\ step[t] = "takePop"
    BY <1>3 DEF Front, Q!TakePop, Q!At
  <2>2. /\ step' = [step EXCEPT ![t] = "takePost"]
        /\ queue' = [queue EXCEPT ![q] = Tail(@)]
        /\ opq' = opq /\ item' = item
    BY <1>3 DEF Q!TakePop, Q!Goto
  <2>3. /\ \A u \in Threads \ {t} : JobsHeld'[u] \subseteq JobsHeld[u]
        /\ JobsHeld'[t] \subseteq JobsHeld[t] \cup {Head(queue[q])}
    BY <2>1, <2>2 DEF JobsHeld, Pushed
  <2>4. queue'[q] = Tail(queue[q]) /\ \A p \in Pipes \ {q} : queue'[p] = queue[p]
    BY <1>0, <2>2
  <2>5. Sole(Threads, Events, JobsHeld', queue', Pipes)
    <3>1. Sole(Threads, Events, JobsHeld, queue, Pipes)
      BY DEF JobsOwned
    <3> HIDE DEF Q!TypeOK, Taking
    <3>2. q \in Pipes /\ queue[q] \in Seq(Items) /\ queue[q] # <<>>
      BY <1>3, <2>1
    <3>3. QED
      BY <2>3, <2>4, <3>1, <3>2, SolePop
  <2>6. ASSUME NEW p \in Pipes, NEW i \in 1..Len(queue'[p])
        PROVE  \E k \in 1..Len(queue[p]) : queue'[p][i] = queue[p][k]
    <3>1. CASE p = q
      <4>1. \A j \in 1..Len(Tail(queue[q])) :
              j + 1 \in 1..Len(queue[q]) /\ Tail(queue[q])[j] = queue[q][j + 1]
        BY <2>1, TailItems
      <4>2. queue'[p] = Tail(queue[q]) /\ queue[p] = queue[q]
        BY <2>4, <3>1
      <4>3. QED
        BY <4>1, <4>2
    <3>2. QED
      BY <2>4, <3>1
  <2>7. Head(queue[q]) \in Events => jobs[Head(queue[q])] # NULL
    <3>1. Head(queue[q]) = queue[q][1] /\ 1 \in 1..Len(queue[q])
      BY <2>1, TailItems
    <3>2. QED
      BY <1>3, <3>1 DEF JobsOwned
  <2>8. \A u \in Threads : JobsHeld'[u] \subseteq Events
    BY DEF JobsHeld
  <2>9. QED
    BY <2>3, <2>5, <2>6, <2>7, <2>8 DEF JobsOwned
<1>4. QED
  BY <1>0, <1>1, <1>2, <1>3 DEF Q!TakeInside

\* A job that is pushed goes from the thread to the pipe.
LEMMA PuttingJobs ==
  ASSUME Q!TypeOK, Control, JobsOwned,
         NEW t \in Threads, NEW q \in AllQueues, NEW v, Putting(t, q, v)
  PROVE  JobsOwned'
<1> USE Constants DEF Putting, privateVars, Q!TypeOK
<1>0. Pipes \cap Pools = {} /\ AllQueues = Pipes \cup Pools
  BY DEF Pipes, Pools, AllQueues
<1>1. CASE Q!PutWait(t, q, v) \/ Q!PutLock(t, q)
  <2>1. \A u \in Threads : JobsHeld'[u] \subseteq JobsHeld[u]
    BY <1>1 DEF JobsHeld, Pushed, Q!PutWait, Q!PutLock, Q!Goto, Q!At
  <2>2. QED
    BY <1>1, <2>1, JobsKept DEF Q!PutWait, Q!PutLock
<1>2. CASE Q!PutPush(t, q) /\ q \in Pools
  <2>1. \A u \in Threads : JobsHeld'[u] \subseteq JobsHeld[u]
    BY <1>0, <1>2 DEF JobsHeld, Pushed, Q!PutPush, Q!Goto, Q!At
  <2>2. \A p \in Pipes : queue'[p] = queue[p]
    BY <1>0, <1>2 DEF Q!PutPush
  <2>3. QED
    BY <2>1, <2>2, JobsKept
<1>3. CASE Q!PutPush(t, q) /\ q \in Pipes
  <2>1. /\ opq[t] = q /\ step[t] = "putPush"
        /\ item[t] \in Items /\ queue[q] \in Seq(Items)
    BY <1>3 DEF Q!PutPush, Q!At
  <2>2. item[t] = job[t]
    BY <1>3, <2>1 DEF Control, InOperation, PutsAt, Pipes
  <2>3. /\ step' = [step EXCEPT ![t] = "putPost"]
        /\ queue' = [queue EXCEPT ![q] = Append(@, item[t])]
        /\ opq' = opq /\ item' = item
    BY <1>3 DEF Q!PutPush, Q!Goto
  <2>4. /\ \A u \in Threads : JobsHeld'[u] \subseteq JobsHeld[u]
        /\ item[t] \notin JobsHeld'[t]
        /\ item[t] \in Events => item[t] \in JobsHeld[t]
    BY <1>3, <2>1, <2>2, <2>3 DEF JobsHeld, Pushed
  <2>5. /\ queue'[q] = Append(queue[q], item[t])
        /\ \A p \in Pipes \ {q} : queue'[p] = queue[p]
    BY <1>0, <2>3
  <2>6. Sole(Threads, Events, JobsHeld', queue', Pipes)
    <3>1. Sole(Threads, Events, JobsHeld, queue, Pipes)
      BY DEF JobsOwned
    <3> HIDE DEF Q!TypeOK, Putting
    <3>2. QED
      BY <1>3, <2>1, <2>4, <2>5, <3>1, SolePush
  <2>7. ASSUME NEW p \in Pipes, NEW i \in 1..Len(queue'[p])
        PROVE  (\E k \in 1..Len(queue[p]) : queue'[p][i] = queue[p][k]) \/ queue'[p][i] = item[t]
    <3>1. CASE p = q
      <4>1. i \in 1..Len(queue[p]) \/ i = Len(queue[p]) + 1
        BY <2>1, <2>5, <3>1, AppendItems
      <4>2. QED
        BY <2>1, <2>5, <3>1, <4>1, AppendItems
    <3>2. QED
      BY <2>5, <3>1
  <2>8. \A u \in Threads : JobsHeld'[u] \subseteq Events
    BY DEF JobsHeld
  <2>9. jobs' = jobs
    OBVIOUS
  <2>10. \A u \in Threads : \A e \in JobsHeld'[u] : jobs'[e] # NULL
    BY <2>4, <2>8, <2>9 DEF JobsOwned
  <2>11. item[t] \in Events => jobs[item[t]] # NULL
    BY <2>4 DEF JobsOwned
  <2>12. ASSUME NEW p \in Pipes, NEW i \in 1..Len(queue'[p]), queue'[p][i] \in Events
         PROVE  jobs'[queue'[p][i]] # NULL
    <3>1. CASE queue'[p][i] = item[t]
      BY <2>9, <2>11, <2>12, <3>1
    <3>2. CASE \E k \in 1..Len(queue[p]) : queue'[p][i] = queue[p][k]
      BY <2>9, <2>12, <3>2 DEF JobsOwned
    <3>3. QED
      BY <2>7, <3>1, <3>2
  <2>13. QED
    BY <2>6, <2>10, <2>12 DEF JobsOwned
<1>4. QED
  BY <1>0, <1>1, <1>2, <1>3 DEF Q!PutInside

\* The end of a queue operation.
LEMMA PostJobs ==
  ASSUME Q!TypeOK, Control, JobsOwned,
         NEW t \in Threads, NEW q \in AllQueues,
         JobTaken(t, q) \/ JobPut(t, q) \/ ToolTaken(t, q) \/ ToolPut(t, q)
  PROVE  JobsOwned'
<1> USE Constants DEF Q!TypeOK, Q!TakePost, Q!PutPost, Q!Goto, Q!At
<1>0. Pipes \cap Pools = {} /\ AllQueues = Pipes \cup Pools
  BY DEF Pipes, Pools, AllQueues
<1>1. job \in [Threads -> Events \cup {POISON, NULL}]
  BY DEF Control, Locals
<1>2. queue' = queue /\ jobs' = jobs
  BY DEF JobTaken, JobPut, ToolTaken, ToolPut, dataVars
<1>3. \A u \in Threads : JobsHeld'[u] \subseteq JobsHeld[u]
  <2>1. CASE JobTaken(t, q)
    BY <1>0, <1>1, <2>1 DEF JobTaken, JobsHeld, Pushed
  <2>2. CASE JobPut(t, q)
    BY <1>0, <1>1, <2>2 DEF JobPut, JobsHeld, Pushed
  <2>3. CASE ToolTaken(t, q)
    BY <1>0, <1>1, <2>3 DEF ToolTaken, JobsHeld, Pushed
  <2>4. CASE ToolPut(t, q)
    BY <1>0, <1>1, <2>4 DEF ToolPut, JobsHeld, Pushed
  <2>5. QED
    BY <2>1, <2>2, <2>3, <2>4
<1>4. QED
  BY <1>2, <1>3, JobsKept

\* The new job of the reader gets its array.
LEMMA ArrayTakenJobs ==
  ASSUME Q!TypeOK, Control, JobData, JobsOwned, ArrayTaken
  PROVE  JobsOwned' /\ JobData'
<1> USE Constants
<1>1. /\ pc[Reader] = "takeArray" /\ job[Reader] \in Events
      /\ step[Reader] = "takePost" /\ opq[Reader] = "kTrackArrQueue"
      /\ item[Reader] \in Arrays
      /\ pc'[Reader] = "putJob"
  BY DEF ArrayTaken, Control, Pointers, Locals, Carriage, Carried, Pipes, Pool, GoTo,
         Q!TakePost, Q!At
<1>2. job[Reader] \in JobsHeld[Reader]
  BY <1>1 DEF JobsHeld, Pushed
<1>3. jobs[job[Reader]] # NULL /\ jobs[job[Reader]] \in KJob
  BY <1>1, <1>2 DEF JobsOwned, JobData
<1>4. /\ jobs'[job[Reader]] = [jobs[job[Reader]] EXCEPT !.tracklets = item[Reader]]
      /\ \A e \in Events \ {job[Reader]} : jobs'[e] = jobs[e]
      /\ jobs' = [jobs EXCEPT ![job[Reader]] = jobs'[job[Reader]]]
  BY <1>1 DEF ArrayTaken, JobData
<1>5. /\ jobs'[job[Reader]] \in KJob
      /\ jobs'[job[Reader]].tracklets = item[Reader]
      /\ jobs'[job[Reader]].evData = jobs[job[Reader]].evData
  BY <1>1, <1>3, <1>4 DEF KJob
<1>6. \A e \in Events : jobs[e] # NULL => jobs'[e] # NULL
  BY <1>4, <1>5, KSchedulerAssumption
<1>7. JobsOwned'
  <2>1. \A u \in Threads : JobsHeld'[u] \subseteq JobsHeld[u]
    BY <1>1 DEF ArrayTaken, JobsHeld, Pushed, Pipes, Q!TypeOK, Q!TakePost, Q!Goto, Q!At
  <2>2. queue' = queue
    BY DEF ArrayTaken, Q!TakePost
  <2>3. QED
    BY <1>6, <2>1, <2>2, JobsKept
<1>8. JobData'
  <2>1. UNCHANGED <<raw, trackletsInSt, entry, job, tool>>
    BY DEF ArrayTaken, readerVars
  <2>2. jobs' \in [Events -> KJob \cup {NULL}]
    BY <1>1, <1>4, <1>5 DEF JobData
  <2>3. \A w \in Workers : pc'[w] = pc[w]
    BY DEF ArrayTaken, GoTo, Control, Locals
  <2>4. \A e \in Events : jobs'[e] # NULL =>
          /\ e < entry
          /\ jobs'[e].evData = e
          /\ raw[e] = e
          /\ jobs'[e].tracklets \in Arrays
    BY <1>1, <1>3, <1>4, <1>5 DEF JobData
  <2>5. QED
    BY <2>1, <2>2, <2>3, <2>4 DEF JobData
<1>9. QED
  BY <1>7, <1>8

\* A queue operation changes no job.
LEMMA QueueStepJobData ==
  ASSUME Q!TypeOK, Control, JobData, QueueStep
  PROVE  JobData'
<1> USE Constants
<1>1. PICK t \in Threads, q \in AllQueues :
        \/ Taking(t, q)
        \/ \E v : Putting(t, q, v)
        \/ JobTaken(t, q)
        \/ JobPut(t, q)
        \/ ToolTaken(t, q)
        \/ ToolPut(t, q)
  BY DEF QueueStep
<1>2. UNCHANGED <<jobs, raw, trackletsInSt, entry>>
  BY <1>1 DEF Taking, Putting, JobTaken, JobPut, ToolTaken, ToolPut, privateVars, readerVars,
              dataVars
<1>3. pc[Reader] = "takeArray" => pc'[Reader] = "takeArray" /\ job'[Reader] = job[Reader]
  <2>1. CASE t = Reader
    BY <1>1, <2>1 DEF Taking, Putting, JobTaken, JobPut, ToolTaken, ToolPut, privateVars,
                      TakesAt, PutsAt, Pools, Pipes
  <2>2. CASE t # Reader
    BY <1>1, <2>2 DEF Taking, Putting, JobTaken, JobPut, ToolTaken, ToolPut, privateVars,
                      GoTo, Control, Locals
  <2>3. QED
    BY <2>1, <2>2
<1>4. \A w \in Workers : pc'[w] = "fill" => pc[w] = "fill" /\ tool'[w] = tool[w]
  <2>1. ASSUME NEW w \in Workers, w # t
        PROVE  pc'[w] = pc[w] /\ tool'[w] = tool[w]
    BY <1>1, <2>1 DEF Taking, Putting, JobTaken, JobPut, ToolTaken, ToolPut, privateVars,
                      GoTo, Control, Locals
  <2>2. CASE UNCHANGED privateVars
    BY <2>2 DEF privateVars
  <2>3. CASE JobTaken(t, q) \/ JobPut(t, q) \/ ToolTaken(t, q) \/ ToolPut(t, q)
    <3>1. t \in Workers => pc'[t] # "fill"
      BY <2>3 DEF JobTaken, JobPut, ToolTaken, ToolPut, GoTo, Control, Locals, Pools, PutsAt
    <3>2. QED
      BY <2>1, <3>1
  <2>4. QED
    BY <1>1, <2>2, <2>3 DEF Taking, Putting
<1>5. QED
  BY <1>2, <1>3, <1>4 DEF JobData

\* A thread outside its queue operations has what its pointer says in hand.
LEMMA InHand ==
  ASSUME Control, NEW t \in Threads, job[t] \in Events,
         pc[t] \in {"loop", "takeArray", "takeReducer", "putReducer", "takeTracker",
                   "setRawEvent", "fill", "putTracker", "delete", "countPill"}
  PROVE  job[t] \in JobsHeld[t]
<1> USE Constants
<1>1. ~Pushed(t)
  BY DEF Control, InOperation, Pushed, PutsAt, Pipes
<1>2. QED
  BY <1>1 DEF JobsHeld

\* The job of the reaper.
LEMMA ReapedJob ==
  ASSUME Control, JobsOwned, JobData, pc[Reaper] \in {"fill", "delete"}
  PROVE  /\ job[Reaper] \in Events /\ job[Reaper] \in JobsHeld[Reaper]
         /\ jobs[job[Reaper]] # NULL /\ jobs[job[Reaper]] \in KJob
         /\ jobs[job[Reaper]].tracklets \in Arrays
<1> USE Constants
<1>1. job[Reaper] \in Events /\ job[Reaper] \in JobsHeld[Reaper]
  BY InHand DEF Control, Pointers
<1>2. jobs[job[Reaper]] # NULL /\ jobs[job[Reaper]] \in KJob
  BY <1>1 DEF JobsOwned, JobData
<1>3. ASSUME pc[Reader] = "takeArray", job[Reader] = job[Reaper]
      PROVE  FALSE
  <2>1. job[Reaper] \in JobsHeld[Reader]
    BY <1>1, <1>3, InHand
  <2>2. QED
    BY <1>1, <2>1 DEF JobsOwned, Sole
<1>4. QED
  BY <1>1, <1>2, <1>3 DEF JobData

\* The job of a worker that tracks it.
LEMMA WorkedJob ==
  ASSUME Control, JobsOwned, JobData, NEW w \in Workers,
         pc[w] \in {"takeReducer", "putReducer", "takeTracker", "setRawEvent", "fill",
                   "putTracker"}
  PROVE  /\ job[w] \in Events /\ job[w] \in JobsHeld[w]
         /\ jobs[job[w]] # NULL /\ jobs[job[w]] \in KJob
         /\ jobs[job[w]].tracklets \in Arrays
<1> USE Constants
<1>1. w \in Threads /\ job[w] \in Events /\ job[w] \in JobsHeld[w]
  BY InHand DEF Control, Pointers
<1>2. jobs[job[w]] # NULL /\ jobs[job[w]] \in KJob
  <2>1. \A t \in Threads : \A e \in JobsHeld[t] : jobs[e] # NULL
    BY DEF JobsOwned
  <2>2. jobs[job[w]] # NULL
    BY <1>1, <2>1
  <2>3. jobs[job[w]] \in KJob \cup {NULL}
    BY <1>1 DEF JobData
  <2>4. QED
    BY <2>2, <2>3
<1>3. ASSUME pc[Reader] = "takeArray", job[Reader] = job[w]
      PROVE  FALSE
  <2>1. job[w] \in JobsHeld[Reader]
    BY <1>1, <1>3, InHand
  <2>2. QED
    BY <1>1, <2>1 DEF JobsOwned, Sole
<1>4. QED
  BY <1>1, <1>2, <1>3 DEF JobData

\* A step that touches neither the jobs nor who has them.
LEMMA JobsUntouched ==
  ASSUME JobsOwned, UNCHANGED <<queue, step, opq, item, job>>,
         \A e \in Events : jobs[e] # NULL => jobs'[e] # NULL
  PROVE  JobsOwned'
<1>1. JobsHeld' = JobsHeld
  BY DEF JobsHeld, Pushed
<1>2. QED
  BY <1>1, JobsKept

\* The reader makes a job of the next entry, which nobody has.
LEMMA GetEntryJobs ==
  ASSUME Q!TypeOK, Control, JobsOwned, JobData, ReaderGetEntry
  PROVE  JobsOwned' /\ JobData'
<1> USE Constants
<1>1. /\ pc[Reader] = "loop" /\ entry \in Events /\ entry \in Int /\ entry' = entry + 1
      /\ job' = [job EXCEPT ![Reader] = entry]
      /\ pc' = [pc EXCEPT ![Reader] = "takeArray"]
      /\ raw'  = [raw EXCEPT ![BUF] = entry, ![entry] = entry]
      /\ UNCHANGED <<queue, step, opq, item, tool, trackletsInSt>>
  BY DEF ReaderGetEntry, GoTo, Control, Locals, Events, syncVars
<1>2. /\ jobs'[entry] = [evData |-> entry, tracklets |-> NULL, nTracklets |-> 0]
      /\ jobs' = [jobs EXCEPT ![entry] = jobs'[entry]]
      /\ \A e \in Events \ {entry} : jobs'[e] = jobs[e]
  <2>1. jobs' = [jobs EXCEPT ![entry] =
                   [evData |-> entry, tracklets |-> NULL, nTracklets |-> 0]]
    BY DEF ReaderGetEntry
  <2>2. QED
    BY <1>1, <2>1 DEF JobData
<1>3. jobs'[entry] \in KJob /\ jobs'[entry] # NULL /\ jobs'[entry].evData = entry
  BY <1>1, <1>2, KSchedulerAssumption DEF KJob
<1>4. jobs[entry] = NULL
  BY <1>1 DEF JobData
<1>5. JobsOwned'
  <2>1. step[Reader] \notin {"takePost", "putPost"}
    BY <1>1 DEF Control, InOperation, TakesAt, PutsAt
  <2>2. /\ JobsHeld'[Reader] \subseteq {entry}
        /\ \A u \in Threads \ {Reader} : JobsHeld'[u] = JobsHeld[u]
    BY <1>1, <2>1 DEF JobsHeld, Pushed, Control, Locals
  <2>3. \A u \in Threads : entry \notin JobsHeld[u]
    BY <1>4 DEF JobsOwned
  <2>4. \A p \in Pipes : \A i \in 1..Len(queue[p]) : queue[p][i] # entry
    BY <1>1, <1>4 DEF JobsOwned
  <2>5. Sole(Threads, Events, JobsHeld', queue', Pipes)
    <3>1. Sole(Threads, Events, JobsHeld, queue, Pipes)
      BY DEF JobsOwned
    <3>2. \A u \in Threads : JobsHeld'[u] \subseteq JobsHeld[u] \cup {entry}
      BY <2>2
    <3>3. /\ \A u \in Threads \ {Reader} : entry \notin JobsHeld'[u]
          /\ \A p \in Pipes : queue'[p] = queue[p]
      BY <1>1, <2>2, <2>3
    <3>4. Reader \in Threads /\ entry \in Events
      BY <1>1
    <3> HIDE Constants
    <3>5. QED
      BY <2>4, <3>1, <3>2, <3>3, <3>4, SoleGiven
  <2>6. \A e \in Events : jobs[e] # NULL => jobs'[e] # NULL
    BY <1>2, <1>3
  <2>7. \A u \in Threads : \A e \in JobsHeld'[u] : jobs'[e] # NULL
    <3>1. \A u \in Threads : JobsHeld[u] \subseteq Events
      BY DEF JobsHeld
    <3>2. QED
      BY <1>3, <2>2, <2>6, <3>1 DEF JobsOwned
  <2>8. QED
    BY <1>1, <2>5, <2>6, <2>7 DEF JobsOwned
<1>6. JobData'
  <2>1. jobs' \in [Events -> KJob \cup {NULL}]
    BY <1>1, <1>2, <1>3 DEF JobData
  <2>2. /\ raw' \in [Events \cup {BUF} -> Events \cup {NULL}]
        /\ raw'[entry] = entry
        /\ \A e \in Events \ {entry} : raw'[e] = raw[e]
    <3>1. BUF \notin Events
      BY DEF BUF, Events
    <3>2. QED
      BY <1>1, <3>1 DEF JobData
  <2>3. pc'[Reader] = "takeArray" /\ job'[Reader] = entry
    BY <1>1 DEF Control, Locals
  <2>4. \A w \in Workers : pc'[w] = pc[w]
    BY <1>1 DEF Control, Locals
  <2>5. ASSUME NEW e \in Events, jobs'[e] # NULL
        PROVE  /\ e < entry'
               /\ jobs'[e].evData = e
               /\ raw'[e] = e
               /\ jobs'[e].tracklets \in Arrays \/ (pc'[Reader] = "takeArray" /\ job'[Reader] = e)
    <3>1. CASE e = entry
      BY <1>1, <1>3, <2>2, <2>3, <3>1
    <3>2. CASE e # entry
      <4>1. jobs[e] # NULL /\ jobs'[e] = jobs[e] /\ e \in Int
        BY <1>2, <2>5, <3>2
      <4>2. e < entry /\ jobs[e].evData = e /\ raw[e] = e /\ jobs[e].tracklets \in Arrays
        BY <1>1, <4>1 DEF JobData
      <4>3. QED
        BY <1>1, <2>2, <3>2, <4>1, <4>2
    <3>3. QED
      BY <3>1, <3>2
  <2>6. QED
    BY <1>1, <2>1, <2>2, <2>4, <2>5 DEF JobData
<1>7. QED
  BY <1>5, <1>6

\* The reaper deletes the job that it alone has.
LEMMA DeleteJobs ==
  ASSUME Q!TypeOK, Control, JobsOwned, JobData, ReaperDelete
  PROVE  JobsOwned' /\ JobData'
<1> USE Constants
<1>1. /\ pc[Reaper] = "delete"
      /\ job' = [job EXCEPT ![Reaper] = NULL]
      /\ jobs' = [jobs EXCEPT ![job[Reaper]] = NULL]
      /\ raw' = [raw EXCEPT ![jobs[job[Reaper]].evData] = NULL]
      /\ UNCHANGED <<queue, step, opq, item, entry, trackletsInSt>>
      /\ tool' = [tool EXCEPT ![Reaper] = jobs[job[Reaper]].tracklets]
      /\ pc' = [pc EXCEPT ![Reaper] = "putArray"]
  BY DEF ReaperDelete, GoTo, syncVars, readerVars
<1> DEFINE d == job[Reaper]
<1>2. /\ d \in Events /\ d \in JobsHeld[Reaper] /\ jobs[d] # NULL
      /\ jobs[d].evData = d
  BY <1>1, ReapedJob DEF JobData
<1> HIDE DEF d
<1>3. /\ jobs' = [jobs EXCEPT ![d] = NULL] /\ raw' = [raw EXCEPT ![d] = NULL]
      /\ jobs \in [Events -> KJob \cup {NULL}]
      /\ raw \in [Events \cup {BUF} -> Events \cup {NULL}]
      /\ \A e \in Events \ {d} : jobs'[e] = jobs[e] /\ raw'[e] = raw[e]
      /\ jobs'[d] = NULL
  BY <1>1, <1>2 DEF JobData, d
<1>4. step[Reaper] \notin {"takePost", "putPost"}
  BY <1>1 DEF Control, InOperation, TakesAt, PutsAt
<1>5. /\ JobsHeld'[Reaper] = {}
      /\ \A u \in Threads \ {Reaper} : JobsHeld'[u] = JobsHeld[u]
  BY <1>1, <1>4 DEF JobsHeld, Pushed, Control, Locals
<1>6. /\ \A u \in Threads \ {Reaper} : d \notin JobsHeld[u]
      /\ \A p \in Pipes : \A i \in 1..Len(queue[p]) : queue[p][i] # d
  BY <1>2 DEF JobsOwned, Sole
<1>7. JobsOwned'
  <2>1. Sole(Threads, Events, JobsHeld', queue', Pipes)
    <3>1. Sole(Threads, Events, JobsHeld, queue, Pipes)
      BY DEF JobsOwned
    <3>2. /\ \A u \in Threads : JobsHeld'[u] \subseteq JobsHeld[u]
          /\ \A p \in Pipes : queue'[p] = queue[p]
      BY <1>1, <1>5
    <3> HIDE Constants
    <3>3. QED
      BY <3>1, <3>2, SoleKept
  <2>2. \A u \in Threads : JobsHeld[u] \subseteq Events
    BY DEF JobsHeld
  <2>3. \A u \in Threads : \A e \in JobsHeld'[u] : jobs'[e] # NULL
    BY <1>3, <1>5, <1>6, <2>2 DEF JobsOwned
  <2>4. \A p \in Pipes : \A i \in 1..Len(queue'[p]) :
          queue'[p][i] \in Events => jobs'[queue'[p][i]] # NULL
    <3>1. \A p \in Pipes : \A i \in 1..Len(queue[p]) :
            queue[p][i] \in Events => jobs[queue[p][i]] # NULL
      BY DEF JobsOwned
    <3>2. queue' = queue
      BY <1>1
    <3>3. QED
      BY <1>3, <1>6, <3>1, <3>2
  <2>5. QED
    BY <2>1, <2>3, <2>4 DEF JobsOwned
<1>8. JobData'
  <2>1. /\ jobs' \in [Events -> KJob \cup {NULL}]
        /\ raw' \in [Events \cup {BUF} -> Events \cup {NULL}]
    BY <1>3
  <2>2. /\ \A w \in Workers : pc'[w] = pc[w] /\ tool'[w] = tool[w]
        /\ pc'[Reader] = pc[Reader] /\ job'[Reader] = job[Reader]
    BY <1>1 DEF Control, Locals
  <2>3. \A e \in Events : jobs'[e] # NULL => jobs'[e] = jobs[e] /\ raw'[e] = raw[e]
    BY <1>3
  <2>4. QED
    BY <1>1, <2>1, <2>2, <2>3 DEF JobData
<1>9. QED
  BY <1>7, <1>8

\* A worker fills its job.
LEMMA FillTrackletsJobs ==
  ASSUME Q!TypeOK, Control, JobsOwned, JobData, NEW w \in Workers, WorkerFillTracklets(w)
  PROVE  JobsOwned' /\ JobData'
<1> USE Constants
<1> DEFINE d == job[w]
           n == NTracklets[trackletsInSt[tool[w]]]
<1>1. /\ pc[w] = "fill"
      /\ jobs' = [jobs EXCEPT ![d].nTracklets = @ + n]
      /\ pc' = [pc EXCEPT ![w] = "putTracker"]
      /\ UNCHANGED <<queue, step, opq, item, job, tool, entry, raw, trackletsInSt>>
  BY DEF WorkerFillTracklets, GoTo, syncVars, readerVars
<1>2. /\ d \in Events /\ jobs[d] # NULL /\ jobs[d] \in KJob
      /\ jobs[d].tracklets \in Arrays
      /\ n \in Nat
  BY <1>1, WorkedJob, KSchedulerAssumption DEF JobData
<1> HIDE DEF d, n
<1>3. /\ jobs'[d] = [jobs[d] EXCEPT !.nTracklets = @ + n]
      /\ \A e \in Events \ {d} : jobs'[e] = jobs[e]
      /\ jobs' = [jobs EXCEPT ![d] = jobs'[d]]
  BY <1>1, <1>2 DEF JobData
<1>4. /\ jobs'[d] \in KJob /\ jobs'[d].evData = jobs[d].evData
      /\ jobs'[d].tracklets = jobs[d].tracklets
  BY <1>2, <1>3 DEF KJob
<1>5. jobs'[d] # NULL
  BY <1>4, KSchedulerAssumption
<1>6. JobsOwned'
  BY <1>1, <1>3, <1>5, JobsUntouched
<1>7. JobData'
  <2>1. jobs' \in [Events -> KJob \cup {NULL}]
    BY <1>2, <1>3, <1>4 DEF JobData
  <2>2. \A v \in Workers : pc'[v] = "fill" => pc[v] = "fill"
    BY <1>1 DEF Control, Locals
  <2>3. pc'[Reader] = pc[Reader]
    BY <1>1 DEF Control, Locals
  <2>4. QED
    BY <1>1, <1>2, <1>3, <1>4, <2>1, <2>2, <2>3 DEF JobData
<1>8. QED
  BY <1>6, <1>7

\* A tracker is given the event of the job of its worker.
LEMMA SetRawEventJobs ==
  ASSUME Q!TypeOK, Control, JobsOwned, JobData, NEW w \in Workers, WorkerSetRawEvent(w)
  PROVE  JobsOwned' /\ JobData'
<1> USE Constants
<1>1. /\ pc[w] = "setRawEvent"
      /\ trackletsInSt' = [trackletsInSt EXCEPT ![tool[w]] = raw[jobs[job[w]].evData]]
      /\ pc' = [pc EXCEPT ![w] = "fill"]
      /\ UNCHANGED <<queue, step, opq, item, job, tool, entry, raw, jobs>>
  BY DEF WorkerSetRawEvent, GoTo, syncVars, readerVars
<1>2. /\ job[w] \in Events /\ tool[w] \in Trackers
      /\ raw[jobs[job[w]].evData] = job[w]
  BY <1>1, WorkedJob DEF JobData, Control, Pointers
<1>3. JobsOwned'
  BY <1>1, JobsUntouched
<1>4. JobData'
  <2>1. trackletsInSt' = [trackletsInSt EXCEPT ![tool[w]] = job[w]]
    BY <1>1, <1>2
  <2>2. /\ trackletsInSt' \in [Trackers -> Events \cup {NULL}]
        /\ trackletsInSt'[tool[w]] = job[w]
        /\ \A k \in Trackers \ {tool[w]} : trackletsInSt'[k] = trackletsInSt[k]
    BY <1>2, <2>1 DEF JobData
  <2>3. /\ \A v \in Workers \ {w} : pc'[v] = pc[v]
        /\ pc'[Reader] = pc[Reader]
    BY <1>1 DEF Control, Locals
  <2>4. \A v \in Workers : pc'[v] = "fill" => trackletsInSt'[tool[v]] \in Events
    <3>1. ASSUME NEW v \in Workers, pc'[v] = "fill"
          PROVE  trackletsInSt'[tool[v]] \in Events
      <4>1. CASE v = w
        BY <1>2, <2>2, <4>1
      <4>2. CASE v # w
        <5>1. pc[v] = "fill" /\ tool[v] \in Trackers
          BY <2>3, <3>1, <4>2 DEF Control, Pointers
        <5>2. QED
          BY <1>2, <2>2, <5>1 DEF JobData
      <4>3. QED
        BY <4>1, <4>2
    <3>2. QED
      BY <3>1
  <2>5. QED
    BY <1>1, <2>2, <2>3, <2>4 DEF JobData
<1>5. QED
  BY <1>3, <1>4

\* Pills are no jobs.
LEMMA PillJobs ==
  ASSUME Q!TypeOK, Control, JobsOwned, JobData, ReaderNewPill \/ ReaperCountPill
  PROVE  JobsOwned' /\ JobData'
<1> USE Constants
<1>1. PICK t \in {Reader, Reaper} : \E x \in {POISON, NULL} : \E label :
        /\ pc[t] \in {"loop", "countPill"} /\ label # "fill"
        /\ job' = [job EXCEPT ![t] = x]
        /\ pc' = [pc EXCEPT ![t] = label]
        /\ UNCHANGED <<queue, step, opq, item, entry, tool, jobs, raw, tracklets, trackletsInSt>>
  BY DEF ReaderNewPill, ReaperCountPill, GoTo, syncVars, readerVars, dataVars
<1>2. step[t] \notin {"takePost", "putPost"}
  BY <1>1 DEF Control, InOperation, TakesAt, PutsAt
<1>3. job'[t] \notin Events /\ \A u \in Threads \ {t} : job'[u] = job[u]
  BY <1>1 DEF Control, Locals
<1>4. \A u \in Threads : JobsHeld'[u] \subseteq JobsHeld[u]
  BY <1>1, <1>2, <1>3 DEF JobsHeld, Pushed
<1>5. JobsOwned'
  BY <1>1, <1>4, JobsKept
<1>6. JobData'
  <2>1. \A w \in Workers : pc'[w] = pc[w]
    BY <1>1 DEF Control, Locals
  <2>2. pc[Reader] = "takeArray" => pc'[Reader] = "takeArray" /\ job'[Reader] = job[Reader]
    BY <1>1 DEF Control, Locals
  <2>3. QED
    BY <1>1, <2>1, <2>2 DEF JobData
<1>7. QED
  BY <1>5, <1>6

\* The other steps change nothing of a job.
LEMMA QuietJobs ==
  ASSUME Control, JobsOwned, JobData,
         ReaderReturn \/ ReaperFill \/ ReaperPostCompletedEvent \/ ReaperClose \/ MainStep
  PROVE  JobsOwned' /\ JobData'
<1> USE Constants
<1>1. UNCHANGED <<queue, step, opq, item, entry, job, tool, jobs, raw, tracklets, trackletsInSt>>
  BY DEF ReaderReturn, ReaperFill, ReaperPostCompletedEvent, ReaperClose, MainStep,
         startReaderThread, startReaperThread, startWorkerThread, Start, Join, Destroy,
         syncVars, readerVars, dataVars
<1>2. \A t \in Threads : pc'[t] = pc[t] \/ (pc[t] # "takeArray" /\ pc'[t] # "fill")
  <2>1. CASE ReaderReturn \/ ReaperFill \/ ReaperPostCompletedEvent \/ ReaperClose
    BY <2>1 DEF ReaderReturn, ReaperFill, ReaperPostCompletedEvent, ReaperClose, GoTo,
                Control, Locals
  <2>2. CASE startReaderThread \/ startReaperThread
             \/ \E w \in Workers : startWorkerThread(w)
    BY <2>2 DEF startReaderThread, startReaperThread, startWorkerThread, Start,
                Control, Locals
  <2>3. CASE \/ Join({Reader}, "joinReader", "joinReaper")
             \/ Join({Reaper}, "joinReaper", "joinWorkers")
             \/ Join(Workers, "joinWorkers", "returned")
             \/ Destroy
    BY <2>3 DEF Join, Destroy, GoTo, Control, Locals
  <2>4. QED
    BY <2>1, <2>2, <2>3 DEF MainStep
<1>3. JobsOwned'
  BY <1>1, JobsUntouched
<1>4. JobData'
  BY <1>1, <1>2 DEF JobData
<1>5. QED
  BY <1>3, <1>4

\* Every step keeps each job in one place, and its data right.
LEMMA NextJobs ==
  ASSUME Q!TypeOK, Front, Control, JobsOwned, JobData, [Next]_vars
  PROVE  JobsOwned' /\ JobData'
<1>1. CASE QueueStep
  <2>1. JobsOwned'
    BY <1>1, TakingJobs, PuttingJobs, PostJobs DEF QueueStep
  <2>2. QED
    BY <1>1, <2>1, QueueStepJobData
<1>2. CASE UNCHANGED vars
  <2>1. JobsOwned'
    BY <1>2, JobsUntouched DEF vars
  <2>2. JobData'
    BY <1>2 DEF JobData, vars
  <2>3. QED
    BY <2>1, <2>2
<1>3. CASE LocalStep
  BY <1>3, GetEntryJobs, PillJobs, QuietJobs, SetRawEventJobs, FillTrackletsJobs, DeleteJobs
     DEF LocalStep
<1>4. QED
  BY <1>1, <1>2, <1>3, ArrayTakenJobs, Moves

-----------------------------------------------------------------------------
(* Tools: what the pools lend *)

\* Who uses the objects of a pool, and the labels at which it works with one or is
\* to give it back.
Users == [eventReducerQueue |-> Workers,
          kFastTrkQueue     |-> Workers,
          kTrackArrQueue    |-> {Reaper}]

Uses == [eventReducerQueue |-> {"putReducer"},
         kFastTrkQueue     |-> {"setRawEvent", "fill", "putTracker"},
         kTrackArrQueue    |-> {"putArray"}]

\* The objects of each pool that each thread has in hand.
ToolsHeld == [q \in Pools |-> [t \in Threads |->
  {x \in Pool[q] : \/ t \in Users[q] /\ pc[t] \in Uses[q] /\ tool[t] = x /\ step[t] # "putPost"
                   \/ step[t] = "takePost" /\ opq[t] = q /\ item[t] = x}]]

\* An object is in its pool or in one hand.
ToolsOwned == \A q \in Pools : Sole(Threads, Pool[q], ToolsHeld[q], queue, {q})

ArrayPool == "kTrackArrQueue"

\* The array of a job is nowhere else.
ArraysOwned ==
  \A e \in Events : jobs[e] # NULL /\ jobs[e].tracklets \in Arrays =>
    /\ \A t \in Threads : jobs[e].tracklets \notin ToolsHeld[ArrayPool][t]
    /\ \A i \in 1..Len(queue[ArrayPool]) : queue[ArrayPool][i] # jobs[e].tracklets
    /\ \A f \in Events : jobs[f] # NULL /\ jobs[f].tracklets = jobs[e].tracklets => e = f

-----------------------------------------------------------------------------
\* Users and Uses, pool by pool.
LEMMA UsesOf ==
  ASSUME NEW q \in Pools
  PROVE  \/ /\ q = "eventReducerQueue"
            /\ Users[q] = Workers /\ Uses[q] = {"putReducer"}
         \/ /\ q = "kFastTrkQueue"
            /\ Users[q] = Workers /\ Uses[q] = {"setRawEvent", "fill", "putTracker"}
         \/ /\ q = "kTrackArrQueue"
            /\ Users[q] = {Reaper} /\ Uses[q] = {"putArray"}
BY DEF Pools, Users, Uses

\* A step after which no thread has other objects than before.
LEMMA ToolsKept ==
  ASSUME ToolsOwned,
         \A q \in Pools : \A t \in Threads : ToolsHeld'[q][t] \subseteq ToolsHeld[q][t],
         \A q \in Pools : queue'[q] = queue[q]
  PROVE  ToolsOwned'
<1>1. ASSUME NEW q \in Pools
      PROVE  Sole(Threads, Pool[q], ToolsHeld'[q], queue', {q})
  <2>1. Sole(Threads, Pool[q], ToolsHeld[q], queue, {q})
    BY DEF ToolsOwned
  <2>2. \A p \in {q} : queue'[p] = queue[p]
    OBVIOUS
  <2>3. \A t \in Threads : ToolsHeld'[q][t] \subseteq ToolsHeld[q][t]
    OBVIOUS
  <2>4. QED
    BY <2>1, <2>2, <2>3, SoleKept
<1>2. QED
  BY <1>1 DEF ToolsOwned

\* A step after which no job has another array than before.
LEMMA ArraysKept ==
  ASSUME ArraysOwned,
         \A t \in Threads : ToolsHeld'[ArrayPool][t] \subseteq ToolsHeld[ArrayPool][t],
         queue'[ArrayPool] = queue[ArrayPool],
         \A e \in Events : jobs'[e] # NULL /\ jobs'[e].tracklets \in Arrays =>
           jobs[e] # NULL /\ jobs'[e].tracklets = jobs[e].tracklets
  PROVE  ArraysOwned'
BY DEF ArraysOwned

\* An object that is popped goes from the pool to the thread.
LEMMA TakingTools ==
  ASSUME Q!TypeOK, Front, Control, ToolsOwned, ArraysOwned,
         NEW t \in Threads, NEW q \in AllQueues, Taking(t, q)
  PROVE  ToolsOwned' /\ ArraysOwned'
<1> USE Constants DEF Taking, privateVars, Q!TypeOK
<1>0. /\ Pipes \cap Pools = {} /\ AllQueues = Pipes \cup Pools
      /\ ArrayPool \in Pools
  BY DEF Pipes, Pools, AllQueues, ArrayPool
<1>1. CASE Q!TakeWait(t, q) \/ Q!TakeFront(t, q)
  <2>1. \A p \in Pools : \A u \in Threads : ToolsHeld'[p][u] \subseteq ToolsHeld[p][u]
    BY <1>1 DEF ToolsHeld, Q!TakeWait, Q!TakeFront, Q!Goto, Q!At
  <2>2. queue' = queue
    BY <1>1 DEF Q!TakeWait, Q!TakeFront
  <2>3. QED
    BY <1>0, <2>1, <2>2, ToolsKept, ArraysKept
<1>2. CASE Q!TakePop(t, q) /\ q \in Pipes
  <2>1. \A p \in Pools : \A u \in Threads : ToolsHeld'[p][u] \subseteq ToolsHeld[p][u]
    BY <1>0, <1>2 DEF ToolsHeld, Q!TakePop, Q!Goto, Q!At
  <2>2. \A p \in Pools : queue'[p] = queue[p]
    BY <1>0, <1>2 DEF Q!TakePop
  <2>3. QED
    BY <1>0, <2>1, <2>2, ToolsKept, ArraysKept
<1>3. CASE Q!TakePop(t, q) /\ q \in Pools
  <2>1. /\ queue[q] # <<>> /\ queue[q] \in Seq(Items) /\ item[t] = Head(queue[q])
        /\ opq[t] = q /\ step[t] = "takePop"
    BY <1>3 DEF Front, Q!TakePop, Q!At
  <2>2. /\ step' = [step EXCEPT ![t] = "takePost"]
        /\ queue' = [queue EXCEPT ![q] = Tail(@)]
        /\ opq' = opq /\ item' = item /\ jobs' = jobs
    BY <1>3 DEF Q!TakePop, Q!Goto
  <2>3. /\ \A p \in Pools \ {q} : \A u \in Threads : ToolsHeld'[p][u] \subseteq ToolsHeld[p][u]
        /\ \A u \in Threads \ {t} : ToolsHeld'[q][u] \subseteq ToolsHeld[q][u]
        /\ ToolsHeld'[q][t] \subseteq ToolsHeld[q][t] \cup {Head(queue[q])}
    BY <1>3, <2>1, <2>2 DEF ToolsHeld
  <2>4. queue'[q] = Tail(queue[q]) /\ \A p \in Pools \ {q} : queue'[p] = queue[p]
    BY <1>0, <2>2
  <2>5. ASSUME NEW p \in Pools
        PROVE  Sole(Threads, Pool[p], ToolsHeld'[p], queue', {p})
    <3>1. Sole(Threads, Pool[p], ToolsHeld[p], queue, {p})
      BY DEF ToolsOwned
    <3> HIDE DEF Q!TypeOK, Taking
    <3>2. CASE p = q
      <4>1. p \in {p} /\ \A r \in {p} \ {p} : queue'[r] = queue[r]
        OBVIOUS
      <4>2. /\ queue[p] # <<>> /\ queue[p] \in Seq(Items) /\ queue'[p] = Tail(queue[p])
            /\ \A u \in Threads \ {t} : ToolsHeld'[p][u] \subseteq ToolsHeld[p][u]
            /\ ToolsHeld'[p][t] \subseteq ToolsHeld[p][t] \cup {Head(queue[p])}
        BY <2>1, <2>3, <2>4, <3>2
      <4>3. QED
        BY <3>1, <4>1, <4>2, SolePop
    <3>3. CASE p # q
      <4>1. /\ \A r \in {p} : queue'[r] = queue[r]
            /\ \A u \in Threads : ToolsHeld'[p][u] \subseteq ToolsHeld[p][u]
        BY <2>3, <2>4, <3>3
      <4>2. QED
        BY <3>1, <4>1, SoleKept
    <3>4. QED
      BY <3>2, <3>3
  <2>6. ToolsOwned'
    BY <2>5 DEF ToolsOwned
  <2>7. ArraysOwned'
    <3>1. CASE q = ArrayPool
      <4>1. \A i \in 1..Len(queue'[q]) : \E k \in 1..Len(queue[q]) : queue'[q][i] = queue[q][k]
        BY <2>1, <2>4, TailItems
      <4>2. Head(queue[q]) = queue[q][1] /\ 1 \in 1..Len(queue[q])
        BY <2>1, TailItems
      <4>3. ASSUME NEW e \in Events, jobs[e] # NULL, jobs[e].tracklets \in Arrays
            PROVE  /\ \A u \in Threads : jobs[e].tracklets \notin ToolsHeld'[q][u]
                   /\ \A i \in 1..Len(queue'[q]) : queue'[q][i] # jobs[e].tracklets
        <5>1. /\ \A u \in Threads : jobs[e].tracklets \notin ToolsHeld[q][u]
              /\ \A i \in 1..Len(queue[q]) : queue[q][i] # jobs[e].tracklets
          BY <3>1, <4>3 DEF ArraysOwned
        <5>2. ASSUME NEW u \in Threads
              PROVE  jobs[e].tracklets \notin ToolsHeld'[q][u]
          <6>1. CASE u = t
            BY <2>3, <4>2, <5>1, <6>1
          <6>2. CASE u # t
            BY <2>3, <5>1, <6>2
          <6>3. QED
            BY <6>1, <6>2
        <5>3. ASSUME NEW i \in 1..Len(queue'[q])
              PROVE  queue'[q][i] # jobs[e].tracklets
          <6>1. PICK k \in 1..Len(queue[q]) : queue'[q][i] = queue[q][k]
            BY <4>1
          <6>2. QED
            BY <5>1, <6>1
        <5>4. QED
          BY <5>2, <5>3
      <4>4. QED
        BY <2>2, <3>1, <4>3 DEF ArraysOwned
    <3>2. CASE q # ArrayPool
      BY <1>0, <2>2, <2>3, <2>4, <3>2, ArraysKept
    <3>3. QED
      BY <3>1, <3>2
  <2>8. QED
    BY <2>6, <2>7
<1>4. QED
  BY <1>0, <1>1, <1>2, <1>3 DEF Q!TakeInside

\* An object that is pushed goes from the thread to the pool.
LEMMA PuttingTools ==
  ASSUME Q!TypeOK, Control, ToolsOwned, ArraysOwned,
         NEW t \in Threads, NEW q \in AllQueues, NEW v, Putting(t, q, v)
  PROVE  ToolsOwned' /\ ArraysOwned'
<1> USE Constants DEF Putting, privateVars, Q!TypeOK
<1>0. /\ Pipes \cap Pools = {} /\ AllQueues = Pipes \cup Pools
      /\ ArrayPool \in Pools
  BY DEF Pipes, Pools, AllQueues, ArrayPool
<1>1. CASE Q!PutWait(t, q, v) \/ Q!PutLock(t, q)
  <2>1. \A p \in Pools : \A u \in Threads : ToolsHeld'[p][u] \subseteq ToolsHeld[p][u]
    BY <1>1 DEF ToolsHeld, Q!PutWait, Q!PutLock, Q!Goto, Q!At
  <2>2. queue' = queue
    BY <1>1 DEF Q!PutWait, Q!PutLock
  <2>3. QED
    BY <1>0, <2>1, <2>2, ToolsKept, ArraysKept
<1>2. CASE Q!PutPush(t, q) /\ q \in Pipes
  <2>1. \A p \in Pools : \A u \in Threads : ToolsHeld'[p][u] \subseteq ToolsHeld[p][u]
    BY <1>0, <1>2 DEF ToolsHeld, Q!PutPush, Q!Goto, Q!At
  <2>2. \A p \in Pools : queue'[p] = queue[p]
    BY <1>0, <1>2 DEF Q!PutPush
  <2>3. QED
    BY <1>0, <2>1, <2>2, ToolsKept, ArraysKept
<1>3. CASE Q!PutPush(t, q) /\ q \in Pools
  <2>1. /\ opq[t] = q /\ step[t] = "putPush"
        /\ item[t] \in Items /\ queue[q] \in Seq(Items)
    BY <1>3 DEF Q!PutPush, Q!At
  <2>2. item[t] = tool[t] /\ t \in Users[q] /\ pc[t] \in Uses[q] /\ item[t] \in Pool[q]
    <3>1. PutsAt(t, q, item[t]) /\ item[t] \in Carried(q)
      BY <1>3, <2>1 DEF Control, InOperation, Carriage
    <3>2. QED
      BY <1>0, <1>3, <3>1 DEF PutsAt, Carried, Users, Uses, Pipes, Pools
  <2>3. /\ step' = [step EXCEPT ![t] = "putPost"]
        /\ queue' = [queue EXCEPT ![q] = Append(@, item[t])]
        /\ opq' = opq /\ item' = item /\ jobs' = jobs
    BY <1>3 DEF Q!PutPush, Q!Goto
  <2>4. /\ \A p \in Pools : \A u \in Threads : ToolsHeld'[p][u] \subseteq ToolsHeld[p][u]
        /\ item[t] \notin ToolsHeld'[q][t]
        /\ item[t] \in ToolsHeld[q][t]
    BY <1>3, <2>1, <2>2, <2>3 DEF ToolsHeld
  <2>5. /\ queue'[q] = Append(queue[q], item[t])
        /\ \A p \in Pools \ {q} : queue'[p] = queue[p]
    BY <1>0, <2>3
  <2>6. ASSUME NEW p \in Pools
        PROVE  Sole(Threads, Pool[p], ToolsHeld'[p], queue', {p})
    <3>1. Sole(Threads, Pool[p], ToolsHeld[p], queue, {p})
      BY DEF ToolsOwned
    <3> HIDE DEF Q!TypeOK, Putting
    <3>2. CASE p = q
      <4>1. p \in {p} /\ \A r \in {p} \ {p} : queue'[r] = queue[r]
        OBVIOUS
      <4>2. /\ queue[p] \in Seq(Items) /\ queue'[p] = Append(queue[p], item[t])
            /\ \A u \in Threads : ToolsHeld'[p][u] \subseteq ToolsHeld[p][u]
            /\ item[t] \in Pool[p] => item[t] \in ToolsHeld[p][t]
            /\ item[t] \notin ToolsHeld'[p][t]
        BY <2>1, <2>4, <2>5, <3>2
      <4>3. QED
        BY <2>1, <3>1, <4>1, <4>2, SolePush
    <3>3. CASE p # q
      <4>1. /\ \A r \in {p} : queue'[r] = queue[r]
            /\ \A u \in Threads : ToolsHeld'[p][u] \subseteq ToolsHeld[p][u]
        BY <2>4, <2>5, <3>3
      <4>2. QED
        BY <3>1, <4>1, SoleKept
    <3>4. QED
      BY <3>2, <3>3
  <2>7. ToolsOwned'
    BY <2>6 DEF ToolsOwned
  <2>8. ArraysOwned'
    <3>1. CASE q = ArrayPool
      <4>1. ASSUME NEW e \in Events, jobs[e] # NULL, jobs[e].tracklets \in Arrays
            PROVE  /\ \A u \in Threads : jobs[e].tracklets \notin ToolsHeld'[q][u]
                   /\ \A i \in 1..Len(queue'[q]) : queue'[q][i] # jobs[e].tracklets
        <5>1. /\ \A u \in Threads : jobs[e].tracklets \notin ToolsHeld[q][u]
              /\ \A i \in 1..Len(queue[q]) : queue[q][i] # jobs[e].tracklets
          BY <3>1, <4>1 DEF ArraysOwned
        <5>2. item[t] # jobs[e].tracklets
          BY <2>4, <5>1
        <5>3. ASSUME NEW i \in 1..Len(queue'[q])
              PROVE  queue'[q][i] # jobs[e].tracklets
          <6>1. i \in 1..Len(queue[q]) \/ i = Len(queue[q]) + 1
            BY <2>1, <2>5, AppendItems
          <6>2. QED
            BY <2>1, <2>5, <5>1, <5>2, <6>1, AppendItems
        <5>4. QED
          BY <1>3, <2>4, <5>1, <5>3
      <4>2. QED
        BY <2>3, <3>1, <4>1 DEF ArraysOwned
    <3>2. CASE q # ArrayPool
      BY <1>0, <2>3, <2>4, <2>5, <3>2, ArraysKept
    <3>3. QED
      BY <3>1, <3>2
  <2>9. QED
    BY <2>7, <2>8
<1>4. QED
  BY <1>0, <1>1, <1>2, <1>3 DEF Q!PutInside

\* The end of a queue operation.
LEMMA PostTools ==
  ASSUME Q!TypeOK, Control, ToolsOwned, ArraysOwned,
         NEW t \in Threads, NEW q \in AllQueues,
         JobTaken(t, q) \/ JobPut(t, q) \/ ToolTaken(t, q) \/ ToolPut(t, q)
  PROVE  ToolsOwned' /\ ArraysOwned'
<1> USE Constants DEF Q!TypeOK, Q!TakePost, Q!PutPost, Q!Goto, Q!At, GoTo
<1>0. /\ Pipes \cap Pools = {} /\ AllQueues = Pipes \cup Pools
      /\ ArrayPool \in Pools
  BY DEF Pipes, Pools, AllQueues, ArrayPool
<1>1. /\ pc \in [Threads \cup {Main} ->
               ReaderLabels \cup WorkerLabels \cup ReaperLabels \cup MainLabels]
      /\ tool \in [Threads -> Reducers \cup Trackers \cup Arrays \cup {NULL}]
  BY DEF Control, Locals
<1>2. queue' = queue /\ jobs' = jobs
  BY DEF JobTaken, JobPut, ToolTaken, ToolPut, dataVars
<1>3. ASSUME NEW p \in Pools, NEW u \in Threads \ {t}
      PROVE  ToolsHeld'[p][u] \subseteq ToolsHeld[p][u]
  <2>1. /\ pc'[u] = pc[u] /\ tool'[u] = tool[u] /\ step'[u] = step[u]
        /\ opq'[u] = opq[u] /\ item'[u] = item[u]
    BY <1>1 DEF JobTaken, JobPut, ToolTaken, ToolPut
  <2>2. QED
    BY <2>1 DEF ToolsHeld
<1>4. ASSUME NEW p \in Pools
      PROVE  ToolsHeld'[p][t] \subseteq ToolsHeld[p][t]
  <2>1. CASE JobTaken(t, q) \/ JobPut(t, q) \/ ToolPut(t, q)
    <3>1. step'[t] = "idle"
      BY <2>1 DEF JobTaken, JobPut, ToolPut
    <3>2. t \notin Users[p] \/ pc'[t] \notin Uses[p]
      <4>1. CASE JobTaken(t, q) \/ JobPut(t, q)
        <5>1. pc'[t] \in {"loop", "takeJob", "done", "countPill", "fill", "putPill", "takeReducer"}
              /\ (pc'[t] = "fill" => t = Reaper)
          BY <1>1, <4>1 DEF JobTaken, JobPut
        <5> HIDE DEF Q!TypeOK, Q!TakePost, Q!PutPost, Q!Goto, Q!At, GoTo
        <5>2. QED
          BY <5>1, UsesOf
      <4>2. CASE ToolPut(t, q)
        <5>1. pc'[t] \in {"takeTracker", "putJob", "postCompletedEvent"}
          BY <1>1, <4>2 DEF ToolPut, Pools
        <5> HIDE DEF Q!TypeOK, Q!TakePost, Q!PutPost, Q!Goto, Q!At, GoTo
        <5>2. QED
          BY <5>1, UsesOf
      <4>3. QED
        BY <2>1, <4>1, <4>2
    <3>3. QED
      BY <3>1, <3>2 DEF ToolsHeld
  <2>2. CASE ToolTaken(t, q)
    <3>1. /\ step'[t] = "idle" /\ tool'[t] = item[t]
          /\ opq[t] = q /\ step[t] = "takePost"
      BY <1>1, <2>2 DEF ToolTaken
    <3>2. pc'[t] \in Uses[p] /\ t \in Users[p] => p = q
      <4>1. q \in {"eventReducerQueue", "kFastTrkQueue"}
        BY <2>2 DEF ToolTaken, TakesAt, Pools
      <4>3. pc'[t] = IF q = "kFastTrkQueue" THEN "setRawEvent" ELSE "putReducer"
        BY <1>1, <2>2 DEF ToolTaken
      <4> HIDE DEF Q!TypeOK, Q!TakePost, Q!PutPost, Q!Goto, Q!At, GoTo
      <4>2. QED
        BY <4>1, <4>3, UsesOf
    <3>3. QED
      BY <3>1, <3>2 DEF ToolsHeld
  <2>3. QED
    BY <2>1, <2>2
<1>5. QED
  BY <1>0, <1>2, <1>3, <1>4, ToolsKept, ArraysKept

\* The array that the reader has taken from the pool becomes its job's.
LEMMA ArrayTakenTools ==
  ASSUME Q!TypeOK, Control, JobsOwned, JobData, ToolsOwned, ArraysOwned, ArrayTaken
  PROVE  ToolsOwned' /\ ArraysOwned'
<1> USE Constants
<1> DEFINE a == item[Reader]
           d == job[Reader]
<1>0. ArrayPool \in Pools
  BY DEF ArrayPool, Pools
<1>1. /\ pc[Reader] = "takeArray" /\ d \in Events
      /\ step[Reader] = "takePost" /\ opq[Reader] = ArrayPool
      /\ a \in Pool[ArrayPool] /\ a \in Arrays
  BY DEF ArrayTaken, Control, Pointers, Carriage, Carried, Pipes, Pool, ArrayPool,
         Q!TakePost, Q!At
<1>2. /\ a \in ToolsHeld[ArrayPool][Reader]
      /\ \A t \in Threads \ {Reader} : a \notin ToolsHeld[ArrayPool][t]
      /\ \A i \in 1..Len(queue[ArrayPool]) : queue[ArrayPool][i] # a
  <2>1. a \in ToolsHeld[ArrayPool][Reader]
    BY <1>0, <1>1 DEF ToolsHeld
  <2>2. Sole(Threads, Pool[ArrayPool], ToolsHeld[ArrayPool], queue, {ArrayPool})
    BY <1>0 DEF ToolsOwned
  <2>3. QED
    BY <1>1, <2>1, <2>2 DEF Sole
<1>3. /\ queue' = queue
      /\ \A t \in Threads : t \in Workers \cup {Reaper} =>
           /\ pc'[t] = pc[t] /\ tool'[t] = tool[t]
           /\ step'[t] = step[t] /\ opq'[t] = opq[t] /\ item'[t] = item[t]
      /\ step'[Reader] = "idle"
  BY DEF ArrayTaken, GoTo, Q!TakePost, Q!Goto, Q!At, Q!TypeOK, Control, Locals
<1>4. ASSUME NEW q \in Pools, NEW t \in Threads
      PROVE  ToolsHeld'[q][t] \subseteq ToolsHeld[q][t]
  <2>1. CASE t = Reader
    <3>1. Reader \notin Users[q]
      BY UsesOf
    <3>2. QED
      BY <1>3, <2>1, <3>1 DEF ToolsHeld
  <2>2. CASE t # Reader
    <3>1. t \in Workers \cup {Reaper}
      BY <2>2 DEF Threads
    <3>2. QED
      BY <1>3, <3>1 DEF ToolsHeld
  <2>3. QED
    BY <2>1, <2>2
<1>5. ToolsHeld'[ArrayPool][Reader] = {}
  <2>1. Reader \notin Users[ArrayPool]
    BY <1>0, UsesOf
  <2>2. QED
    BY <1>0, <1>3, <2>1 DEF ToolsHeld
<1>6. ToolsOwned'
  BY <1>3, <1>4, ToolsKept
<1>7. /\ jobs[d] # NULL /\ jobs'[d].tracklets = a
      /\ \A e \in Events \ {d} : jobs'[e] = jobs[e]
  <2>1. job[Reader] \in JobsHeld[Reader]
    BY <1>1, InHand
  <2>2. jobs[d] \in KJob /\ jobs[d] # NULL
    BY <1>1, <2>1 DEF JobsOwned, JobData
  <2>3. jobs' = [jobs EXCEPT ![d].tracklets = a]
    BY DEF ArrayTaken
  <2>4. QED
    BY <1>1, <2>2, <2>3 DEF JobData, KJob
<1> HIDE DEF a, d
<1>8. ArraysOwned'
  <2>1. ASSUME NEW e \in Events, jobs'[e] # NULL, jobs'[e].tracklets \in Arrays
        PROVE  /\ \A t \in Threads : jobs'[e].tracklets \notin ToolsHeld'[ArrayPool][t]
               /\ \A i \in 1..Len(queue[ArrayPool]) : queue[ArrayPool][i] # jobs'[e].tracklets
               /\ \A f \in Events : jobs'[f] # NULL /\ jobs'[f].tracklets = jobs'[e].tracklets
                                      => e = f
    <3>1. ASSUME NEW f \in Events, f # d, jobs[f] # NULL
          PROVE  jobs[f].tracklets # a
      BY <1>1, <1>2, <3>1 DEF ArraysOwned
    <3>2. CASE e = d
      <4>1. \A t \in Threads : a \notin ToolsHeld'[ArrayPool][t]
        BY <1>0, <1>2, <1>4, <1>5
      <4>2. QED
        BY <1>2, <1>7, <3>1, <3>2, <4>1
    <3>3. CASE e # d
      <4>1. jobs'[e] = jobs[e] /\ jobs[e].tracklets # a
        BY <1>7, <2>1, <3>1, <3>3
      <4>2. /\ \A t \in Threads : jobs[e].tracklets \notin ToolsHeld[ArrayPool][t]
            /\ \A i \in 1..Len(queue[ArrayPool]) : queue[ArrayPool][i] # jobs[e].tracklets
            /\ \A f \in Events : jobs[f] # NULL /\ jobs[f].tracklets = jobs[e].tracklets => e = f
        BY <2>1, <4>1 DEF ArraysOwned
      <4>3. QED
        BY <1>0, <1>4, <1>7, <4>1, <4>2
    <3>4. QED
      BY <3>2, <3>3
  <2>2. QED
    BY <1>3, <2>1 DEF ArraysOwned
<1>9. QED
  BY <1>6, <1>8

\* The array of a deleted job goes to the reaper.
LEMMA DeleteTools ==
  ASSUME Q!TypeOK, Control, JobsOwned, JobData, ToolsOwned, ArraysOwned, ReaperDelete
  PROVE  ToolsOwned' /\ ArraysOwned'
<1> USE Constants
<1> DEFINE d == job[Reaper]
           a == jobs[d].tracklets
<1>0. ArrayPool \in Pools /\ Pool[ArrayPool] = Arrays
  BY DEF ArrayPool, Pools, Pool
<1>1. /\ pc[Reaper] = "delete" /\ d \in Events /\ jobs[d] # NULL /\ a \in Arrays
  BY ReapedJob DEF ReaperDelete
<1>2. /\ tool' = [tool EXCEPT ![Reaper] = a]
      /\ jobs' = [jobs EXCEPT ![d] = NULL]
      /\ pc' = [pc EXCEPT ![Reaper] = "putArray"]
      /\ UNCHANGED <<queue, step, opq, item>>
  BY DEF ReaperDelete, GoTo, syncVars
<1> HIDE DEF d, a
<1>3. /\ jobs'[d] = NULL /\ \A e \in Events \ {d} : jobs'[e] = jobs[e]
      /\ \A t \in Threads \ {Reaper} : pc'[t] = pc[t] /\ tool'[t] = tool[t]
      /\ tool'[Reaper] = a /\ pc'[Reaper] = "putArray"
  BY <1>1, <1>2 DEF JobData, Control, Locals
<1>4. /\ \A t \in Threads : a \notin ToolsHeld[ArrayPool][t]
      /\ \A i \in 1..Len(queue[ArrayPool]) : queue[ArrayPool][i] # a
      /\ \A f \in Events \ {d} : jobs[f] # NULL => jobs[f].tracklets # a
  BY <1>1 DEF ArraysOwned, a
<1>5. ASSUME NEW q \in Pools, NEW t \in Threads
      PROVE  /\ t # Reaper => ToolsHeld'[q][t] = ToolsHeld[q][t]
             /\ q # ArrayPool => ToolsHeld'[q][t] \subseteq ToolsHeld[q][t]
             /\ ToolsHeld'[q][t] \subseteq ToolsHeld[q][t] \cup {a}
  <2>1. CASE t = Reaper
    <3>1. q # ArrayPool => Reaper \notin Users[q]
      BY UsesOf DEF ArrayPool
    <3>2. QED
      BY <1>2, <1>3, <2>1, <3>1 DEF ToolsHeld
  <2>2. CASE t # Reaper
    BY <1>2, <1>3, <2>2 DEF ToolsHeld
  <2>3. QED
    BY <2>1, <2>2
<1>6. ToolsOwned'
  <2>1. ASSUME NEW q \in Pools
        PROVE  Sole(Threads, Pool[q], ToolsHeld'[q], queue', {q})
    <3>1. Sole(Threads, Pool[q], ToolsHeld[q], queue, {q})
      BY DEF ToolsOwned
    <3>2. \A p \in {q} : queue'[p] = queue[p]
      BY <1>2
    <3>3. CASE q = ArrayPool
      <4>1. a \in Pool[q] /\ Reaper \in Threads
        BY <1>0, <1>1, <3>3
      <4>2. \A t \in Threads : ToolsHeld'[q][t] \subseteq ToolsHeld[q][t] \cup {a}
        BY <1>5
      <4>3. \A t \in Threads \ {Reaper} : a \notin ToolsHeld'[q][t]
        BY <1>4, <1>5, <3>3
      <4>4. \A p \in {q} : \A i \in 1..Len(queue[p]) : queue[p][i] # a
        BY <1>4, <3>3
      <4> HIDE Constants
      <4>5. QED
        BY <3>1, <3>2, <4>1, <4>2, <4>3, <4>4, SoleGiven
    <3>4. CASE q # ArrayPool
      <4>1. \A t \in Threads : ToolsHeld'[q][t] \subseteq ToolsHeld[q][t]
        BY <1>5, <3>4
      <4>2. QED
        BY <3>1, <3>2, <4>1, SoleKept
    <3>5. QED
      BY <3>3, <3>4
  <2>2. QED
    BY <2>1 DEF ToolsOwned
<1>7. ArraysOwned'
  <2>1. ASSUME NEW e \in Events, jobs'[e] # NULL, jobs'[e].tracklets \in Arrays
        PROVE  /\ \A t \in Threads : jobs'[e].tracklets \notin ToolsHeld'[ArrayPool][t]
               /\ \A i \in 1..Len(queue[ArrayPool]) : queue[ArrayPool][i] # jobs'[e].tracklets
               /\ \A f \in Events : jobs'[f] # NULL /\ jobs'[f].tracklets = jobs'[e].tracklets
                                      => e = f
    <3>1. e # d /\ jobs'[e] = jobs[e] /\ jobs[e].tracklets # a
      BY <1>3, <1>4, <2>1
    <3>2. /\ \A t \in Threads : jobs[e].tracklets \notin ToolsHeld[ArrayPool][t]
          /\ \A i \in 1..Len(queue[ArrayPool]) : queue[ArrayPool][i] # jobs[e].tracklets
          /\ \A f \in Events : jobs[f] # NULL /\ jobs[f].tracklets = jobs[e].tracklets => e = f
      BY <2>1, <3>1 DEF ArraysOwned
    <3>3. \A t \in Threads : jobs[e].tracklets \notin ToolsHeld'[ArrayPool][t]
      BY <1>0, <1>5, <3>1, <3>2
    <3>4. QED
      BY <1>3, <3>1, <3>2, <3>3
  <2>2. QED
    BY <1>2, <2>1 DEF ArraysOwned
<1>8. QED
  BY <1>6, <1>7

\* No other step lends or gives back anything.
LEMMA LocalTools ==
  ASSUME Q!TypeOK, Control, JobsOwned, JobData, ToolsOwned, ArraysOwned, LocalStep, ~ReaperDelete
  PROVE  ToolsOwned' /\ ArraysOwned'
<1> USE Constants
<1>0. ArrayPool \in Pools
  BY DEF ArrayPool, Pools
<1>1. UNCHANGED <<queue, step, opq, item, tool>>
  BY DEF LocalStep, ReaderGetEntry, ReaderNewPill, ReaderReturn, WorkerSetRawEvent,
         WorkerFillTracklets, ReaperCountPill, ReaperFill,
         ReaperPostCompletedEvent, ReaperClose, MainStep, startReaderThread,
         startReaperThread, startWorkerThread, Start, Join, Destroy, syncVars
<1>2. ASSUME NEW t \in Threads
      PROVE  \/ pc'[t] = pc[t]
             \/ pc'[t] \notin {"putReducer", "setRawEvent", "fill", "putTracker", "putArray"}
             \/ pc[t] \in {"setRawEvent", "fill"} /\ pc'[t] \in {"fill", "putTracker"}
  <2> USE DEF GoTo, Control, Locals
  <2>1. CASE ReaderGetEntry \/ ReaderNewPill \/ ReaderReturn
    BY <2>1 DEF ReaderGetEntry, ReaderNewPill, ReaderReturn
  <2>2. CASE \E w \in Workers : WorkerSetRawEvent(w) \/ WorkerFillTracklets(w)
    BY <2>2 DEF WorkerSetRawEvent, WorkerFillTracklets
  <2>3. CASE ReaperCountPill \/ ReaperFill \/ ReaperPostCompletedEvent \/ ReaperClose
    BY <2>3 DEF ReaperCountPill, ReaperFill, ReaperPostCompletedEvent, ReaperClose
  <2>4. CASE MainStep
    <3>1. CASE startReaderThread \/ startReaperThread
               \/ \E w \in Workers : startWorkerThread(w)
      BY <3>1 DEF startReaderThread, startReaperThread, startWorkerThread, Start
    <3>2. CASE \/ Join({Reader}, "joinReader", "joinReaper")
               \/ Join({Reaper}, "joinReaper", "joinWorkers")
               \/ Join(Workers, "joinWorkers", "returned")
               \/ Destroy
      BY <3>2 DEF Join, Destroy
    <3>3. QED
      BY <2>4, <3>1, <3>2 DEF MainStep
  <2>5. QED
    BY <2>1, <2>2, <2>3, <2>4 DEF LocalStep
<1>3. ASSUME NEW q \in Pools, NEW t \in Threads
      PROVE  ToolsHeld'[q][t] \subseteq ToolsHeld[q][t]
  <2>1. pc'[t] \in Uses[q] => pc[t] \in Uses[q]
    BY <1>2, UsesOf
  <2>2. QED
    BY <1>1, <2>1 DEF ToolsHeld
<1>4. ToolsOwned'
  BY <1>1, <1>3, ToolsKept
<1>5. ASSUME NEW e \in Events, jobs'[e] # NULL, jobs'[e].tracklets \in Arrays
      PROVE  jobs[e] # NULL /\ jobs'[e].tracklets = jobs[e].tracklets
  <2>1. CASE ReaderGetEntry
    <3>1. /\ jobs' = [jobs EXCEPT ![entry] =
                        [evData |-> entry, tracklets |-> NULL, nTracklets |-> 0]]
          /\ jobs \in [Events -> KJob \cup {NULL}] /\ entry \in Events
      BY <2>1 DEF ReaderGetEntry, JobData, Control, Locals, Events
    <3>2. jobs'[entry].tracklets = NULL
      BY <3>1
    <3>3. e # entry
      BY <1>5, <3>2
    <3>4. QED
      BY <1>5, <3>1, <3>3
  <2>2. ASSUME NEW w \in Workers, WorkerFillTracklets(w)
        PROVE  jobs[e] # NULL /\ jobs'[e].tracklets = jobs[e].tracklets
    <3>1. /\ job[w] \in Events /\ jobs[job[w]] # NULL /\ jobs[job[w]] \in KJob
          /\ jobs \in [Events -> KJob \cup {NULL}]
      BY <2>2, WorkedJob DEF WorkerFillTracklets, JobData
    <3>2. PICK n : jobs' = [jobs EXCEPT ![job[w]].nTracklets = n]
      BY <2>2 DEF WorkerFillTracklets
    <3>3. /\ \A f \in Events \ {job[w]} : jobs'[f] = jobs[f]
          /\ jobs'[job[w]].tracklets = jobs[job[w]].tracklets
      BY <3>1, <3>2 DEF KJob
    <3>4. QED
      BY <1>5, <3>1, <3>3
  <2>3. CASE jobs' = jobs
    BY <1>5, <2>3
  <2>4. QED
    BY <2>1, <2>2, <2>3
       DEF LocalStep, ReaderNewPill, ReaderReturn, WorkerSetRawEvent,
         ReaperCountPill, ReaperFill, ReaperPostCompletedEvent, ReaperClose, MainStep,
         startReaderThread, startReaperThread, startWorkerThread, Start, Join, Destroy, dataVars
<1>6. ArraysOwned'
  BY <1>0, <1>1, <1>3, <1>5, ArraysKept
<1>7. QED
  BY <1>4, <1>6

\* Every step keeps each object in one place.
LEMMA NextTools ==
  ASSUME Q!TypeOK, Front, Control, JobsOwned, JobData, ToolsOwned, ArraysOwned, [Next]_vars
  PROVE  ToolsOwned' /\ ArraysOwned'
<1>1. CASE QueueStep
  BY <1>1, TakingTools, PuttingTools, PostTools DEF QueueStep
<1>2. CASE UNCHANGED vars
  <2>1. UNCHANGED <<queue, step, opq, item, pc, tool, jobs>>
    BY <1>2 DEF vars
  <2>2. ToolsHeld' = ToolsHeld
    BY <2>1 DEF ToolsHeld
  <2>3. QED
    BY <2>1, <2>2 DEF ToolsOwned, ArraysOwned, Sole
<1>3. QED
  BY <1>1, <1>2, ArrayTakenTools, DeleteTools, LocalTools, Moves

-----------------------------------------------------------------------------
(* What the jobs and the arrays contain *)

Blanks == {e \in Events :
  /\ jobs[e] # NULL
  /\ jobs[e].nTracklets = 0
  /\ jobs[e].tracklets \in Arrays => tracklets[jobs[e].tracklets] = <<>>}

Fulls == {e \in Events :
  /\ jobs[e] # NULL
  /\ jobs[e].nTracklets = NTracklets[e]
  /\ jobs[e].tracklets \in Arrays => tracklets[jobs[e].tracklets] = [n \in 1..NTracklets[e] |-> e]}

\* The threads that have still to fill, or to pass on to be filled, what they hold.
Before == {t \in Threads :
  t = Reader \/ (t \in Workers /\ pc[t] \notin {"putTracker", "putJob"})}

\* A job is blank until a worker has filled it, and full from then on.
JobContents ==
  /\ \A i \in 1..Len(queue["newJobQueue"]) :
       queue["newJobQueue"][i] \in Events => queue["newJobQueue"][i] \in Blanks
  /\ \A i \in 1..Len(queue["cmpJobQueue"]) :
       queue["cmpJobQueue"][i] \in Events => queue["cmpJobQueue"][i] \in Fulls
  /\ \A t \in Before : JobsHeld[t] \subseteq Blanks
  /\ \A t \in Threads \ Before : JobsHeld[t] \subseteq Fulls

\* An array is empty unless a job has it.
ArraysEmpty ==
  /\ tracklets \in [Arrays -> Seq(Events)]
  /\ \A a \in Arrays :
       (\A e \in Events : jobs[e] # NULL => jobs[e].tracklets # a) => tracklets[a] = <<>>

\* A tracker lists the tracklets of the job of the worker that has it.
Tracked == \A w \in Workers : pc[w] = "fill" => trackletsInSt[tool[w]] = job[w]

-----------------------------------------------------------------------------
\* A step that changes no job and no array, and gives no thread a job.
LEMMA ContentsKept ==
  ASSUME JobContents, ArraysEmpty, UNCHANGED <<jobs, tracklets>>,
         \A q \in Pipes : queue'[q] = queue[q],
         \A t \in Threads : JobsHeld'[t] \subseteq JobsHeld[t],
         \A t \in Threads : JobsHeld'[t] = {} \/ (t \in Before' <=> t \in Before)
  PROVE  JobContents' /\ ArraysEmpty'
<1>1. Blanks' = Blanks /\ Fulls' = Fulls
  BY DEF Blanks, Fulls
<1>2. Before \subseteq Threads /\ Before' \subseteq Threads
  BY DEF Before
<1>3. queue'["newJobQueue"] = queue["newJobQueue"] /\ queue'["cmpJobQueue"] = queue["cmpJobQueue"]
  BY DEF Pipes
<1>4. \A t \in Before' : JobsHeld'[t] \subseteq Blanks'
  BY <1>1, <1>2 DEF JobContents
<1>5. \A t \in Threads \ Before' : JobsHeld'[t] \subseteq Fulls'
  BY <1>1, <1>2 DEF JobContents
<1>6. JobContents'
  BY <1>1, <1>3, <1>4, <1>5 DEF JobContents
<1>7. ArraysEmpty'
  BY DEF ArraysEmpty
<1>8. QED
  BY <1>6, <1>7

\* A worker takes blank jobs and the reaper full ones.
LEMMA TakingContents ==
  ASSUME Q!TypeOK, Front, Control, JobContents, ArraysEmpty,
         NEW t \in Threads, NEW q \in AllQueues, Taking(t, q)
  PROVE  JobContents' /\ ArraysEmpty'
<1> USE Constants DEF Taking, privateVars, Q!TypeOK
<1>0. Pipes \cap Pools = {} /\ AllQueues = Pipes \cup Pools
  BY DEF Pipes, Pools, AllQueues
<1>5. Before' = Before /\ jobs' = jobs /\ tracklets' = tracklets
  BY DEF Before
<1>1. CASE Q!TakeWait(t, q) \/ Q!TakeFront(t, q)
  <2>1. \A u \in Threads : JobsHeld'[u] \subseteq JobsHeld[u]
    BY <1>1 DEF JobsHeld, Pushed, Q!TakeWait, Q!TakeFront, Q!Goto, Q!At
  <2>2. queue' = queue
    BY <1>1 DEF Q!TakeWait, Q!TakeFront
  <2>3. QED
    BY <1>5, <2>1, <2>2, ContentsKept
<1>2. CASE Q!TakePop(t, q) /\ q \in Pools
  <2>1. \A u \in Threads : JobsHeld'[u] \subseteq JobsHeld[u]
    BY <1>0, <1>2 DEF JobsHeld, Pushed, Q!TakePop, Q!Goto, Q!At
  <2>2. \A p \in Pipes : queue'[p] = queue[p]
    BY <1>0, <1>2 DEF Q!TakePop
  <2>3. QED
    BY <1>5, <2>1, <2>2, ContentsKept
<1>3. CASE Q!TakePop(t, q) /\ q \in Pipes
  <2>1. /\ queue[q] # <<>> /\ queue[q] \in Seq(Items) /\ item[t] = Head(queue[q])
        /\ opq[t] = q /\ step[t] = "takePop"
    BY <1>3 DEF Front, Q!TakePop, Q!At
  <2>2. /\ step' = [step EXCEPT ![t] = "takePost"]
        /\ queue' = [queue EXCEPT ![q] = Tail(@)]
        /\ opq' = opq /\ item' = item
    BY <1>3 DEF Q!TakePop, Q!Goto
  <2>3. /\ \A u \in Threads \ {t} : JobsHeld'[u] \subseteq JobsHeld[u]
        /\ \A e \in JobsHeld'[t] : e \in JobsHeld[t] \/ e = Head(queue[q])
        /\ JobsHeld'[t] \subseteq Events
    BY <2>1, <2>2 DEF JobsHeld, Pushed
  <2>4. queue'[q] = Tail(queue[q]) /\ \A p \in Pipes \ {q} : queue'[p] = queue[p]
    BY <1>0, <2>2
  <2>5. Head(queue[q]) = queue[q][1] /\ 1 \in 1..Len(queue[q])
    BY <2>1, TailItems
  <2>6. /\ q = "newJobQueue" => t \in Before
        /\ q = "cmpJobQueue" => t \notin Before
    BY <1>3, <2>1 DEF TakesAt, Before, Pipes
  <2>7. q = "newJobQueue" \/ q = "cmpJobQueue"
    BY <1>3 DEF Pipes
  <2>9. Blanks' = Blanks /\ Fulls' = Fulls
    BY <1>5 DEF Blanks, Fulls
  <2> HIDE DEF Taking, Q!TypeOK
  <2>8. ASSUME NEW p \in Pipes, NEW i \in 1..Len(queue'[p])
        PROVE  \E k \in 1..Len(queue[p]) : queue'[p][i] = queue[p][k]
    <3>1. CASE p = q
      <4>1. i + 1 \in 1..Len(queue[p]) /\ queue'[p][i] = queue[p][i + 1]
        <5>1. \A k \in 1..Len(Tail(queue[q])) :
                k + 1 \in 1..Len(queue[q]) /\ Tail(queue[q])[k] = queue[q][k + 1]
          BY <2>1, TailItems
        <5>2. QED
          BY <2>4, <3>1, <5>1
      <4>2. QED
        BY <4>1
    <3>2. QED
      BY <2>4, <3>1
  <2>10. /\ \A i \in 1..Len(queue'["newJobQueue"]) :
              queue'["newJobQueue"][i] \in Events => queue'["newJobQueue"][i] \in Blanks
         /\ \A i \in 1..Len(queue'["cmpJobQueue"]) :
              queue'["cmpJobQueue"][i] \in Events => queue'["cmpJobQueue"][i] \in Fulls
    <3>1. "newJobQueue" \in Pipes /\ "cmpJobQueue" \in Pipes
      BY DEF Pipes
    <3>2. QED
      BY <2>8, <3>1 DEF JobContents
  <2>11. /\ q = "newJobQueue" => (Head(queue[q]) \in Events => Head(queue[q]) \in Blanks)
         /\ q = "cmpJobQueue" => (Head(queue[q]) \in Events => Head(queue[q]) \in Fulls)
    BY <2>5 DEF JobContents
  <2>12. \A u \in Before : JobsHeld'[u] \subseteq Blanks
    <3>1. ASSUME NEW u \in Before, NEW e \in JobsHeld'[u]
          PROVE  e \in Blanks
      <4>1. CASE u = t
        BY <2>3, <2>6, <2>7, <2>11, <3>1, <4>1 DEF JobContents
      <4>2. CASE u # t
        BY <2>3, <3>1, <4>2 DEF JobContents, Before
      <4>3. QED
        BY <4>1, <4>2
    <3>2. QED
      BY <3>1
  <2>13. \A u \in Threads \ Before : JobsHeld'[u] \subseteq Fulls
    <3>1. ASSUME NEW u \in Threads \ Before, NEW e \in JobsHeld'[u]
          PROVE  e \in Fulls
      <4>1. CASE u = t
        BY <2>3, <2>6, <2>7, <2>11, <3>1, <4>1 DEF JobContents
      <4>2. CASE u # t
        BY <2>3, <3>1, <4>2 DEF JobContents
      <4>3. QED
        BY <4>1, <4>2
    <3>2. QED
      BY <3>1
  <2>14. JobContents'
    BY <1>5, <2>9, <2>10, <2>12, <2>13 DEF JobContents
  <2>15. ArraysEmpty'
    BY <1>5 DEF ArraysEmpty
  <2>16. QED
    BY <2>14, <2>15
<1>4. QED
  BY <1>0, <1>1, <1>2, <1>3 DEF Q!TakeInside

\* The reader puts blank jobs and the workers put full ones.
LEMMA PuttingContents ==
  ASSUME Q!TypeOK, Control, JobContents, ArraysEmpty,
         NEW t \in Threads, NEW q \in AllQueues, NEW v, Putting(t, q, v)
  PROVE  JobContents' /\ ArraysEmpty'
<1> USE Constants DEF Putting, privateVars, Q!TypeOK
<1>0. Pipes \cap Pools = {} /\ AllQueues = Pipes \cup Pools
  BY DEF Pipes, Pools, AllQueues
<1>5. Before' = Before /\ jobs' = jobs /\ tracklets' = tracklets
  BY DEF Before
<1>1. CASE Q!PutWait(t, q, v) \/ Q!PutLock(t, q)
  <2>1. \A u \in Threads : JobsHeld'[u] \subseteq JobsHeld[u]
    BY <1>1 DEF JobsHeld, Pushed, Q!PutWait, Q!PutLock, Q!Goto, Q!At
  <2>2. queue' = queue
    BY <1>1 DEF Q!PutWait, Q!PutLock
  <2>3. QED
    BY <1>5, <2>1, <2>2, ContentsKept
<1>2. CASE Q!PutPush(t, q) /\ q \in Pools
  <2>1. \A u \in Threads : JobsHeld'[u] \subseteq JobsHeld[u]
    BY <1>0, <1>2 DEF JobsHeld, Pushed, Q!PutPush, Q!Goto, Q!At
  <2>2. \A p \in Pipes : queue'[p] = queue[p]
    BY <1>0, <1>2 DEF Q!PutPush
  <2>3. QED
    BY <1>5, <2>1, <2>2, ContentsKept
<1>3. CASE Q!PutPush(t, q) /\ q \in Pipes
  <2>1. /\ opq[t] = q /\ step[t] = "putPush"
        /\ item[t] \in Items /\ queue[q] \in Seq(Items)
    BY <1>3 DEF Q!PutPush, Q!At
  <2>2. PutsAt(t, q, item[t])
    BY <2>1 DEF Control, InOperation
  <2>3. /\ item[t] = job[t]
        /\ q = "newJobQueue" => t \in Before
        /\ q = "cmpJobQueue" /\ item[t] \in Events => t \notin Before
    BY <1>3, <2>2 DEF PutsAt, Pipes, Before, Control, Pointers
  <2>4. /\ step' = [step EXCEPT ![t] = "putPost"]
        /\ queue' = [queue EXCEPT ![q] = Append(@, item[t])]
        /\ opq' = opq /\ item' = item
    BY <1>3 DEF Q!PutPush, Q!Goto
  <2>5. /\ \A u \in Threads : JobsHeld'[u] \subseteq JobsHeld[u]
        /\ item[t] \in Events => item[t] \in JobsHeld[t]
    BY <1>3, <2>1, <2>3, <2>4 DEF JobsHeld, Pushed
  <2>6. /\ queue'[q] = Append(queue[q], item[t])
        /\ \A p \in Pipes \ {q} : queue'[p] = queue[p]
    BY <1>0, <2>4
  <2>7. q = "newJobQueue" \/ q = "cmpJobQueue"
    BY <1>3 DEF Pipes
  <2> HIDE DEF Putting, Q!TypeOK
  <2>8. ASSUME NEW p \in Pipes, NEW i \in 1..Len(queue'[p])
        PROVE  (\E k \in 1..Len(queue[p]) : queue'[p][i] = queue[p][k])
                 \/ (p = q /\ queue'[p][i] = item[t])
    <3>1. CASE p = q
      <4>1. i \in 1..Len(queue[p]) \/ i = Len(queue[p]) + 1
        BY <2>1, <2>6, <3>1, AppendItems
      <4>2. QED
        BY <2>1, <2>6, <3>1, <4>1, AppendItems
    <3>2. QED
      BY <2>6, <3>1
  <2>9. /\ q = "newJobQueue" /\ item[t] \in Events => item[t] \in Blanks
        /\ q = "cmpJobQueue" /\ item[t] \in Events => item[t] \in Fulls
    BY <2>3, <2>5 DEF JobContents
  <2>10. /\ \A i \in 1..Len(queue'["newJobQueue"]) :
              queue'["newJobQueue"][i] \in Events => queue'["newJobQueue"][i] \in Blanks
         /\ \A i \in 1..Len(queue'["cmpJobQueue"]) :
              queue'["cmpJobQueue"][i] \in Events => queue'["cmpJobQueue"][i] \in Fulls
    <3>1. "newJobQueue" \in Pipes /\ "cmpJobQueue" \in Pipes
      BY DEF Pipes
    <3>2. QED
      BY <2>8, <2>9, <3>1 DEF JobContents
  <2>11. Blanks' = Blanks /\ Fulls' = Fulls
    BY <1>5 DEF Blanks, Fulls
  <2>12. /\ \A u \in Before : JobsHeld'[u] \subseteq Blanks
         /\ \A u \in Threads \ Before : JobsHeld'[u] \subseteq Fulls
    BY <2>5 DEF JobContents, Before
  <2>14. JobContents'
    BY <1>5, <2>10, <2>11, <2>12 DEF JobContents
  <2>15. ArraysEmpty'
    BY <1>5 DEF ArraysEmpty
  <2>16. QED
    BY <2>14, <2>15
<1>4. QED
  BY <1>0, <1>1, <1>2, <1>3 DEF Q!PutInside

\* The end of a queue operation changes no job.
LEMMA PostContents ==
  ASSUME Q!TypeOK, Control, JobContents, ArraysEmpty,
         NEW t \in Threads, NEW q \in AllQueues,
         JobTaken(t, q) \/ JobPut(t, q) \/ ToolTaken(t, q) \/ ToolPut(t, q)
  PROVE  JobContents' /\ ArraysEmpty'
<1> USE Constants DEF Q!TypeOK, Q!TakePost, Q!PutPost, Q!Goto, Q!At, GoTo
<1>0. Pipes \cap Pools = {} /\ AllQueues = Pipes \cup Pools
  BY DEF Pipes, Pools, AllQueues
<1>1. /\ pc \in [Threads \cup {Main} ->
               ReaderLabels \cup WorkerLabels \cup ReaperLabels \cup MainLabels]
      /\ job \in [Threads -> Events \cup {POISON, NULL}]
  BY DEF Control, Locals
<1>2. queue' = queue /\ jobs' = jobs /\ tracklets' = tracklets
  BY DEF JobTaken, JobPut, ToolTaken, ToolPut, dataVars
<1>3. \A u \in Threads : JobsHeld'[u] \subseteq JobsHeld[u]
  <2>1. CASE JobTaken(t, q)
    BY <1>0, <1>1, <2>1 DEF JobTaken, JobsHeld, Pushed
  <2>2. CASE JobPut(t, q)
    BY <1>0, <1>1, <2>2 DEF JobPut, JobsHeld, Pushed
  <2>3. CASE ToolTaken(t, q)
    BY <1>0, <1>1, <2>3 DEF ToolTaken, JobsHeld, Pushed
  <2>4. CASE ToolPut(t, q)
    BY <1>0, <1>1, <2>4 DEF ToolPut, JobsHeld, Pushed
  <2>5. QED
    BY <2>1, <2>2, <2>3, <2>4
<1>4. \A u \in Threads \ {t} : pc'[u] = pc[u]
  BY <1>1 DEF JobTaken, JobPut, ToolTaken, ToolPut
<1>5. JobsHeld'[t] = {} \/ (t \in Before' <=> t \in Before)
  <2>1. CASE JobTaken(t, q)
    <3>1. pc[t] = "takeJob"
      BY <2>1 DEF JobTaken, TakesAt, Pipes
    <3>2. t \in Workers => pc'[t] \in {"putPill", "takeReducer"}
      BY <1>1, <2>1 DEF JobTaken
    <3>3. QED
      BY <3>1, <3>2 DEF Before
  <2>2. CASE JobPut(t, q)
    <3>1. job'[t] = NULL /\ step'[t] = "idle"
      BY <1>1, <2>2 DEF JobPut
    <3>2. QED
      BY <3>1 DEF JobsHeld
  <2>3. CASE ToolTaken(t, q)
    <3>1. pc[t] \in {"takeReducer", "takeTracker"}
      BY <2>3 DEF ToolTaken, TakesAt, Pools
    <3>2. pc'[t] \in {"setRawEvent", "putReducer"}
      BY <1>1, <2>3 DEF ToolTaken
    <3>3. QED
      BY <3>1, <3>2 DEF Before
  <2>4. CASE ToolPut(t, q)
    <3>1. \/ t \in Workers /\ q = "eventReducerQueue" /\ pc[t] = "putReducer"
          \/ t \in Workers /\ q = "kFastTrkQueue" /\ pc[t] = "putTracker"
          \/ t = Reaper
      BY <2>4 DEF ToolPut, PutsAt, Pools
    <3>2. /\ q = "eventReducerQueue" => pc'[t] = "takeTracker"
          /\ q = "kFastTrkQueue" => pc'[t] = "putJob"
      BY <1>1, <2>4 DEF ToolPut
    <3>3. QED
      BY <3>1, <3>2 DEF Before
  <2>5. QED
    BY <2>1, <2>2, <2>3, <2>4
<1>6. \A u \in Threads : JobsHeld'[u] = {} \/ (u \in Before' <=> u \in Before)
  BY <1>4, <1>5 DEF Before
<1>7. QED
  BY <1>2, <1>3, <1>6, ContentsKept

\* The array from the pool is empty, because no job has it.
LEMMA ArrayTakenContents ==
  ASSUME Q!TypeOK, Control, JobsOwned, JobData, ToolsOwned, ArraysOwned, JobContents, ArraysEmpty,
         ArrayTaken
  PROVE  JobContents' /\ ArraysEmpty'
<1> USE Constants
<1> DEFINE a == item[Reader]
           d == job[Reader]
<1>0. ArrayPool \in Pools
  BY DEF ArrayPool, Pools
<1>1. /\ pc[Reader] = "takeArray" /\ d \in Events
      /\ step[Reader] = "takePost" /\ opq[Reader] = ArrayPool
      /\ a \in Pool[ArrayPool] /\ a \in Arrays
  BY DEF ArrayTaken, Control, Pointers, Carriage, Carried, Pipes, Pool, ArrayPool,
         Q!TakePost, Q!At
<1>2. \A e \in Events : jobs[e] # NULL => jobs[e].tracklets # a
  <2>1. a \in ToolsHeld[ArrayPool][Reader]
    BY <1>0, <1>1 DEF ToolsHeld
  <2>2. QED
    BY <1>1, <2>1 DEF ArraysOwned
<1>3. tracklets[a] = <<>>
  BY <1>1, <1>2 DEF ArraysEmpty
<1>4. d \in JobsHeld[Reader] /\ d \in Blanks
  <2>1. d \in JobsHeld[Reader] /\ Reader \in Before
    BY <1>1, InHand DEF Before
  <2>2. QED
    BY <2>1 DEF JobContents
<1>5. jobs[d] # NULL /\ jobs[d] \in KJob
  BY <1>4 DEF Blanks, JobData
<1>6. /\ queue' = queue /\ tracklets' = tracklets
      /\ \A t \in Threads : JobsHeld'[t] \subseteq JobsHeld[t]
      /\ Before' = Before
  <2>1. \A t \in Workers : pc'[t] = pc[t]
    BY DEF ArrayTaken, GoTo, Control, Locals
  <2>2. \A t \in Threads : JobsHeld'[t] \subseteq JobsHeld[t]
    BY <1>1 DEF ArrayTaken, JobsHeld, Pushed, Pipes, ArrayPool, Q!TypeOK, Q!TakePost, Q!Goto, Q!At
  <2>3. QED
    BY <2>1, <2>2 DEF ArrayTaken, Before, Q!TakePost
<1>7. /\ jobs'[d] \in KJob /\ jobs'[d].tracklets = a /\ jobs'[d].nTracklets = jobs[d].nTracklets
      /\ \A e \in Events \ {d} : jobs'[e] = jobs[e]
  <2>1. jobs' = [jobs EXCEPT ![d].tracklets = a]
    BY DEF ArrayTaken
  <2>2. QED
    BY <1>1, <1>5, <2>1 DEF JobData, KJob
<1>8. jobs'[d] # NULL
  BY <1>7, KSchedulerAssumption
<1> HIDE DEF a, d
<1>9. Blanks \subseteq Blanks' /\ \A e \in Fulls : e # d => e \in Fulls'
  <2>1. d \in Blanks'
    BY <1>1, <1>3, <1>4, <1>6, <1>7, <1>8 DEF Blanks
  <2>2. ASSUME NEW e \in Events, e # d
        PROVE  (e \in Blanks => e \in Blanks') /\ (e \in Fulls => e \in Fulls')
    BY <1>6, <1>7, <2>2 DEF Blanks, Fulls
  <2>3. QED
    BY <2>1, <2>2 DEF Blanks, Fulls
<1>10. /\ \A t \in Threads \ {Reader} : d \notin JobsHeld[t]
       /\ \A p \in Pipes : \A i \in 1..Len(queue[p]) : queue[p][i] # d
  BY <1>1, <1>4 DEF JobsOwned, Sole
<1>11. JobContents'
  <2>1. Before \subseteq Threads /\ Reader \in Before /\ "cmpJobQueue" \in Pipes
    BY DEF Before, Pipes
  <2>2. \A t \in Threads \ Before : JobsHeld'[t] \subseteq Fulls'
    <3>1. ASSUME NEW t \in Threads \ Before, NEW e \in JobsHeld'[t]
          PROVE  e \in Fulls'
      <4>1. e \in JobsHeld[t] /\ e \in Fulls
        BY <1>6, <3>1 DEF JobContents
      <4>2. e # d
        BY <1>10, <2>1, <4>1
      <4>3. QED
        BY <1>9, <4>1, <4>2
    <3>2. QED
      BY <3>1
  <2>3. \A t \in Before : JobsHeld'[t] \subseteq Blanks'
    BY <1>6, <1>9, <2>1 DEF JobContents
  <2>4. \A i \in 1..Len(queue["newJobQueue"]) :
          queue["newJobQueue"][i] \in Events => queue["newJobQueue"][i] \in Blanks'
    BY <1>9 DEF JobContents
  <2>5. \A i \in 1..Len(queue["cmpJobQueue"]) :
          queue["cmpJobQueue"][i] \in Events => queue["cmpJobQueue"][i] \in Fulls'
    BY <1>9, <1>10, <2>1 DEF JobContents
  <2>6. QED
    BY <1>6, <2>2, <2>3, <2>4, <2>5 DEF JobContents
<1>12. ArraysEmpty'
  <2>1. ASSUME NEW b \in Arrays, \A e \in Events : jobs'[e] # NULL => jobs'[e].tracklets # b
        PROVE  tracklets[b] = <<>>
    <3>1. CASE jobs[d].tracklets = b
      BY <1>4, <3>1 DEF Blanks
    <3>2. CASE jobs[d].tracklets # b
      <4>1. \A e \in Events : jobs[e] # NULL => jobs[e].tracklets # b
        BY <1>7, <2>1, <3>2
      <4>2. QED
        BY <4>1 DEF ArraysEmpty
    <3>3. QED
      BY <3>1, <3>2
  <2>2. QED
    BY <1>6, <2>1 DEF ArraysEmpty
<1>13. QED
  BY <1>11, <1>12

\* A new job is blank.
LEMMA GetEntryContents ==
  ASSUME Q!TypeOK, Control, JobsOwned, JobData, JobContents, ArraysEmpty, ReaderGetEntry
  PROVE  JobContents' /\ ArraysEmpty'
<1> USE Constants
<1>1. /\ pc[Reader] = "loop" /\ entry \in Events
      /\ jobs[entry] = NULL
      /\ UNCHANGED <<queue, step, opq, item, tracklets>>
      /\ job' = [job EXCEPT ![Reader] = entry]
  BY DEF ReaderGetEntry, JobData, Control, Locals, Events, syncVars
<1>2. /\ jobs'[entry] = [evData |-> entry, tracklets |-> NULL, nTracklets |-> 0]
      /\ \A e \in Events \ {entry} : jobs'[e] = jobs[e]
  <2>1. jobs' = [jobs EXCEPT ![entry] =
                   [evData |-> entry, tracklets |-> NULL, nTracklets |-> 0]]
    BY DEF ReaderGetEntry
  <2>2. QED
    BY <1>1, <2>1 DEF JobData
<1>3. jobs'[entry] # NULL /\ jobs'[entry].tracklets \notin Arrays /\ jobs'[entry].nTracklets = 0
  BY <1>1, <1>2, KSchedulerAssumption DEF KJob
<1>4. /\ Blanks \subseteq Blanks' /\ Fulls \subseteq Fulls' /\ entry \in Blanks'
  <2>1. \A e \in Events \ {entry} :
          (e \in Blanks => e \in Blanks') /\ (e \in Fulls => e \in Fulls')
    BY <1>1, <1>2 DEF Blanks, Fulls
  <2>2. entry \notin Blanks /\ entry \notin Fulls
    BY <1>1 DEF Blanks, Fulls
  <2>3. entry \in Blanks'
    BY <1>1, <1>3 DEF Blanks
  <2>4. QED
    BY <2>1, <2>2, <2>3 DEF Blanks, Fulls
<1>5. /\ Before' = Before /\ Reader \in Before /\ Before \subseteq Threads
      /\ \A w \in Workers : pc'[w] = pc[w]
  BY DEF Before, ReaderGetEntry, GoTo, Control, Locals
<1>6. /\ JobsHeld'[Reader] \subseteq {entry}
      /\ \A u \in Threads \ {Reader} : JobsHeld'[u] = JobsHeld[u]
  <2>1. step[Reader] \notin {"takePost", "putPost"}
    BY <1>1 DEF Control, InOperation, TakesAt, PutsAt
  <2>2. QED
    BY <1>1, <2>1 DEF JobsHeld, Pushed, Control, Locals
<1>7. JobContents'
  BY <1>1, <1>4, <1>5, <1>6 DEF JobContents
<1>8. ArraysEmpty'
  <2>1. ASSUME NEW b \in Arrays, \A e \in Events : jobs'[e] # NULL => jobs'[e].tracklets # b
        PROVE  tracklets[b] = <<>>
    <3>1. \A e \in Events : jobs[e] # NULL => jobs[e].tracklets # b
      BY <1>1, <1>2, <2>1
    <3>2. QED
      BY <3>1 DEF ArraysEmpty
  <2>2. QED
    BY <1>1, <2>1 DEF ArraysEmpty
<1>9. QED
  BY <1>7, <1>8

\* The array of the deleted job is cleared, and no other job has it.
LEMMA DeleteContents ==
  ASSUME Q!TypeOK, Control, JobsOwned, JobData, ArraysOwned, JobContents, ArraysEmpty, ReaperDelete
  PROVE  JobContents' /\ ArraysEmpty'
<1> USE Constants
<1> DEFINE d == job[Reaper]
           a == jobs[d].tracklets
<1>1. /\ pc[Reaper] = "delete" /\ d \in Events /\ jobs[d] # NULL /\ a \in Arrays
      /\ d \in JobsHeld[Reaper]
  BY ReapedJob DEF ReaperDelete
<1>2. /\ tracklets' = [tracklets EXCEPT ![a] = <<>>]
      /\ jobs' = [jobs EXCEPT ![d] = NULL]
      /\ job' = [job EXCEPT ![Reaper] = NULL]
      /\ UNCHANGED <<queue, step, opq, item>>
  BY DEF ReaperDelete, syncVars
<1> HIDE DEF d, a
<1>3. /\ jobs'[d] = NULL /\ \A e \in Events \ {d} : jobs'[e] = jobs[e]
      /\ tracklets' \in [Arrays -> Seq(Events)]
      /\ tracklets'[a] = <<>> /\ \A b \in Arrays \ {a} : tracklets'[b] = tracklets[b]
  BY <1>1, <1>2 DEF JobData, ArraysEmpty
<1>4. \A f \in Events \ {d} : jobs[f] # NULL => jobs[f].tracklets # a
  BY <1>1 DEF ArraysOwned, a
<1>5. \A e \in Events \ {d} :
        (e \in Blanks => e \in Blanks') /\ (e \in Fulls => e \in Fulls')
  BY <1>3, <1>4 DEF Blanks, Fulls
<1>6. /\ \A u \in Threads \ {Reaper} : d \notin JobsHeld[u]
      /\ \A p \in Pipes : \A i \in 1..Len(queue[p]) : queue[p][i] # d
  BY <1>1 DEF JobsOwned, Sole
<1>7. /\ JobsHeld'[Reaper] = {}
      /\ \A u \in Threads \ {Reaper} : JobsHeld'[u] = JobsHeld[u]
  <2>1. step[Reaper] \notin {"takePost", "putPost"}
    BY <1>1 DEF Control, InOperation, TakesAt, PutsAt
  <2>2. QED
    BY <1>1, <1>2, <2>1 DEF JobsHeld, Pushed, Control, Locals
<1>8. /\ Before' = Before /\ Reaper \notin Before /\ Before \subseteq Threads
  BY DEF Before, ReaperDelete, GoTo, Control, Locals
<1>9. JobContents'
  <2>1. \A u \in Threads : JobsHeld[u] \subseteq Events
    BY DEF JobsHeld
  <2>2. \A u \in Before : JobsHeld'[u] \subseteq Blanks'
    BY <1>5, <1>6, <1>7, <1>8, <2>1 DEF JobContents
  <2>3. \A u \in Threads \ Before : JobsHeld'[u] \subseteq Fulls'
    BY <1>5, <1>6, <1>7, <1>8, <2>1 DEF JobContents
  <2>4. "newJobQueue" \in Pipes /\ "cmpJobQueue" \in Pipes
    BY DEF Pipes
  <2>5. \A i \in 1..Len(queue["newJobQueue"]) :
          queue["newJobQueue"][i] \in Events => queue["newJobQueue"][i] \in Blanks'
    BY <1>5, <1>6, <2>4 DEF JobContents
  <2>6. \A i \in 1..Len(queue["cmpJobQueue"]) :
          queue["cmpJobQueue"][i] \in Events => queue["cmpJobQueue"][i] \in Fulls'
    BY <1>5, <1>6, <2>4 DEF JobContents
  <2>7. QED
    BY <1>2, <1>8, <2>2, <2>3, <2>5, <2>6 DEF JobContents
<1>10. ArraysEmpty'
  <2>1. ASSUME NEW b \in Arrays, \A e \in Events : jobs'[e] # NULL => jobs'[e].tracklets # b
        PROVE  tracklets'[b] = <<>>
    <3>1. CASE a = b
      BY <1>3, <3>1
    <3>2. CASE a # b
      <4>1. \A e \in Events : jobs[e] # NULL => jobs[e].tracklets # b
        BY <1>3, <2>1, <3>2 DEF a
      <4>2. QED
        BY <1>3, <3>2, <4>1 DEF ArraysEmpty
    <3>3. QED
      BY <3>1, <3>2
  <2>2. QED
    BY <1>3, <2>1 DEF ArraysEmpty
<1>11. QED
  BY <1>9, <1>10

\* A worker fills its job.
LEMMA FillContents ==
  ASSUME Q!TypeOK, Control, JobsOwned, JobData, ArraysOwned, JobContents, ArraysEmpty, Tracked,
         NEW w \in Workers, WorkerFillTracklets(w)
  PROVE  JobContents' /\ ArraysEmpty'
<1> USE Constants
<1> DEFINE d == job[w]
           a == jobs[d].tracklets
<1>1. /\ pc[w] = "fill" /\ d \in Events /\ jobs[d] # NULL /\ jobs[d] \in KJob /\ a \in Arrays
      /\ d \in JobsHeld[w] /\ trackletsInSt[tool[w]] = d
      /\ w \in Before /\ w # Reader /\ w \in Threads
  BY WorkedJob DEF WorkerFillTracklets, Tracked, Before
<1>2. /\ tracklets' = [tracklets EXCEPT ![a] = Overwrite(@, d)]
      /\ jobs' = [jobs EXCEPT ![d].nTracklets = @ + NTracklets[d]]
      /\ pc' = [pc EXCEPT ![w] = "putTracker"]
      /\ UNCHANGED <<queue, step, opq, item, job>>
  BY <1>1 DEF WorkerFillTracklets, syncVars, GoTo
<1> HIDE DEF d, a
<1>3. d \in Blanks /\ jobs[d].nTracklets = 0 /\ tracklets[a] = <<>> /\ NTracklets[d] \in Nat
  BY <1>1, KSchedulerAssumption DEF JobContents, Blanks, a
<1>4. Overwrite(<<>>, d) = [n \in 1..NTracklets[d] |-> d]
  BY <1>3 DEF Overwrite
<1>5. /\ tracklets' \in [Arrays -> Seq(Events)]
      /\ tracklets'[a] = [n \in 1..NTracklets[d] |-> d]
      /\ \A b \in Arrays \ {a} : tracklets'[b] = tracklets[b]
  <2>1. [n \in 1..NTracklets[d] |-> d] \in Seq(Events)
    BY <1>1, <1>3
  <2>2. tracklets' = [tracklets EXCEPT ![a] = [n \in 1..NTracklets[d] |-> d]]
    BY <1>2, <1>3, <1>4
  <2>3. QED
    BY <1>1, <2>1, <2>2 DEF ArraysEmpty
<1>6. /\ jobs'[d] \in KJob /\ jobs'[d].tracklets = a /\ jobs'[d].nTracklets = NTracklets[d]
      /\ \A e \in Events \ {d} : jobs'[e] = jobs[e]
  <2>1. DOMAIN jobs = Events
    BY DEF JobData
  <2>2. /\ jobs'[d] = [jobs[d] EXCEPT !.nTracklets = @ + NTracklets[d]]
        /\ \A e \in Events \ {d} : jobs'[e] = jobs[e]
    BY <1>1, <1>2, <2>1
  <2>3. jobs[d].nTracklets + NTracklets[d] = NTracklets[d]
    BY <1>3
  <2>4. jobs'[d] = [jobs[d] EXCEPT !.nTracklets = NTracklets[d]]
    BY <2>2, <2>3
  <2>5. QED
    BY <1>1, <1>3, <2>2, <2>4 DEF KJob, a
<1>7. jobs'[d] # NULL
  BY <1>6, KSchedulerAssumption
<1>8. \A f \in Events \ {d} : jobs[f] # NULL => jobs[f].tracklets # a
  BY <1>1 DEF ArraysOwned, a
<1>9. /\ d \in Fulls'
      /\ \A e \in Events \ {d} :
           (e \in Blanks => e \in Blanks') /\ (e \in Fulls => e \in Fulls')
  <2>1. d \in Fulls'
    BY <1>1, <1>5, <1>6, <1>7 DEF Fulls
  <2>2. \A e \in Events \ {d} :
          (e \in Blanks => e \in Blanks') /\ (e \in Fulls => e \in Fulls')
    BY <1>5, <1>6, <1>8 DEF Blanks, Fulls
  <2>3. QED
    BY <2>1, <2>2
<1>10. /\ \A u \in Threads \ {w} : d \notin JobsHeld[u]
       /\ \A p \in Pipes : \A i \in 1..Len(queue[p]) : queue[p][i] # d
  BY <1>1 DEF JobsOwned, Sole
<1>11. JobsHeld' = JobsHeld
  BY <1>2 DEF JobsHeld, Pushed
<1>12. JobsHeld[w] = {d}
  <2>1. step[w] # "takePost"
    BY <1>1 DEF Control, InOperation, TakesAt
  <2>2. QED
    BY <1>1, <2>1 DEF JobsHeld, d
<1>13. /\ Before' = Before \ {w} /\ Before \subseteq Threads
  BY <1>1, <1>2 DEF Before, Control, Locals
<1>14. JobContents'
  <2>1. \A u \in Threads : JobsHeld[u] \subseteq Events
    BY DEF JobsHeld
  <2>2. \A u \in Before' : JobsHeld'[u] \subseteq Blanks'
    BY <1>9, <1>10, <1>11, <1>13, <2>1 DEF JobContents
  <2>3. \A u \in Threads \ Before' : JobsHeld'[u] \subseteq Fulls'
    <3>1. ASSUME NEW u \in Threads \ Before', NEW e \in JobsHeld'[u]
          PROVE  e \in Fulls'
      <4>1. CASE u = w
        BY <1>9, <1>11, <1>12, <3>1, <4>1
      <4>2. CASE u # w
        BY <1>9, <1>10, <1>11, <1>13, <2>1, <3>1, <4>2 DEF JobContents
      <4>3. QED
        BY <4>1, <4>2
    <3>2. QED
      BY <3>1
  <2>4. "newJobQueue" \in Pipes /\ "cmpJobQueue" \in Pipes
    BY DEF Pipes
  <2>5. \A i \in 1..Len(queue["newJobQueue"]) :
          queue["newJobQueue"][i] \in Events => queue["newJobQueue"][i] \in Blanks'
    BY <1>9, <1>10, <2>4 DEF JobContents
  <2>6. \A i \in 1..Len(queue["cmpJobQueue"]) :
          queue["cmpJobQueue"][i] \in Events => queue["cmpJobQueue"][i] \in Fulls'
    BY <1>9, <1>10, <2>4 DEF JobContents
  <2>7. QED
    BY <1>2, <2>2, <2>3, <2>5, <2>6 DEF JobContents
<1>15. ArraysEmpty'
  <2>1. ASSUME NEW b \in Arrays, \A e \in Events : jobs'[e] # NULL => jobs'[e].tracklets # b
        PROVE  tracklets'[b] = <<>>
    <3>1. a # b
      BY <1>1, <1>6, <1>7, <2>1
    <3>2. \A e \in Events : jobs[e] # NULL => jobs[e].tracklets # b
      BY <1>6, <2>1, <3>1 DEF a
    <3>3. QED
      BY <1>5, <3>1, <3>2 DEF ArraysEmpty
  <2>2. QED
    BY <1>5, <2>1 DEF ArraysEmpty
<1>16. QED
  BY <1>14, <1>15

\* The other steps of the threads change no job and no array.
LEMMA QuietContents ==
  ASSUME Q!TypeOK, Control, JobContents, ArraysEmpty,
         \/ ReaderNewPill \/ ReaderReturn \/ \E w \in Workers : WorkerSetRawEvent(w)
         \/ ReaperCountPill \/ ReaperFill \/ ReaperPostCompletedEvent \/ ReaperClose \/ MainStep
  PROVE  JobContents' /\ ArraysEmpty'
<1> USE Constants
<1>1. UNCHANGED <<queue, step, opq, item, jobs, tracklets>>
  BY DEF ReaderNewPill, ReaderReturn, WorkerSetRawEvent, ReaperCountPill, ReaperFill,
         ReaperPostCompletedEvent, ReaperClose, MainStep, startReaderThread,
         startReaperThread, startWorkerThread, Start, Join, Destroy, syncVars, dataVars
<1>2. \A t \in Threads : JobsHeld'[t] \subseteq JobsHeld[t]
  <2>1. CASE ReaderNewPill \/ ReaperCountPill
    <3>1. PICK t \in {Reader, Reaper} : \E x \in {POISON, NULL} :
            /\ pc[t] \in {"loop", "countPill"}
            /\ job' = [job EXCEPT ![t] = x]
      BY <2>1 DEF ReaderNewPill, ReaperCountPill
    <3>2. job'[t] \notin Events /\ \A u \in Threads \ {t} : job'[u] = job[u]
      BY <3>1 DEF Control, Locals
    <3>3. step[t] # "putPost"
      BY <3>1 DEF Control, InOperation, PutsAt
    <3>4. QED
      BY <1>1, <3>2, <3>3 DEF JobsHeld, Pushed
  <2>2. CASE job' = job
    BY <1>1, <2>2 DEF JobsHeld, Pushed
  <2>3. QED
    BY <2>1, <2>2
       DEF ReaderReturn, WorkerSetRawEvent, ReaperFill, ReaperPostCompletedEvent, ReaperClose,
           MainStep, startReaderThread, startReaperThread, startWorkerThread, Start, Join,
           Destroy
<1>3. ASSUME NEW w \in Workers
      PROVE  pc'[w] = pc[w] \/ (/\ pc[w] \notin {"putTracker", "putJob"}
                                /\ pc'[w] \notin {"putTracker", "putJob"})
  <2> USE DEF GoTo, Control, Locals
  <2>1. CASE ReaderNewPill \/ ReaderReturn
    BY <2>1 DEF ReaderNewPill, ReaderReturn
  <2>2. CASE \E v \in Workers : WorkerSetRawEvent(v)
    BY <2>2 DEF WorkerSetRawEvent
  <2>3. CASE ReaperCountPill \/ ReaperFill \/ ReaperPostCompletedEvent \/ ReaperClose
    BY <2>3 DEF ReaperCountPill, ReaperFill, ReaperPostCompletedEvent, ReaperClose
  <2>4. CASE startReaderThread \/ startReaperThread
             \/ \E v \in Workers : startWorkerThread(v)
    BY <2>4 DEF startReaderThread, startReaperThread, startWorkerThread, Start
  <2>5. CASE \/ Join({Reader}, "joinReader", "joinReaper")
             \/ Join({Reaper}, "joinReaper", "joinWorkers")
             \/ Join(Workers, "joinWorkers", "returned")
             \/ Destroy
    BY <2>5 DEF Join, Destroy
  <2>6. QED
    BY <2>1, <2>2, <2>3, <2>4, <2>5 DEF MainStep
<1>4. Before' = Before
  BY <1>3 DEF Before
<1>5. QED
  BY <1>1, <1>2, <1>4, ContentsKept

\* Every step keeps the jobs blank before, and full after, their worker.
LEMMA NextContents ==
  ASSUME Q!TypeOK, Front, Control, JobsOwned, JobData, ToolsOwned, ArraysOwned,
         JobContents, ArraysEmpty, Tracked, [Next]_vars
  PROVE  JobContents' /\ ArraysEmpty'
<1>1. CASE QueueStep
  BY <1>1, TakingContents, PuttingContents, PostContents DEF QueueStep
<1>2. CASE UNCHANGED vars
  <2>1. UNCHANGED <<queue, step, opq, item, pc, job, jobs, tracklets>>
    BY <1>2 DEF vars
  <2>2. JobsHeld' = JobsHeld /\ Before' = Before
    BY <2>1 DEF JobsHeld, Before, Pushed
  <2>3. QED
    BY <2>1, <2>2, ContentsKept
<1>3. CASE LocalStep
  BY <1>3, GetEntryContents, FillContents, DeleteContents, QuietContents DEF LocalStep
<1>4. QED
  BY <1>1, <1>2, <1>3, ArrayTakenContents, Moves

\* Two workers do not track with the same tracker.
LEMMA OwnTracker ==
  ASSUME Control, ToolsOwned, NEW v \in Workers, NEW w \in Workers,
         pc[v] \in {"setRawEvent", "fill"}, pc[w] \in {"setRawEvent", "fill"},
         tool[v] = tool[w]
  PROVE  v = w
<1> USE Constants
<1> DEFINE q == "kFastTrkQueue"
<1>1. q \in Pools /\ Pool[q] = Trackers /\ v \in Threads /\ w \in Threads
  BY DEF Pools, Pool
<1>2. v \in Users[q] /\ w \in Users[q] /\ pc[v] \in Uses[q] /\ pc[w] \in Uses[q]
  BY DEF Users, Uses
<1>3. step[v] # "putPost" /\ step[w] # "putPost"
  BY DEF Control, InOperation, PutsAt
<1>4. tool[v] \in Trackers
  BY DEF Control, Pointers
<1> HIDE DEF q
<1>5. tool[v] \in ToolsHeld[q][v] /\ tool[v] \in ToolsHeld[q][w]
  BY <1>1, <1>2, <1>3, <1>4 DEF ToolsHeld
<1>6. Sole(Threads, Pool[q], ToolsHeld[q], queue, {q})
  BY <1>1 DEF ToolsOwned
<1>7. QED
  BY <1>1, <1>4, <1>5, <1>6 DEF Sole

\* Every step keeps the trackers at the events of their workers.
LEMMA NextTracked ==
  ASSUME Q!TypeOK, Control, JobsOwned, JobData, ToolsOwned, Tracked, [Next]_vars
  PROVE  Tracked'
<1> USE Constants
<1>1. ASSUME NEW w \in Workers, WorkerSetRawEvent(w)
      PROVE  Tracked'
  <2>1. /\ pc[w] = "setRawEvent" /\ tool[w] \in Trackers
        /\ raw[jobs[job[w]].evData] = job[w]
    BY <1>1, WorkedJob DEF WorkerSetRawEvent, JobData, Control, Pointers
  <2>2. /\ trackletsInSt' = [trackletsInSt EXCEPT ![tool[w]] = job[w]]
        /\ pc' = [pc EXCEPT ![w] = "fill"]
        /\ UNCHANGED <<job, tool>>
    BY <1>1, <2>1 DEF WorkerSetRawEvent, GoTo
  <2>3. /\ trackletsInSt'[tool[w]] = job[w]
        /\ \A k \in Trackers \ {tool[w]} : trackletsInSt'[k] = trackletsInSt[k]
        /\ \A v \in Workers \ {w} : pc'[v] = pc[v]
    BY <2>1, <2>2 DEF JobData, Control, Locals
  <2>4. ASSUME NEW v \in Workers \ {w}, pc[v] = "fill"
        PROVE  tool[v] \in Trackers \ {tool[w]}
    BY <2>1, <2>4, OwnTracker DEF Control, Pointers
  <2>5. QED
    BY <2>2, <2>3, <2>4 DEF Tracked
<1>2. CASE QueueStep
  <2>1. PICK t \in Threads, q \in AllQueues :
          \/ Taking(t, q)
          \/ \E v : Putting(t, q, v)
          \/ JobTaken(t, q)
          \/ JobPut(t, q)
          \/ ToolTaken(t, q)
          \/ ToolPut(t, q)
    BY <1>2 DEF QueueStep
  <2>2. trackletsInSt' = trackletsInSt
    BY <2>1 DEF Taking, Putting, JobTaken, JobPut, ToolTaken, ToolPut, privateVars, dataVars
  <2>3. CASE UNCHANGED privateVars
    BY <2>2, <2>3 DEF privateVars, Tracked
  <2>4. CASE JobTaken(t, q) \/ JobPut(t, q) \/ ToolTaken(t, q) \/ ToolPut(t, q)
    <3>1. t \in Workers => pc'[t] # "fill"
      BY <2>4 DEF JobTaken, JobPut, ToolTaken, ToolPut, GoTo, Control, Locals, Pools, PutsAt
    <3>2. \A v \in Workers \ {t} : pc'[v] = pc[v] /\ tool'[v] = tool[v] /\ job'[v] = job[v]
      BY <2>4 DEF JobTaken, JobPut, ToolTaken, ToolPut, GoTo, Control, Locals
    <3>3. QED
      BY <2>2, <3>1, <3>2 DEF Tracked
  <2>5. QED
    BY <2>1, <2>3, <2>4 DEF Taking, Putting
<1>3. CASE \/ ArrayTaken \/ UNCHANGED vars \/ ReaderGetEntry \/ ReaderNewPill \/ ReaderReturn
           \/ \E w \in Workers : WorkerFillTracklets(w)
           \/ ReaperCountPill \/ ReaperFill \/ ReaperDelete \/ ReaperPostCompletedEvent
           \/ ReaperClose \/ MainStep
  <2>1. trackletsInSt' = trackletsInSt /\ \A v \in Workers : tool'[v] = tool[v] /\ job'[v] = job[v]
    BY <1>3 DEF ArrayTaken, vars, ReaderGetEntry, ReaderNewPill, ReaderReturn,
         WorkerFillTracklets, ReaperCountPill, ReaperFill, ReaperDelete,
         ReaperPostCompletedEvent, ReaperClose, MainStep, startReaderThread,
         startReaperThread, startWorkerThread, Start, Join, Destroy, dataVars, Control, Locals
  <2>2. \A v \in Workers : pc'[v] = "fill" => pc[v] = "fill"
    <3> USE DEF GoTo, Control, Locals
    <3>1. CASE \/ ArrayTaken \/ UNCHANGED vars \/ ReaderGetEntry \/ ReaderNewPill \/ ReaderReturn
               \/ \E w \in Workers : WorkerFillTracklets(w)
      BY <3>1 DEF ArrayTaken, vars, ReaderGetEntry, ReaderNewPill, ReaderReturn,
                  WorkerFillTracklets
    <3>2. CASE \/ ReaperCountPill \/ ReaperFill \/ ReaperDelete \/ ReaperPostCompletedEvent
               \/ ReaperClose
      BY <3>2 DEF ReaperCountPill, ReaperFill, ReaperDelete, ReaperPostCompletedEvent,
                  ReaperClose
    <3>3. CASE startReaderThread \/ startReaperThread
               \/ \E v \in Workers : startWorkerThread(v)
      BY <3>3 DEF startReaderThread, startReaperThread, startWorkerThread, Start
    <3>4. CASE \/ Join({Reader}, "joinReader", "joinReaper")
               \/ Join({Reaper}, "joinReaper", "joinWorkers")
               \/ Join(Workers, "joinWorkers", "returned")
               \/ Destroy
      BY <3>4 DEF Join, Destroy
    <3>5. QED
      BY <1>3, <3>1, <3>2, <3>3, <3>4 DEF MainStep
  <2>3. QED
    BY <2>1, <2>2 DEF Tracked
<1>4. QED
  BY <1>1, <1>2, <1>3, Moves DEF LocalStep

-----------------------------------------------------------------------------
(* The output tree *)

\* What is written is exact, and no job of a written event is to be written any
\* more: it is deleted, or the reaper is about to delete it.
Output ==
  /\ saveTree \in Seq(OutputEntry)
  /\ OutputExact
  /\ \A i \in 1..Len(saveTree) :
       /\ saveTree[i].rawEvent < entry
       /\ jobs[saveTree[i].rawEvent] # NULL =>
            pc[Reaper] = "delete" /\ job[Reaper] = saveTree[i].rawEvent

\* What is on disk is a multiple of SAVENUM until the file is closed.
OnDisk ==
  /\ onDisk \in Nat
  /\ BoundedLoss
  /\ pc[Reaper] # "done" => onDisk % SAVENUM = 0

\* A job that exists later, but not yet now, is that of the entry just read.
LEMMA NewJobs ==
  ASSUME Control, JobData, JobsOwned, [Next]_vars, NEW e \in Events, jobs'[e] # NULL
  PROVE  jobs[e] # NULL \/ (ReaderGetEntry /\ e = entry)
<1> USE Constants
<1>0. jobs \in [Events -> KJob \cup {NULL}]
  BY DEF JobData
<1>1. CASE ReaderGetEntry
  BY <1>0, <1>1 DEF ReaderGetEntry
<1>2. CASE ArrayTaken
  <2>1. job[Reader] \in Events /\ jobs[job[Reader]] # NULL
    <3>1. job[Reader] \in JobsHeld[Reader]
      BY <1>2, InHand DEF ArrayTaken, Control, Pointers
    <3>2. QED
      BY <3>1 DEF JobsOwned, JobsHeld
  <2>2. QED
    BY <1>0, <1>2, <2>1 DEF ArrayTaken
<1>3. ASSUME NEW w \in Workers, WorkerFillTracklets(w)
      PROVE  jobs[e] # NULL
  <2>1. job[w] \in Events /\ jobs[job[w]] # NULL
    BY <1>3, WorkedJob DEF WorkerFillTracklets
  <2>2. QED
    BY <1>0, <1>3, <2>1 DEF WorkerFillTracklets
<1>4. CASE ReaperDelete
  BY <1>0, <1>4 DEF ReaperDelete
<1>5. CASE jobs' = jobs
  BY <1>5
<1>6. CASE QueueStep
  BY <1>5, <1>6 DEF QueueStep, Taking, Putting, JobTaken, JobPut, ToolTaken, ToolPut,
                    privateVars, dataVars
<1>7. QED
  BY <1>1, <1>2, <1>3, <1>4, <1>5, <1>6, Moves
     DEF vars, LocalStep, ReaderNewPill, ReaderReturn, WorkerSetRawEvent,
         ReaperCountPill, ReaperFill, ReaperPostCompletedEvent, ReaperClose, MainStep,
         startReaderThread, startReaperThread, startWorkerThread, Start, Join, Destroy, dataVars

\* While it is at one of these labels, the reaper does nothing else but its own step.
LEMMA ReaperWaits ==
  ASSUME Control, [Next]_vars, ~ReaperDelete, ~ReaperFill, ~ReaperClose
  PROVE  /\ pc[Reaper] \in {"fill", "delete", "close"} =>
              pc'[Reaper] = pc[Reaper] /\ job'[Reaper] = job[Reaper]
         /\ pc[Reaper] = "done" => pc'[Reaper] = "done"
         /\ pc'[Reaper] = "done" => pc[Reaper] = "done"
         /\ UNCHANGED <<saveTree, onDisk>>
<1> USE Constants DEF GoTo, Control, Locals
<1>1. CASE QueueStep
  <2>1. PICK t \in Threads, q \in AllQueues :
          \/ Taking(t, q)
          \/ \E v : Putting(t, q, v)
          \/ JobTaken(t, q)
          \/ JobPut(t, q)
          \/ ToolTaken(t, q)
          \/ ToolPut(t, q)
    BY <1>1 DEF QueueStep
  <2>2. CASE UNCHANGED privateVars
    BY <2>2 DEF privateVars
  <2>3. CASE JobTaken(t, q)
    BY <2>3 DEF JobTaken, TakesAt, outputVars
  <2>4. CASE JobPut(t, q)
    <3>1. t # Reaper
      BY <2>4 DEF JobPut, PutsAt, Pipes
    <3>2. QED
      BY <2>4, <3>1 DEF JobPut, outputVars
  <2>5. CASE ToolTaken(t, q)
    BY <2>5 DEF ToolTaken, TakesAt, outputVars
  <2>6. CASE ToolPut(t, q)
    <3>1. t = Reaper => pc[t] = "putArray" /\ q = "kTrackArrQueue"
      BY <2>6 DEF ToolPut, PutsAt
    <3>2. t = Reaper => pc'[t] = "postCompletedEvent"
      BY <2>6, <3>1 DEF ToolPut
    <3>3. t # Reaper => pc'[Reaper] = pc[Reaper]
      BY <2>6 DEF ToolPut
    <3>4. UNCHANGED <<job, saveTree, onDisk>>
      BY <2>6 DEF ToolPut, outputVars
    <3>5. QED
      BY <3>1, <3>2, <3>3, <3>4
  <2>7. QED
    BY <2>1, <2>2, <2>3, <2>4, <2>5, <2>6 DEF Taking, Putting
<1>2. CASE \/ ArrayTaken \/ UNCHANGED vars \/ ReaderGetEntry \/ ReaderNewPill \/ ReaderReturn
           \/ \E w \in Workers : WorkerSetRawEvent(w) \/ WorkerFillTracklets(w)
  BY <1>2 DEF ArrayTaken, vars, ReaderGetEntry, ReaderNewPill, ReaderReturn, outputVars,
              WorkerSetRawEvent, WorkerFillTracklets
<1>3. CASE ReaperCountPill \/ ReaperPostCompletedEvent
  BY <1>3 DEF ReaperCountPill, ReaperPostCompletedEvent
<1>4. CASE MainStep
  <2>1. CASE startReaderThread \/ startReaperThread
             \/ \E w \in Workers : startWorkerThread(w)
    BY <2>1 DEF startReaderThread, startReaperThread, startWorkerThread, Start, outputVars
  <2>2. CASE \/ Join({Reader}, "joinReader", "joinReaper")
             \/ Join({Reaper}, "joinReaper", "joinWorkers")
             \/ Join(Workers, "joinWorkers", "returned")
             \/ Destroy
    BY <2>2 DEF Join, Destroy, outputVars
  <2>3. QED
    BY <1>4, <2>1, <2>2 DEF MainStep
<1>5. QED
  BY <1>1, <1>2, <1>3, <1>4, Moves DEF LocalStep

\* The reaper writes its job, which is full and has not been written.
LEMMA FillOutput ==
  ASSUME Q!TypeOK, Control, JobsOwned, JobData, JobContents, ArraysEmpty, Output, ReaperFill
  PROVE  Output'
<1> USE Constants
<1> DEFINE d == job[Reaper]
           new == [rawEvent        |-> d,
                   outputTracklets |-> [n \in 1..NTracklets[d] |-> d],
                   nTracklets      |-> NTracklets[d]]
<1>1. /\ pc[Reaper] = "fill" /\ d \in Events /\ d \in JobsHeld[Reaper]
      /\ jobs[d] # NULL /\ jobs[d].tracklets \in Arrays
      /\ jobs[d].evData = d /\ raw[d] = d /\ d < entry
  BY ReapedJob DEF ReaperFill, JobData
<1>2. d \in Fulls
  BY <1>1 DEF JobContents, Before
<1>3. saveTree' = Append(saveTree, new)
  BY <1>1, <1>2 DEF ReaperFill, Fulls
<1>4. /\ new \in OutputEntry
      /\ new.rawEvent = d
  <2>1. NTracklets[d] \in Nat
    BY <1>1, KSchedulerAssumption
  <2>2. [n \in 1..NTracklets[d] |-> d] \in Seq(Events)
    BY <1>1, <2>1
  <2>3. QED
    BY <1>1, <2>1, <2>2 DEF OutputEntry
<1>5. saveTree \in Seq(OutputEntry) /\ OutputExact
  BY DEF Output
<1> DEFINE n == Len(saveTree)
<1>6. /\ n \in Nat /\ Len(saveTree') = n + 1
      /\ \A i \in 1..n : saveTree'[i] = saveTree[i]
      /\ saveTree'[n + 1] = new
  <2> HIDE DEF new, n
  <2>1. QED
    BY <1>3, <1>4, <1>5, AppendItems DEF n
<1>7. /\ pc'[Reaper] = "delete" /\ job' = job /\ jobs' = jobs /\ entry' = entry
  BY DEF ReaperFill, GoTo, Control, Locals, dataVars, readerVars
<1>8. \A i \in 1..n : saveTree[i].rawEvent # d
  BY <1>1 DEF Output
<1>9. saveTree' \in Seq(OutputEntry)
  BY <1>3, <1>4, <1>5
<1>14. new = [rawEvent        |-> d,
              outputTracklets |-> [k \in 1..NTracklets[d] |-> d],
              nTracklets      |-> NTracklets[d]]
  OBVIOUS
<1> HIDE DEF new, n
<1>10. ASSUME NEW i \in 1..Len(saveTree')
       PROVE  \/ i \in 1..n /\ saveTree'[i] = saveTree[i]
              \/ i = n + 1 /\ saveTree'[i] = new
  BY <1>6
<1>11. WrittenOnce'
  <2>1. ASSUME NEW i \in 1..Len(saveTree'), NEW j \in 1..Len(saveTree'),
               saveTree'[i].rawEvent = saveTree'[j].rawEvent
        PROVE  i = j
    <3>1. CASE i \in 1..n /\ j \in 1..n
      BY <1>5, <1>6, <2>1, <3>1 DEF OutputExact, WrittenOnce, n
    <3>2. CASE i \in 1..n /\ j = n + 1
      BY <1>4, <1>6, <1>8, <2>1, <3>2
    <3>3. CASE i = n + 1 /\ j \in 1..n
      BY <1>4, <1>6, <1>8, <2>1, <3>3
    <3>4. QED
      BY <1>10, <3>1, <3>2, <3>3
  <2>2. QED
    BY <2>1 DEF WrittenOnce
<1>12. WrittenFaithfully'
  <2>1. ASSUME NEW i \in 1..Len(saveTree')
        PROVE  LET e == saveTree'[i].rawEvent
               IN /\ e \in Events
                  /\ saveTree'[i] = [rawEvent        |-> e,
                                     outputTracklets |-> [k \in 1..NTracklets[e] |-> e],
                                     nTracklets      |-> NTracklets[e]]
    <3>1. CASE i \in 1..n /\ saveTree'[i] = saveTree[i]
      BY <1>5, <3>1 DEF OutputExact, WrittenFaithfully, n
    <3>2. CASE saveTree'[i] = new
      BY <1>1, <1>4, <1>14, <3>2
    <3>3. QED
      BY <1>10, <3>1, <3>2
  <2>2. QED
    BY <2>1 DEF WrittenFaithfully
<1>13. ASSUME NEW i \in 1..Len(saveTree')
       PROVE  /\ saveTree'[i].rawEvent < entry'
              /\ jobs'[saveTree'[i].rawEvent] # NULL =>
                   pc'[Reaper] = "delete" /\ job'[Reaper] = saveTree'[i].rawEvent
  <2>1. CASE i \in 1..n /\ saveTree'[i] = saveTree[i]
    BY <1>1, <1>7, <2>1 DEF Output, n
  <2>2. CASE saveTree'[i] = new
    BY <1>1, <1>4, <1>7, <2>2
  <2>3. QED
    BY <1>10, <2>1, <2>2
<1>15. QED
  BY <1>9, <1>11, <1>12, <1>13 DEF Output, OutputExact

\* Every step keeps the output exact.
LEMMA NextOutput ==
  ASSUME Q!TypeOK, Control, JobsOwned, JobData, JobContents, ArraysEmpty, Output, [Next]_vars
  PROVE  Output'
<1> USE Constants
<1>1. ASSUME ~ReaperFill
      PROVE  Output'
  <2>1. saveTree' = saveTree
    <3>1. CASE ReaperDelete \/ ReaperClose
      BY <3>1 DEF ReaperDelete, ReaperClose, outputVars
    <3>2. QED
      BY <1>1, <3>1, ReaperWaits
  <2>2. entry \in Int /\ entry' \in Int /\ entry' >= entry
    <3>1. entry \in Int
      BY DEF Control, Locals
    <3>2. entry' = entry \/ entry' = entry + 1
      BY DEF Next, vars, ReaderStep, WorkerStep, ReaperStep, MainStep, Terminated,
             ReaderGetEntry, ReaderTakeArray, ReaderPutJob, ReaderNewPill, ReaderPutPill,
             ReaderReturn, WorkerTakeJob, WorkerTakeReducer, WorkerPutReducer,
             WorkerTakeTracker, WorkerSetRawEvent, WorkerFillTracklets, WorkerPutTracker,
             WorkerPutJob, WorkerPutPill, ReaperTakeJob, ReaperCountPill, ReaperFill,
             ReaperDelete, ReaperPutArray, ReaperPostCompletedEvent, ReaperClose,
             startReaderThread, startReaperThread, startWorkerThread, Start, Join, Destroy,
             TakeJob, PutJob, TakeTool, PutTool, readerVars
    <3>3. QED
      BY <3>1, <3>2
  <2>3. ASSUME NEW i \in 1..Len(saveTree)
        PROVE  /\ saveTree[i].rawEvent < entry'
               /\ jobs'[saveTree[i].rawEvent] # NULL =>
                    pc'[Reaper] = "delete" /\ job'[Reaper] = saveTree[i].rawEvent
    <3> DEFINE e == saveTree[i].rawEvent
    <3>1. e \in Events /\ e < entry /\ e \in Int
      BY DEF Output, OutputExact, WrittenFaithfully
    <3>2. jobs[e] # NULL => pc[Reaper] = "delete" /\ job[Reaper] = e
      BY DEF Output
    <3> HIDE DEF e
    <3>3. ASSUME jobs'[e] # NULL
          PROVE  pc'[Reaper] = "delete" /\ job'[Reaper] = e
      <4>1. jobs[e] # NULL
        BY <2>2, <3>1, <3>3, NewJobs
      <4>2. pc[Reaper] = "delete" /\ job[Reaper] = e
        BY <3>2, <4>1
      <4>3. ~ReaperDelete
        BY <3>1, <3>3, <4>2 DEF ReaperDelete, JobData
      <4>4. ~ReaperClose
        BY <4>2 DEF ReaperClose
      <4>5. QED
        BY <1>1, <4>2, <4>3, <4>4, ReaperWaits
    <3>4. QED
      BY <2>2, <3>1, <3>3 DEF e
  <2>4. OutputExact'
    BY <2>1 DEF Output, OutputExact, WrittenOnce, WrittenFaithfully
  <2>5. QED
    BY <2>1, <2>3, <2>4 DEF Output
<1>2. QED
  BY <1>1, FillOutput

\* The next multiple of s after m.
LEMMA NextMultiple ==
  ASSUME NEW m \in Nat, NEW s \in Nat, s > 0, m % s = 0
  PROVE  (m + s) % s = 0
<1> DEFINE p == (m + s) \div s
           r == (m + s) % s
           k == m \div s
           j == k + 1 - p
<1>1. m = k * s + (m % s) /\ k \in Int
  OBVIOUS
<1>2. m + s = p * s + r /\ p \in Int /\ r \in 0..(s - 1)
  OBVIOUS
<1> HIDE DEF p, r, k
<1>3. j \in Int /\ r = j * s
  BY <1>1, <1>2
<1> HIDE DEF j
<1>4. j >= 1 => j * s >= s
  BY <1>3
<1>5. j <= -1 => j * s < 0
  BY <1>3
<1>6. j = 0
  BY <1>2, <1>3, <1>4, <1>5
<1>7. r = 0
  BY <1>3, <1>6
<1>8. QED
  BY <1>7 DEF r

\* Every step loses fewer than SAVENUM written entries.
LEMMA NextOnDisk ==
  ASSUME Control, saveTree \in Seq(OutputEntry), OnDisk, [Next]_vars
  PROVE  OnDisk'
<1> USE Constants
<1> DEFINE n == Len(saveTree)
<1>1. n \in Nat /\ onDisk \in Nat /\ SAVENUM \in Nat /\ SAVENUM > 0
  BY KSchedulerAssumption DEF OnDisk
<1>2. CASE ReaperFill
  <2>1. /\ pc[Reaper] = "fill" /\ pc'[Reaper] = "delete"
        /\ Len(saveTree') = n + 1
        /\ onDisk' = IF Len(saveTree') % SAVENUM = 0 THEN Len(saveTree') ELSE onDisk
    <3>1. PICK x : saveTree' = Append(saveTree, x)
      BY <1>2 DEF ReaperFill
    <3>2. Len(Append(saveTree, x)) = n + 1
      OBVIOUS
    <3>3. QED
      BY <1>2, <3>1, <3>2 DEF ReaperFill, GoTo, Control, Locals
  <2>2. onDisk % SAVENUM = 0 /\ n - onDisk \in 0..(SAVENUM - 1)
    BY <2>1 DEF OnDisk, BoundedLoss
  <2> HIDE DEF n
  <2>3. CASE (n + 1) % SAVENUM = 0
    BY <1>1, <2>1, <2>3 DEF OnDisk, BoundedLoss
  <2>4. CASE (n + 1) % SAVENUM # 0
    <3>1. n + 1 # onDisk + SAVENUM
      BY <1>1, <2>2, <2>4, NextMultiple
    <3>2. n + 1 - onDisk \in 0..(SAVENUM - 1)
      BY <1>1, <2>2, <3>1
    <3>3. onDisk' = onDisk
      BY <2>1, <2>4
    <3>4. QED
      BY <1>1, <2>1, <2>2, <3>2, <3>3 DEF OnDisk, BoundedLoss
  <2>5. QED
    BY <2>3, <2>4
<1>3. CASE ReaperClose
  <2>1. saveTree' = saveTree /\ onDisk' = n /\ pc'[Reaper] = "done"
    BY <1>3 DEF ReaperClose, GoTo, Control, Locals
  <2>2. QED
    BY <1>1, <2>1 DEF OnDisk, BoundedLoss
<1>4. CASE ReaperDelete
  <2>1. UNCHANGED <<saveTree, onDisk>> /\ pc[Reaper] = "delete" /\ pc'[Reaper] = "putArray"
    BY <1>4 DEF ReaperDelete, GoTo, Control, Locals, outputVars
  <2>2. QED
    BY <2>1 DEF OnDisk, BoundedLoss
<1>5. CASE ~ReaperDelete /\ ~ReaperFill /\ ~ReaperClose
  <2>1. /\ UNCHANGED <<saveTree, onDisk>>
        /\ pc'[Reaper] = "done" <=> pc[Reaper] = "done"
    BY <1>5, ReaperWaits
  <2>2. QED
    BY <2>1 DEF OnDisk, BoundedLoss
<1>6. QED
  BY <1>2, <1>3, <1>4, <1>5

-----------------------------------------------------------------------------
(***************************************************************************)
(* How it ends.  Nothing gets lost: a job that exists is in some pipe or   *)
(* hand, a reducer, a tracker or an array in some pool, hand or job, and   *)
(* an event that has been read is in a job or written.  The pills are      *)
(* counted and come last: none leaves a pipe before the events that were   *)
(* put before it, so that no thread stops while there is work for it.      *)
(***************************************************************************)

-----------------------------------------------------------------------------
(* Nothing gets lost *)

\* The pointer to a job is cleared where a thread has none.
NoJob == {"unborn", "loop", "takeJob", "done", "close", "putArray", "postCompletedEvent"}

Cleared ==
  /\ \A t \in Threads : pc[t] \in NoJob => job[t] = NULL
  /\ pc[Reader] = "takeArray" => jobs[job[Reader]].tracklets = NULL

\* What is in a hand or in a pipe, in a hand or in a pool, or, an array, in a job.
JobsAt == {e \in Events :
  \/ \E t \in Threads : e \in JobsHeld[t]
  \/ \E q \in Pipes : \E i \in 1..Len(queue[q]) : queue[q][i] = e}

ToolsAt == [q \in Pools |-> {x \in Pool[q] :
  \/ \E t \in Threads : x \in ToolsHeld[q][t]
  \/ \E i \in 1..Len(queue[q]) : queue[q][i] = x
  \/ q = ArrayPool /\ \E e \in Events : jobs[e] # NULL /\ jobs[e].tracklets = x}]

\* A job that exists is in its place, an object of a pool as well ...
Placed ==
  /\ \A e \in Events : jobs[e] # NULL => e \in JobsAt
  /\ \A q \in Pools : Pool[q] \subseteq ToolsAt[q]

\* ... and an event that has been read in a job or in the output.
EventsKept ==
  /\ \A e \in Events : e < entry => jobs[e] # NULL \/ e \in Written
  /\ pc[Reaper] = "delete" => job[Reaper] \in Written
  /\ completedEvents + (IF pc[Reaper] \in {"delete", "putArray", "postCompletedEvent"}
                        THEN 1 ELSE 0) = Len(saveTree)

-----------------------------------------------------------------------------
(* Pills *)

\* The places of the pills in the pipes.
PillsIn == [q \in Pipes |-> PlacesOf(POISON, queue[q])]

\* The workers that have taken their pill, and those that have passed it on.
Takers == {w \in Workers :
  \/ pc[w] \in {"putPill", "done"}
  \/ pc[w] = "takeJob" /\ step[w] = "takePost" /\ item[w] = POISON}

Passed == {w \in Workers : pc[w] = "done" \/ (pc[w] = "putPill" /\ step[w] = "putPost")}

\* The pills in the hand of the reader and in that of the reaper.
ReaderPill == IF pc[Reader] = "putPill" /\ step[Reader] # "putPost" THEN 1 ELSE 0

ReaperPill == IF \/ pc[Reaper] = "countPill"
                 \/ pc[Reaper] = "takeJob" /\ step[Reaper] = "takePost" /\ item[Reaper] = POISON
              THEN 1 ELSE 0

\* Each pill is in one place.
PillsCounted ==
  /\ pills = ReaderPill + Cardinality(PillsIn["newJobQueue"]) + Cardinality(Takers)
  /\ Cardinality(Passed) = poisonPills + ReaperPill + Cardinality(PillsIn["cmpJobQueue"])
  /\ pc[Reader] = "done" => pills = NTHREADS
  /\ pc[Reaper] \in {"close", "done"} => poisonPills = NTHREADS

\* No event comes after a pill in the first pipe, ...
PillsLast ==
  /\ pills > 0 => entry = NEvents /\ pc[Reader] \in {"loop", "putPill", "done"}
  /\ pills = 0 => pc[Reader] # "putPill" /\ PillsIn["newJobQueue"] = {} /\ Takers = {}
  /\ \A i, j \in 1..Len(queue["newJobQueue"]) :
       i < j /\ i \in PillsIn["newJobQueue"] => j \in PillsIn["newJobQueue"]
  /\ Takers # {} => PillsIn["newJobQueue"] = 1..Len(queue["newJobQueue"])

\* ... and in the second one the last pill comes after every event.
PillBehind ==
  \A i \in 1..Len(queue["cmpJobQueue"]) :
    Passed = Workers => \E j \in PillsIn["cmpJobQueue"] : i <= j

Pills == PillsCounted /\ PillsLast /\ PillBehind

\* runThreads() goes on when the threads have ended.
Joined ==
  /\ pc[Main] \in {"joinReaper", "joinWorkers", "returned", "destroyed"} => pc[Reader] = "done"
  /\ pc[Main] \in {"joinWorkers", "returned", "destroyed"} => pc[Reaper] = "done"
  /\ pc[Main] \in {"returned", "destroyed"} => \A w \in Workers : pc[w] = "done"


-----------------------------------------------------------------------------
\* A step that moves no pill.
LEMMA PillsKept ==
  ASSUME Pills, UNCHANGED <<pills, poisonPills>>,
         \A q \in Pipes : queue'[q] = queue[q],
         Takers' = Takers, Passed' = Passed,
         ReaderPill' = ReaderPill, ReaperPill' = ReaperPill,
         pills > 0 => entry' = entry,
         pills > 0 /\ pc[Reader] \in {"loop", "putPill", "done"}
           => pc'[Reader] \in {"loop", "putPill", "done"},
         pc'[Reader] = "putPill" => pc[Reader] = "putPill",
         pc'[Reader] = "done" => pc[Reader] = "done" \/ pills = NTHREADS,
         pc'[Reaper] \in {"close", "done"} => pc[Reaper] \in {"close", "done"}
  PROVE  Pills'
<1>1. /\ queue'["newJobQueue"] = queue["newJobQueue"]
      /\ queue'["cmpJobQueue"] = queue["cmpJobQueue"]
  BY DEF Pipes
<1>2. PillsIn' = PillsIn
  BY DEF PillsIn
<1>3. PillsCounted'
  BY <1>2 DEF Pills, PillsCounted
<1>4. PillsLast'
  BY <1>1, <1>2 DEF Pills, PillsLast
<1>5. PillBehind'
  BY <1>1, <1>2 DEF Pills, PillBehind
<1>6. QED
  BY <1>3, <1>4, <1>5 DEF Pills

\* The pills are counted with natural numbers.
LEMMA PillNumbers ==
  ASSUME Q!TypeOK, Control
  PROVE  /\ IsFiniteSet(Takers) /\ Cardinality(Takers) \in Nat
         /\ IsFiniteSet(Passed) /\ Cardinality(Passed) \in Nat
         /\ \A q \in Pipes : Cardinality(PillsIn[q]) \in Nat
         /\ ReaderPill \in 0..1 /\ ReaperPill \in 0..1
         /\ pills \in Nat /\ poisonPills \in Nat /\ NTHREADS \in Nat
<1> USE Constants
<1>1. IsFiniteSet(Workers) /\ NTHREADS \in Nat
  BY KSchedulerAssumption, FS_CardinalityType DEF NTHREADS
<1>2. Takers \in SUBSET Workers /\ Passed \in SUBSET Workers
  BY DEF Takers, Passed
<1>3. \A q \in Pipes : queue[q] \in Seq(Items)
  BY DEF Q!TypeOK
<1>4. \A q \in Pipes : Cardinality(PlacesOf(POISON, queue[q])) \in Nat
  BY <1>3, PlacesFinite
<1>5. pills \in Nat /\ poisonPills \in Nat
  BY <1>1 DEF Control, Locals
<1>6. QED
  BY <1>1, <1>2, <1>4, <1>5, FS_Subset, FS_CardinalityType DEF PillsIn, ReaderPill, ReaperPill

\* A worker takes its pill, after which no event is left in the first pipe, or the
\* reaper takes one.
LEMMA TakingPills ==
  ASSUME Q!TypeOK, Front, Control, Pills,
         NEW t \in Threads, NEW q \in AllQueues, Taking(t, q)
  PROVE  Pills'
<1> USE Constants DEF Taking, privateVars, Q!TypeOK
<1>0. Pipes \cap Pools = {} /\ AllQueues = Pipes \cup Pools
  BY DEF Pipes, Pools, AllQueues
<1>1. CASE Q!TakeWait(t, q) \/ Q!TakeFront(t, q)
  <2>1. step' \in [Threads -> Q!Steps] /\ \A u \in Threads : step'[u] # step[u] =>
          step'[u] \in {"takeLock", "takePop"} /\ step[u] \in {"idle", "takeLock"}
    <3>1. step \in [Threads -> Q!Steps] /\ t \in Threads
      OBVIOUS
    <3>2. \/ step[t] = "idle" /\ step' = [step EXCEPT ![t] = "takeLock"]
          \/ step[t] = "takeLock" /\ step' = [step EXCEPT ![t] = "takePop"]
      BY <1>1 DEF Q!TakeWait, Q!TakeFront, Q!Goto, Q!At
    <3>3. QED
      BY ONLY <3>1, <3>2 DEF Q!Steps
  <2>2. \A u \in Threads : item'[u] # item[u] => step'[u] = "takePop"
    BY <1>1 DEF Q!TakeWait, Q!TakeFront, Q!Goto, Q!At
  <2>3. UNCHANGED <<pc, pills, poisonPills, entry, queue>>
    BY <1>1 DEF Q!TakeWait, Q!TakeFront
  <2>4. Takers' = Takers /\ Passed' = Passed
    <3>1. \A u \in Threads :
            /\ step'[u] = "putPost" <=> step[u] = "putPost"
            /\ step'[u] = "takePost" <=> step[u] = "takePost"
            /\ step[u] = "takePost" => item'[u] = item[u]
      BY <2>1, <2>2
    <3>2. Workers \subseteq Threads
      BY DEF Threads
    <3>3. QED
      BY <2>3, <3>1, <3>2 DEF Takers, Passed
  <2>5. ReaderPill' = ReaderPill /\ ReaperPill' = ReaperPill
    BY <2>1, <2>2, <2>3 DEF ReaderPill, ReaperPill
  <2>6. QED
    BY <2>3, <2>4, <2>5, PillsKept
<1>2. CASE Q!TakePop(t, q)
  <2>1. /\ queue[q] # <<>> /\ queue[q] \in Seq(Items) /\ item[t] = Head(queue[q])
        /\ opq[t] = q /\ step[t] = "takePop"
    BY <1>2 DEF Front, Q!TakePop, Q!At
  <2>2. /\ step' = [step EXCEPT ![t] = "takePost"]
        /\ queue' = [queue EXCEPT ![q] = Tail(@)]
        /\ opq' = opq /\ item' = item
        /\ UNCHANGED <<pc, pills, poisonPills, entry>>
    BY <1>2 DEF Q!TakePop, Q!Goto
  <2>3. queue'[q] = Tail(queue[q]) /\ \A p \in AllQueues \ {q} : queue'[p] = queue[p]
    BY <1>0, <2>2
  <2>4. Passed' = Passed /\ ReaderPill' = ReaderPill
    BY <2>1, <2>2 DEF Passed, ReaderPill
  <2>5. CASE q \in Pools
    <3>1. Takers' = Takers /\ ReaperPill' = ReaperPill
      BY <1>0, <2>1, <2>2, <2>5 DEF Takers, ReaperPill, TakesAt, Pools
    <3>2. QED
      BY <1>0, <2>2, <2>3, <2>4, <2>5, <3>1, PillsKept
  <2>6. CASE q = "newJobQueue"
    <3>1. t \in Workers /\ pc[t] = "takeJob"
      BY <2>6 DEF TakesAt
    <3>2. ReaperPill' = ReaperPill /\ queue'["cmpJobQueue"] = queue["cmpJobQueue"]
      BY <2>1, <2>2, <2>3, <2>6, <3>1 DEF ReaperPill, Pipes, AllQueues
    <3>3. PillsIn'["cmpJobQueue"] = PillsIn["cmpJobQueue"]
      BY <3>2 DEF PillsIn, Pipes
    <3> DEFINE new == queue["newJobQueue"]
    <3>4. /\ PillsIn["newJobQueue"] = PlacesOf(POISON, new)
          /\ PillsIn'["newJobQueue"] = PlacesOf(POISON, Tail(new))
      BY <2>3, <2>6 DEF PillsIn, Pipes
    <3>5. /\ PillsIn'["newJobQueue"] =
               {i \in 1..Len(Tail(new)) : i + 1 \in PillsIn["newJobQueue"]}
          /\ Cardinality(PillsIn'["newJobQueue"]) =
               Cardinality(PillsIn["newJobQueue"]) - IF item[t] = POISON THEN 1 ELSE 0
      BY <2>1, <2>6, <3>4, PlacesOfTail
    <3>6. /\ 1 \in 1..Len(new) /\ Head(new) = new[1] /\ Len(new) \in Nat
          /\ Len(Tail(new)) = Len(new) - 1
      BY <2>1, <2>6, TailItems
    <3>7. item[t] = POISON <=> 1 \in PillsIn["newJobQueue"]
      BY <2>1, <2>6, <3>4, <3>6 DEF PlacesOf
    <3>8. Takers' = IF item[t] = POISON THEN Takers \cup {t} ELSE Takers
      BY <2>1, <2>2, <3>1 DEF Takers
    <3>9. t \notin Takers
      BY <2>1, <3>1 DEF Takers
    <3>10. Cardinality(Takers') = Cardinality(Takers) + IF item[t] = POISON THEN 1 ELSE 0
      <4>1. IsFiniteSet(Takers) /\ Cardinality(Takers) \in Nat
        BY PillNumbers
      <4>2. Cardinality(Takers \cup {t}) = Cardinality(Takers) + 1
        BY <3>9, <4>1, FS_AddElement
      <4>3. QED
        BY <3>8, <4>1, <4>2
    <3>11. PillsCounted'
      <4>1. /\ pills = ReaderPill + Cardinality(PillsIn["newJobQueue"]) + Cardinality(Takers)
            /\ Cardinality(Takers) \in Nat /\ Cardinality(PillsIn["newJobQueue"]) \in Nat
            /\ ReaderPill \in Nat
        BY PillNumbers DEF Pills, PillsCounted, Pipes
      <4>2. pills' = ReaderPill' + Cardinality(PillsIn'["newJobQueue"]) + Cardinality(Takers')
        BY <2>2, <2>4, <3>5, <3>10, <4>1
      <4>3. QED
        BY <2>2, <2>4, <3>2, <3>3, <4>2 DEF Pills, PillsCounted
    <3>12. PillsLast'
      <4>1. queue'["newJobQueue"] = Tail(new)
        BY <2>3, <2>6
      <4>2. \A i, j \in 1..Len(Tail(new)) :
              i < j /\ i \in PillsIn'["newJobQueue"] => j \in PillsIn'["newJobQueue"]
        <5>1. \A i \in 1..Len(Tail(new)) : i + 1 \in 1..Len(new)
          BY <3>6
        <5>2. \A i, j \in 1..Len(new) :
                i < j /\ i \in PillsIn["newJobQueue"] => j \in PillsIn["newJobQueue"]
          BY DEF Pills, PillsLast
        <5>3. \A i, j \in 1..Len(Tail(new)) : i < j => i + 1 < j + 1
          BY <3>6
        <5>4. QED
          BY <3>5, <5>1, <5>2, <5>3
      <4>3. Takers' # {} => PillsIn'["newJobQueue"] = 1..Len(Tail(new))
        <5>1. ASSUME Takers' # {}
              PROVE  \A i \in 1..Len(new) : i > 1 => i \in PillsIn["newJobQueue"]
          <6>1. CASE item[t] = POISON
            BY <3>6, <3>7, <6>1 DEF Pills, PillsLast
          <6>2. CASE item[t] # POISON
            BY <3>8, <5>1, <6>2 DEF Pills, PillsLast
          <6>3. QED
            BY <6>1, <6>2
        <5>2. \A i \in 1..Len(Tail(new)) : i + 1 \in 1..Len(new) /\ i + 1 > 1
          BY <3>6
        <5>3. QED
          BY <3>5, <5>1, <5>2
      <4>4. pills = 0 => Takers' = {} /\ PillsIn'["newJobQueue"] = {}
        <5>1. pills = 0 => Takers = {} /\ PillsIn["newJobQueue"] = {}
          BY DEF Pills, PillsLast
        <5>2. QED
          BY <3>5, <3>7, <3>8, <5>1
      <4>5. QED
        BY <2>2, <4>1, <4>2, <4>3, <4>4 DEF Pills, PillsLast
    <3>13. PillBehind'
      BY <2>4, <3>2, <3>3 DEF Pills, PillBehind
    <3>14. QED
      BY <3>11, <3>12, <3>13 DEF Pills
  <2>7. CASE q = "cmpJobQueue"
    <3>1. t = Reaper /\ pc[t] = "takeJob"
      BY <2>7 DEF TakesAt
    <3>2. Takers' = Takers /\ queue'["newJobQueue"] = queue["newJobQueue"]
      BY <2>1, <2>2, <2>3, <2>7, <3>1 DEF Takers, Pipes, AllQueues
    <3>3. PillsIn'["newJobQueue"] = PillsIn["newJobQueue"]
      BY <3>2 DEF PillsIn, Pipes
    <3> DEFINE cmp == queue["cmpJobQueue"]
    <3>4. /\ PillsIn["cmpJobQueue"] = PlacesOf(POISON, cmp)
          /\ PillsIn'["cmpJobQueue"] = PlacesOf(POISON, Tail(cmp))
      BY <2>3, <2>7 DEF PillsIn, Pipes
    <3>5. /\ PillsIn'["cmpJobQueue"] =
               {i \in 1..Len(Tail(cmp)) : i + 1 \in PillsIn["cmpJobQueue"]}
          /\ Cardinality(PillsIn'["cmpJobQueue"]) =
               Cardinality(PillsIn["cmpJobQueue"]) - IF item[t] = POISON THEN 1 ELSE 0
      BY <2>1, <2>7, <3>4, PlacesOfTail
    <3>6. /\ Len(cmp) \in Nat /\ Len(Tail(cmp)) = Len(cmp) - 1
      BY <2>1, <2>7, TailItems
    <3>7. ReaperPill = 0 /\ ReaperPill' = IF item[t] = POISON THEN 1 ELSE 0
      BY <2>1, <2>2, <3>1 DEF ReaperPill
    <3>8. PillsCounted'
      <4>1. /\ Cardinality(Passed) = poisonPills + ReaperPill + Cardinality(PillsIn["cmpJobQueue"])
            /\ poisonPills \in Nat /\ Cardinality(PillsIn["cmpJobQueue"]) \in Nat
        BY PillNumbers DEF Pills, PillsCounted, Pipes
      <4>2. Cardinality(Passed') = poisonPills' + ReaperPill' + Cardinality(PillsIn'["cmpJobQueue"])
        BY <2>2, <2>4, <3>5, <3>7, <4>1
      <4>3. QED
        BY <2>2, <2>4, <3>2, <3>3, <4>2 DEF Pills, PillsCounted
    <3>9. PillsLast'
      BY <2>2, <2>4, <3>2, <3>3 DEF Pills, PillsLast
    <3>10. PillBehind'
      <4>1. queue'["cmpJobQueue"] = Tail(cmp)
        BY <2>3, <2>7
      <4>2. ASSUME NEW i \in 1..Len(Tail(cmp)), Passed = Workers
            PROVE  \E j \in PillsIn'["cmpJobQueue"] : i <= j
        <5>1. i + 1 \in 1..Len(cmp)
          BY <3>6
        <5>2. PICK k \in PillsIn["cmpJobQueue"] : i + 1 <= k
          BY <4>2, <5>1 DEF Pills, PillBehind
        <5>3. k \in 1..Len(cmp)
          BY <3>4 DEF PlacesOf
        <5>4. k - 1 \in 1..Len(Tail(cmp)) /\ (k - 1) + 1 = k /\ i <= k - 1
          BY <3>6, <5>2, <5>3
        <5>5. QED
          BY <3>5, <5>2, <5>4
      <4>3. QED
        BY <2>4, <4>1, <4>2 DEF PillBehind
    <3>11. QED
      BY <3>8, <3>9, <3>10 DEF Pills
  <2>8. QED
    BY <1>0, <2>5, <2>6, <2>7 DEF Pipes
<1>3. QED
  BY <1>1, <1>2 DEF Q!TakeInside

\* The reader or a worker puts its pill into a pipe.
LEMMA PuttingPills ==
  ASSUME Q!TypeOK, Control, Pills,
         NEW t \in Threads, NEW q \in AllQueues, NEW v, Putting(t, q, v)
  PROVE  Pills'
<1> USE Constants DEF Putting, privateVars, Q!TypeOK
<1>0. Pipes \cap Pools = {} /\ AllQueues = Pipes \cup Pools /\ Workers \subseteq Threads
  BY DEF Pipes, Pools, AllQueues, Threads
<1>1. CASE Q!PutWait(t, q, v) \/ Q!PutLock(t, q)
  <2>1. \A u \in Threads :
          /\ step'[u] = "putPost" <=> step[u] = "putPost"
          /\ step'[u] = "takePost" <=> step[u] = "takePost"
          /\ step[u] = "takePost" => item'[u] = item[u]
    BY <1>1 DEF Q!PutWait, Q!PutLock, Q!Goto, Q!At
  <2>2. UNCHANGED <<pc, pills, poisonPills, entry, queue>>
    BY <1>1 DEF Q!PutWait, Q!PutLock
  <2>3. Takers' = Takers /\ Passed' = Passed
    BY <1>0, <2>1, <2>2 DEF Takers, Passed
  <2>4. ReaderPill' = ReaderPill /\ ReaperPill' = ReaperPill
    BY <2>1, <2>2 DEF ReaderPill, ReaperPill
  <2>5. QED
    BY <2>2, <2>3, <2>4, PillsKept
<1>2. CASE Q!PutPush(t, q)
  <2>1. /\ opq[t] = q /\ step[t] = "putPush"
        /\ item[t] \in Items /\ queue[q] \in Seq(Items)
    BY <1>2 DEF Q!PutPush, Q!At
  <2>2. /\ step' = [step EXCEPT ![t] = "putPost"]
        /\ queue' = [queue EXCEPT ![q] = Append(@, item[t])]
        /\ opq' = opq /\ item' = item
        /\ UNCHANGED <<pc, pills, poisonPills, entry>>
    BY <1>2 DEF Q!PutPush, Q!Goto
  <2>3. /\ queue'[q] = Append(queue[q], item[t])
        /\ \A p \in AllQueues \ {q} : queue'[p] = queue[p]
    BY <1>0, <2>2
  <2>4. Takers' = Takers /\ ReaperPill' = ReaperPill
    BY <2>1, <2>2 DEF Takers, ReaperPill
  <2>5. CASE q \in Pools
    <3>1. Passed' = Passed /\ ReaderPill' = ReaderPill
      BY <1>0, <2>1, <2>2, <2>5 DEF Passed, ReaderPill, PutsAt, Pools
    <3>2. QED
      BY <1>0, <2>2, <2>3, <2>4, <2>5, <3>1, PillsKept
  <2>6. CASE q = "newJobQueue"
    <3>1. t = Reader /\ pc[t] \in {"putJob", "putPill"}
          /\ (item[t] = POISON <=> pc[t] = "putPill")
      BY <2>1, <2>6 DEF PutsAt, Control, InOperation, Pointers
    <3>2. Passed' = Passed /\ queue'["cmpJobQueue"] = queue["cmpJobQueue"]
      BY <2>1, <2>2, <2>3, <2>6, <3>1 DEF Passed, Pipes, AllQueues
    <3>3. PillsIn'["cmpJobQueue"] = PillsIn["cmpJobQueue"]
      BY <3>2 DEF PillsIn, Pipes
    <3> DEFINE new == queue["newJobQueue"]
    <3>4. /\ PillsIn["newJobQueue"] = PlacesOf(POISON, new)
          /\ PillsIn'["newJobQueue"] = PlacesOf(POISON, Append(new, item[t]))
      BY <2>3, <2>6 DEF PillsIn, Pipes
    <3>5. /\ PillsIn'["newJobQueue"] =
               IF item[t] = POISON THEN PillsIn["newJobQueue"] \cup {Len(new) + 1}
                                   ELSE PillsIn["newJobQueue"]
          /\ Cardinality(PillsIn'["newJobQueue"]) =
               Cardinality(PillsIn["newJobQueue"]) + IF item[t] = POISON THEN 1 ELSE 0
      <4>1. new \in Seq(Items) /\ item[t] \in Items
        BY <2>1, <2>6
      <4> HIDE DEF new
      <4>2. /\ PlacesOf(POISON, Append(new, item[t])) =
                 IF item[t] = POISON THEN PlacesOf(POISON, new) \cup {Len(new) + 1}
                                     ELSE PlacesOf(POISON, new)
            /\ Cardinality(PlacesOf(POISON, Append(new, item[t]))) =
                 Cardinality(PlacesOf(POISON, new)) + IF item[t] = POISON THEN 1 ELSE 0
        BY <4>1, PlacesOfAppend
      <4>3. QED
        BY <3>4, <4>2
    <3>6. /\ Len(new) \in Nat /\ Len(Append(new, item[t])) = Len(new) + 1
      BY <2>1, <2>6, AppendItems
    <3>7. ReaderPill' = 0 /\ ReaderPill = IF item[t] = POISON THEN 1 ELSE 0
      BY <2>1, <2>2, <3>1 DEF ReaderPill
    <3>8. PillsCounted'
      <4>1. /\ pills = ReaderPill + Cardinality(PillsIn["newJobQueue"]) + Cardinality(Takers)
            /\ Cardinality(Takers) \in Nat /\ Cardinality(PillsIn["newJobQueue"]) \in Nat
        BY PillNumbers DEF Pills, PillsCounted, Pipes
      <4>2. pills' = ReaderPill' + Cardinality(PillsIn'["newJobQueue"]) + Cardinality(Takers')
        BY <2>2, <2>4, <3>5, <3>7, <4>1
      <4>3. QED
        BY <2>2, <2>4, <3>2, <3>3, <4>2 DEF Pills, PillsCounted
    <3>9. PillsLast'
      <4>1. queue'["newJobQueue"] = Append(new, item[t])
        BY <2>3, <2>6
      <4>2. item[t] # POISON => pills = 0 /\ Takers = {} /\ PillsIn["newJobQueue"] = {}
        BY <3>1, PillNumbers DEF Pills, PillsLast
      <4>3. item[t] = POISON => pills # 0
        BY <3>1 DEF Pills, PillsLast
      <4>4. \A i \in 1..(Len(new) + 1) : i \in 1..Len(new) \/ i = Len(new) + 1
        BY <3>6
      <4>5. \A i, j \in 1..(Len(new) + 1) :
              i < j /\ i \in PillsIn'["newJobQueue"] => j \in PillsIn'["newJobQueue"]
        <5>1. CASE item[t] = POISON
          <6>1. \A i, j \in 1..Len(new) :
                  i < j /\ i \in PillsIn["newJobQueue"] => j \in PillsIn["newJobQueue"]
            BY DEF Pills, PillsLast
          <6>2. \A i \in 1..Len(new) : ~(Len(new) + 1 < i) /\ i # Len(new) + 1
            BY <3>6
          <6>3. QED
            BY <3>5, <3>6, <4>4, <5>1, <6>1, <6>2
        <5>2. CASE item[t] # POISON
          BY <3>5, <4>2, <5>2
        <5>3. QED
          BY <5>1, <5>2
      <4>6. Takers' # {} => PillsIn'["newJobQueue"] = 1..(Len(new) + 1)
        <5>1. ASSUME Takers' # {}
              PROVE  item[t] = POISON /\ PillsIn["newJobQueue"] = 1..Len(new)
          BY <2>4, <4>2, <5>1 DEF Pills, PillsLast
        <5>2. 1..(Len(new) + 1) = 1..Len(new) \cup {Len(new) + 1}
          BY <3>6
        <5>3. QED
          BY <3>5, <5>1, <5>2
      <4>7. QED
        BY <2>2, <2>4, <3>5, <3>6, <4>1, <4>2, <4>3, <4>5, <4>6 DEF Pills, PillsLast
    <3>10. PillBehind'
      BY <3>2, <3>3 DEF Pills, PillBehind
    <3>11. QED
      BY <3>8, <3>9, <3>10 DEF Pills
  <2>7. CASE q = "cmpJobQueue"
    <3>1. t \in Workers /\ pc[t] \in {"putJob", "putPill"}
          /\ (item[t] = POISON <=> pc[t] = "putPill")
      BY <2>1, <2>7 DEF PutsAt, Control, InOperation, Pointers
    <3>2. ReaderPill' = ReaderPill /\ queue'["newJobQueue"] = queue["newJobQueue"]
      BY <2>1, <2>2, <2>3, <2>7, <3>1 DEF ReaderPill, Pipes, AllQueues
    <3>3. PillsIn'["newJobQueue"] = PillsIn["newJobQueue"]
      BY <3>2 DEF PillsIn, Pipes
    <3> DEFINE cmp == queue["cmpJobQueue"]
    <3>4. /\ PillsIn["cmpJobQueue"] = PlacesOf(POISON, cmp)
          /\ PillsIn'["cmpJobQueue"] = PlacesOf(POISON, Append(cmp, item[t]))
      BY <2>3, <2>7 DEF PillsIn, Pipes
    <3>5. /\ PillsIn'["cmpJobQueue"] =
               IF item[t] = POISON THEN PillsIn["cmpJobQueue"] \cup {Len(cmp) + 1}
                                   ELSE PillsIn["cmpJobQueue"]
          /\ Cardinality(PillsIn'["cmpJobQueue"]) =
               Cardinality(PillsIn["cmpJobQueue"]) + IF item[t] = POISON THEN 1 ELSE 0
      <4>1. cmp \in Seq(Items) /\ item[t] \in Items
        BY <2>1, <2>7
      <4> HIDE DEF cmp
      <4>2. /\ PlacesOf(POISON, Append(cmp, item[t])) =
                 IF item[t] = POISON THEN PlacesOf(POISON, cmp) \cup {Len(cmp) + 1}
                                     ELSE PlacesOf(POISON, cmp)
            /\ Cardinality(PlacesOf(POISON, Append(cmp, item[t]))) =
                 Cardinality(PlacesOf(POISON, cmp)) + IF item[t] = POISON THEN 1 ELSE 0
        BY <4>1, PlacesOfAppend
      <4>3. QED
        BY <3>4, <4>2
    <3>6. /\ Len(cmp) \in Nat /\ Len(Append(cmp, item[t])) = Len(cmp) + 1
      BY <2>1, <2>7, AppendItems
    <3>7. /\ Passed' = IF item[t] = POISON THEN Passed \cup {t} ELSE Passed
          /\ t \notin Passed
      BY <2>1, <2>2, <3>1 DEF Passed
    <3>8. PillsCounted'
      <4>1. /\ Cardinality(Passed) = poisonPills + ReaperPill + Cardinality(PillsIn["cmpJobQueue"])
            /\ poisonPills \in Nat /\ Cardinality(PillsIn["cmpJobQueue"]) \in Nat
            /\ ReaperPill \in Nat
        BY PillNumbers DEF Pills, PillsCounted, Pipes
      <4>2. Cardinality(Passed') = Cardinality(Passed) + IF item[t] = POISON THEN 1 ELSE 0
        <5>1. IsFiniteSet(Passed) /\ Cardinality(Passed) \in Nat
          BY PillNumbers
        <5>2. Cardinality(Passed \cup {t}) = Cardinality(Passed) + 1
          BY <3>7, <5>1, FS_AddElement
        <5>3. QED
          BY <3>7, <5>1, <5>2
      <4>3. Cardinality(Passed') = poisonPills' + ReaperPill' + Cardinality(PillsIn'["cmpJobQueue"])
        BY <2>2, <2>4, <3>5, <4>1, <4>2
      <4>4. QED
        BY <2>2, <2>4, <3>2, <3>3, <4>3 DEF Pills, PillsCounted
    <3>9. PillsLast'
      BY <2>2, <2>4, <3>2, <3>3 DEF Pills, PillsLast
    <3>10. PillBehind'
      <4>1. queue'["cmpJobQueue"] = Append(cmp, item[t])
        BY <2>3, <2>7
      <4>2. CASE item[t] = POISON
        <5>1. Len(cmp) + 1 \in PillsIn'["cmpJobQueue"]
          BY <3>5, <4>2
        <5>2. \A i \in 1..Len(Append(cmp, item[t])) : i <= Len(cmp) + 1
          BY <3>6
        <5>3. QED
          BY <4>1, <5>1, <5>2 DEF PillBehind
      <4>3. CASE item[t] # POISON
        BY <3>1, <3>7, <4>3 DEF PillBehind
      <4>4. QED
        BY <4>2, <4>3
    <3>11. QED
      BY <3>8, <3>9, <3>10 DEF Pills
  <2>8. QED
    BY <1>0, <2>5, <2>6, <2>7 DEF Pipes
<1>3. QED
  BY <1>1, <1>2 DEF Q!PutInside

\* A queue operation that ends moves no pill: it is in the hand of who popped it, and
\* in the pipe since it was pushed.
LEMMA PostPills ==
  ASSUME Q!TypeOK, Control, Pills,
         NEW t \in Threads, NEW q \in AllQueues,
         \/ JobTaken(t, q) \/ JobPut(t, q) \/ ToolTaken(t, q) \/ ToolPut(t, q)
         \/ ArrayTaken /\ t = Reader /\ q = ArrayPool
  PROVE  Pills'
<1> USE Constants DEF Q!TypeOK, Q!TakePost, Q!PutPost, Q!Goto, Q!At
<1>0. Pipes \cap Pools = {} /\ AllQueues = Pipes \cup Pools /\ Workers \subseteq Threads
  BY DEF Pipes, Pools, AllQueues, Threads
<1>1. /\ UNCHANGED <<queue, pills, poisonPills, entry>>
      /\ step' = [step EXCEPT ![t] = "idle"] /\ item' = [item EXCEPT ![t] = NULL]
  <2>1. CASE JobTaken(t, q)
    BY <2>1 DEF JobTaken, readerVars, outputVars
  <2>2. CASE JobPut(t, q)
    BY <2>2 DEF JobPut, readerVars, outputVars
  <2>3. CASE ToolTaken(t, q)
    BY <2>3 DEF ToolTaken, readerVars, outputVars
  <2>4. CASE ToolPut(t, q)
    BY <2>4 DEF ToolPut, readerVars, outputVars
  <2>5. CASE ArrayTaken /\ t = Reader /\ q = ArrayPool
    BY <2>5 DEF ArrayTaken, readerVars, outputVars
  <2>6. QED
    BY <2>1, <2>2, <2>3, <2>4, <2>5
<1>2. \A u \in Threads \ {t} : pc'[u] = pc[u] /\ step'[u] = step[u] /\ item'[u] = item[u]
  <2>1. \A u \in Threads \ {t} : pc'[u] = pc[u]
    BY DEF JobTaken, JobPut, ToolTaken, ToolPut, ArrayTaken, GoTo, Control, Locals
  <2>2. QED
    BY <1>1, <2>1
<1>3. step'[t] = "idle"
  BY <1>1
<1>4. pc[t] # pc'[t] => pc'[t] \notin {"done", "close"} \/ (pc[t] = "putPill" /\ t \in Workers)
  BY DEF JobTaken, JobPut, ToolTaken, ToolPut, ArrayTaken, GoTo, Control, Locals, PutsAt,
         Pools, Pipes
<1>5. CASE JobTaken(t, q)
  <2>1. CASE t = Reaper
    <3>1. /\ pc[t] = "takeJob" /\ step[t] = "takePost"
          /\ pc'[t] = IF item[t] = POISON THEN "countPill" ELSE "fill"
      BY <1>5, <2>1 DEF JobTaken, TakesAt, GoTo, Control, Locals
    <3>2. ReaperPill' = ReaperPill
      BY <2>1, <3>1 DEF ReaperPill
    <3>3. Takers' = Takers /\ Passed' = Passed /\ ReaderPill' = ReaderPill
      BY <1>0, <1>2, <2>1 DEF Takers, Passed, ReaderPill
    <3>4. QED
      BY <1>1, <1>2, <2>1, <3>1, <3>2, <3>3, PillsKept
  <2>2. CASE t # Reaper
    <3>1. /\ t \in Workers /\ pc[t] = "takeJob" /\ step[t] = "takePost"
          /\ pc'[t] = IF item[t] = POISON THEN "putPill" ELSE "takeReducer"
      BY <1>0, <1>5, <2>2 DEF JobTaken, TakesAt, GoTo, Control, Locals, Pipes
    <3>2. Takers' = Takers
      BY <1>0, <1>2, <1>3, <3>1 DEF Takers
    <3>3. Passed' = Passed
      BY <1>0, <1>2, <1>3, <3>1 DEF Passed
    <3>4. ReaderPill' = ReaderPill /\ ReaperPill' = ReaperPill
      BY <1>2, <3>1 DEF ReaderPill, ReaperPill
    <3>5. QED
      BY <1>1, <1>2, <3>1, <3>2, <3>3, <3>4, PillsKept
  <2>3. QED
    BY <2>1, <2>2
<1>6. CASE JobPut(t, q)
  <2>1. /\ step[t] = "putPost"
        /\ pc'[t] = IF t = Reader THEN "loop" ELSE IF pc[t] = "putJob" THEN "takeJob" ELSE "done"
        /\ t \in Workers \cup {Reader} /\ pc[t] \in {"putJob", "putPill"}
    BY <1>0, <1>6 DEF JobPut, PutsAt, GoTo, Control, Locals, Pipes
  <2>2. Takers' = Takers /\ Passed' = Passed
    BY <1>0, <1>2, <1>3, <2>1 DEF Takers, Passed
  <2>3. ReaderPill' = ReaderPill /\ ReaperPill' = ReaperPill
    BY <1>2, <1>3, <2>1 DEF ReaderPill, ReaperPill
  <2>4. QED
    BY <1>1, <1>2, <2>1, <2>2, <2>3, PillsKept
<1>7. CASE ToolTaken(t, q) \/ ToolPut(t, q) \/ (ArrayTaken /\ t = Reader /\ q = ArrayPool)
  <2>1. /\ pc[t] \in {"takeReducer", "takeTracker", "takeArray", "putReducer", "putTracker",
                      "putArray"}
        /\ pc'[t] \in {"putReducer", "setRawEvent", "putJob", "takeTracker",
                       "postCompletedEvent"}
    BY <1>0, <1>7 DEF ToolTaken, ToolPut, ArrayTaken, TakesAt, PutsAt, GoTo, Control, Locals,
                      Pools
  <2>2. Takers' = Takers /\ Passed' = Passed
    BY <1>0, <1>2, <2>1 DEF Takers, Passed
  <2>3. ReaderPill' = ReaderPill /\ ReaperPill' = ReaperPill
    BY <1>2, <2>1 DEF ReaderPill, ReaperPill
  <2>4. QED
    BY <1>1, <1>2, <2>1, <2>2, <2>3, PillsKept
<1>8. QED
  BY <1>5, <1>6, <1>7

\* The steps of the threads themselves make a pill or count one.
LEMMA LocalPills ==
  ASSUME Q!TypeOK, Control, Pills, LocalStep
  PROVE  Pills'
<1> USE Constants DEF GoTo, Q!TypeOK
<1>0. Workers \subseteq Threads
  BY DEF Threads
<1>9. pc \in [Threads \cup {Main} ->
                ReaderLabels \cup WorkerLabels \cup ReaperLabels \cup MainLabels]
  BY DEF Control, Locals
<1>1. CASE ReaderNewPill
  <2>1. /\ pc[Reader] = "loop" /\ pc' = [pc EXCEPT ![Reader] = "putPill"]
        /\ entry = NEvents /\ pills' = pills + 1
        /\ UNCHANGED <<queue, step, opq, item, entry, poisonPills>>
    BY <1>1 DEF ReaderNewPill, syncVars, outputVars
  <2>2. step[Reader] # "putPost"
    BY <2>1 DEF Control, InOperation, PutsAt
  <2>3. ReaderPill = 0 /\ ReaderPill' = 1 /\ ReaperPill' = ReaperPill
    BY <1>9, <2>1, <2>2 DEF ReaderPill, ReaperPill
  <2>4. PillsIn' = PillsIn
    BY <2>1 DEF PillsIn
  <2>5. Takers' = Takers /\ Passed' = Passed
    BY <1>9, <2>1 DEF Takers, Passed
  <2>6. PillsCounted'
    <3>1. pills' = ReaderPill' + Cardinality(PillsIn["newJobQueue"]) + Cardinality(Takers)
      <4>1. /\ pills = ReaderPill + Cardinality(PillsIn["newJobQueue"]) + Cardinality(Takers)
            /\ Cardinality(Takers) \in Nat /\ Cardinality(PillsIn["newJobQueue"]) \in Nat
        BY PillNumbers DEF Pills, PillsCounted, Pipes
      <4>2. QED
        BY <2>1, <2>3, <4>1
    <3>2. pc'[Reader] = "putPill" /\ pc'[Reaper] = pc[Reaper]
      BY <1>9, <2>1
    <3>3. QED
      BY <2>1, <2>3, <2>4, <2>5, <3>1, <3>2 DEF Pills, PillsCounted
  <2>7. PillsLast'
    <3>1. pc'[Reader] = "putPill" /\ pills \in Nat
      BY <1>9, <2>1, PillNumbers
    <3>2. pills' # 0
      BY <2>1, <3>1
    <3>3. QED
      BY <2>1, <2>4, <2>5, <3>1, <3>2 DEF Pills, PillsLast
  <2>8. PillBehind'
    BY <2>1, <2>4, <2>5 DEF Pills, PillBehind
  <2>9. QED
    BY <2>6, <2>7, <2>8 DEF Pills
<1>2. CASE ReaperCountPill
  <2>1. /\ pc[Reaper] = "countPill"
        /\ pc' = [pc EXCEPT ![Reaper] = IF poisonPills' = NTHREADS THEN "close" ELSE "takeJob"]
        /\ poisonPills' = poisonPills + 1
        /\ UNCHANGED <<queue, step, opq, item, entry, pills>>
    BY <1>2 DEF ReaperCountPill, syncVars, readerVars
  <2>2. step[Reaper] = "idle"
    BY <2>1 DEF Control, InOperation, PutsAt, TakesAt, Q!Steps
  <2>3. ReaperPill = 1 /\ ReaperPill' = 0 /\ ReaderPill' = ReaderPill
    BY <1>9, <2>1, <2>2 DEF ReaderPill, ReaperPill
  <2>4. PillsIn' = PillsIn
    BY <2>1 DEF PillsIn
  <2>5. Takers' = Takers /\ Passed' = Passed
    BY <1>9, <2>1 DEF Takers, Passed
  <2>6. PillsCounted'
    <3>1. Cardinality(Passed) = poisonPills' + ReaperPill' + Cardinality(PillsIn["cmpJobQueue"])
      <4>1. /\ Cardinality(Passed) = poisonPills + ReaperPill + Cardinality(PillsIn["cmpJobQueue"])
            /\ poisonPills \in Nat /\ Cardinality(PillsIn["cmpJobQueue"]) \in Nat
        BY PillNumbers DEF Pills, PillsCounted, Pipes
      <4>2. QED
        BY <2>1, <2>3, <4>1
    <3>2. /\ pc'[Reader] = pc[Reader]
          /\ pc'[Reaper] \in {"close", "done"} => poisonPills' = NTHREADS
      BY <1>9, <2>1
    <3>3. QED
      BY <2>1, <2>3, <2>4, <2>5, <3>1, <3>2 DEF Pills, PillsCounted
  <2>7. PillsLast'
    BY <1>9, <2>1, <2>4, <2>5 DEF Pills, PillsLast
  <2>8. PillBehind'
    BY <2>1, <2>4, <2>5 DEF Pills, PillBehind
  <2>9. QED
    BY <2>6, <2>7, <2>8 DEF Pills
<1>3. CASE ReaderGetEntry \/ ReaderReturn
  <2>1. /\ pc[Reader] = "loop"
        /\ pc' = [pc EXCEPT ![Reader] = IF ReaderReturn THEN "done" ELSE "takeArray"]
        /\ UNCHANGED <<queue, step, opq, item, pills, poisonPills>>
    <3>1. ReaderGetEntry => ~ReaderReturn
      BY DEF ReaderGetEntry, ReaderReturn
    <3>2. QED
      BY <1>3, <3>1 DEF ReaderGetEntry, ReaderReturn, syncVars, readerVars, outputVars
  <2>2. pills > 0 => ReaderReturn
    BY <1>3 DEF ReaderGetEntry, Pills, PillsLast
  <2>3. ReaderReturn => entry' = entry /\ pills = NTHREADS
    BY DEF ReaderReturn, readerVars
  <2>4. /\ pc'[Reader] \in {"done", "takeArray"} /\ (pc'[Reader] = "done" <=> ReaderReturn)
        /\ \A t \in Threads \ {Reader} : pc'[t] = pc[t]
    BY <1>9, <2>1
  <2>5. /\ Takers' = Takers /\ Passed' = Passed
        /\ ReaderPill' = ReaderPill /\ ReaperPill' = ReaperPill
    BY <1>0, <2>1, <2>4 DEF Takers, Passed, ReaderPill, ReaperPill
  <2>6. QED
    BY <2>1, <2>2, <2>3, <2>4, <2>5, PillsKept
<1>4. CASE \/ \E w \in Workers : WorkerSetRawEvent(w) \/ WorkerFillTracklets(w)
           \/ ReaperFill \/ ReaperDelete \/ ReaperPostCompletedEvent \/ ReaperClose
  <2>1. PICK t \in Workers \cup {Reaper} :
          /\ pc[t] \in {"setRawEvent", "fill", "delete", "postCompletedEvent", "close"}
          /\ \/ /\ t \in Workers /\ pc[t] \in {"setRawEvent", "fill"}
                /\ pc' = [pc EXCEPT ![t] = IF pc[t] = "fill" THEN "putTracker" ELSE "fill"]
             \/ /\ t = Reaper
                /\ pc' = [pc EXCEPT ![t] = CASE pc[t] = "fill" -> "delete"
                                             [] pc[t] = "delete" -> "putArray"
                                             [] pc[t] = "close" -> "done"
                                             [] OTHER -> "takeJob"]
    BY <1>4 DEF WorkerSetRawEvent, WorkerFillTracklets, ReaperFill, ReaperDelete,
                ReaperPostCompletedEvent, ReaperClose
  <2>2. UNCHANGED <<queue, step, opq, item, entry, pills, poisonPills>>
    BY <1>4 DEF WorkerSetRawEvent, WorkerFillTracklets, ReaperFill, ReaperDelete,
                ReaperPostCompletedEvent, ReaperClose, syncVars, readerVars, outputVars
  <2>3. step[t] = "idle"
    BY <1>0, <2>1 DEF Control, InOperation, PutsAt, TakesAt, Q!Steps
  <2>4. /\ \A u \in Threads \ {t} : pc'[u] = pc[u]
        /\ t \in Workers => pc'[t] \in {"putTracker", "fill"}
        /\ t = Reaper => pc'[t] \in {"delete", "putArray", "done", "takeJob"}
        /\ t = Reaper /\ pc'[t] = "done" => pc[t] = "close"
    BY <1>0, <1>9, <2>1
  <2>5. Takers' = Takers /\ Passed' = Passed
    <3>1. \A w \in Workers : pc'[w] = pc[w] \/ (/\ pc[w] \in {"setRawEvent", "fill"}
                                              /\ pc'[w] \in {"putTracker", "fill"})
      BY <1>0, <2>1, <2>4
    <3>2. QED
      BY <2>2, <3>1 DEF Takers, Passed
  <2>6. ReaderPill' = ReaderPill /\ ReaperPill' = ReaperPill
    BY <2>1, <2>2, <2>3, <2>4 DEF ReaderPill, ReaperPill
  <2>7. QED
    BY <2>1, <2>2, <2>4, <2>5, <2>6, PillsKept
<1>5. CASE MainStep
  <2>1. UNCHANGED <<queue, step, opq, item, entry, pills, poisonPills>>
    BY <1>5 DEF MainStep, startReaderThread, startReaperThread, startWorkerThread,
                Start, Join, Destroy, syncVars, readerVars, outputVars
  <2>2. \A t \in Threads : pc'[t] = pc[t] \/ (/\ pc[t] = "unborn"
                                              /\ pc'[t] = IF t = Reader THEN "loop" ELSE "takeJob")
    <3>1. CASE startReaderThread \/ startReaperThread
               \/ \E w \in Workers : startWorkerThread(w)
      BY <1>9, <3>1 DEF startReaderThread, startReaperThread, startWorkerThread, Start
    <3>2. CASE \/ Join({Reader}, "joinReader", "joinReaper")
               \/ Join({Reaper}, "joinReaper", "joinWorkers")
               \/ Join(Workers, "joinWorkers", "returned")
               \/ Destroy
      BY <1>9, <3>2 DEF Join, Destroy
    <3>3. QED
      BY <1>5, <3>1, <3>2 DEF MainStep
  <2>3. \A t \in Threads : pc[t] = "unborn" => step[t] = "idle"
    BY DEF Control, InOperation, PutsAt, TakesAt, Q!Steps
  <2>4. Takers' = Takers /\ Passed' = Passed
    BY <1>0, <2>1, <2>2, <2>3 DEF Takers, Passed
  <2>5. ReaderPill' = ReaderPill /\ ReaperPill' = ReaperPill
    BY <2>1, <2>2, <2>3 DEF ReaderPill, ReaperPill
  <2>6. pills > 0 => pc[Reader] # "unborn"
    BY DEF Pills, PillsLast
  <2>7. QED
    BY <2>1, <2>2, <2>4, <2>5, <2>6, PillsKept
<1>6. QED
  BY <1>1, <1>2, <1>3, <1>4, <1>5 DEF LocalStep

\* There are no pills at first.
LEMMA InitPills == Init => Pills
<1> SUFFICES ASSUME Init PROVE Pills
  OBVIOUS
<1> USE Constants
<1>1. /\ pc = [t \in Threads \cup {Main} |-> IF t = Main THEN "startReader" ELSE "unborn"]
      /\ queue["newJobQueue"] = <<>> /\ queue["cmpJobQueue"] = <<>>
      /\ entry = 0 /\ pills = 0 /\ poisonPills = 0
  BY DEF Init, Q!Init, Filled, Pipes, Pools
<1>2. Len(queue["newJobQueue"]) = 0 /\ Len(queue["cmpJobQueue"]) = 0
  BY <1>1
<1>3. PillsIn["newJobQueue"] = {} /\ PillsIn["cmpJobQueue"] = {}
  BY <1>2 DEF PillsIn, Pipes, PlacesOf
<1>4. Takers = {} /\ Passed = {} /\ ReaderPill = 0 /\ ReaperPill = 0
  BY <1>1 DEF Takers, Passed, ReaderPill, ReaperPill
<1>5. PillsCounted
  <2>1. Cardinality({}) = 0
    BY FS_EmptySet
  <2>2. QED
    BY <1>1, <1>3, <1>4, <2>1 DEF PillsCounted
<1>6. PillsLast
  BY <1>1, <1>2, <1>3, <1>4 DEF PillsLast
<1>7. PillBehind
  BY <1>2 DEF PillBehind
<1>8. QED
  BY <1>5, <1>6, <1>7 DEF Pills

\* Every step keeps each pill in one place and behind the events.
LEMMA NextPills ==
  ASSUME Q!TypeOK, Front, Control, Pills, [Next]_vars
  PROVE  Pills'
<1>1. CASE QueueStep
  BY <1>1, TakingPills, PuttingPills, PostPills DEF QueueStep
<1>2. CASE ArrayTaken
  BY <1>2, PostPills, Constants DEF ArrayPool, Pools, AllQueues
<1>3. CASE UNCHANGED vars
  <2>1. UNCHANGED <<queue, step, opq, item, pc, entry, pills, poisonPills>>
    BY <1>3 DEF vars
  <2>2. /\ Takers' = Takers /\ Passed' = Passed
        /\ ReaderPill' = ReaderPill /\ ReaperPill' = ReaperPill
    BY <2>1 DEF Takers, Passed, ReaderPill, ReaperPill
  <2>3. QED
    BY <2>1, <2>2, PillsKept
<1>4. QED
  BY <1>1, <1>2, <1>3, LocalPills, Moves

-----------------------------------------------------------------------------
\* An item is popped or stays in the queue.
LEMMA ItemsPopped ==
  ASSUME NEW S, NEW s \in Seq(S), s # <<>>, NEW i \in 1..Len(s)
  PROVE  s[i] = Head(s) \/ \E k \in 1..Len(Tail(s)) : Tail(s)[k] = s[i]
<1>1. /\ Len(s) \in Nat /\ Head(s) = s[1] /\ Len(Tail(s)) = Len(s) - 1
      /\ \A k \in 1..Len(Tail(s)) : Tail(s)[k] = s[k + 1]
  BY TailItems
<1>2. CASE i # 1
  <2>1. i - 1 \in 1..Len(Tail(s)) /\ (i - 1) + 1 = i
    BY <1>1, <1>2
  <2>2. QED
    BY <1>1, <2>1
<1>3. QED
  BY <1>1, <1>2

\* No item is lost when one is pushed.
LEMMA ItemsPushed ==
  ASSUME NEW S, NEW s \in Seq(S), NEW v \in S, NEW r, r = Append(s, v)
  PROVE  /\ \A i \in 1..Len(s) : \E k \in 1..Len(r) : r[k] = s[i]
         /\ \E k \in 1..Len(r) : r[k] = v
<1>1. /\ Len(s) \in Nat /\ Len(r) = Len(s) + 1
      /\ \A i \in 1..Len(s) : r[i] = s[i]
      /\ r[Len(s) + 1] = v
  BY AppendItems
<1>2. /\ \A i \in 1..Len(s) : i \in 1..Len(r)
      /\ Len(s) + 1 \in 1..Len(r)
  BY <1>1
<1>3. QED
  BY <1>1, <1>2

\* A step after which no hand and no queue has lost anything.
LEMMA NothingLost ==
  ASSUME \A t \in Threads : JobsHeld[t] \subseteq JobsAt',
         \A q \in Pipes : \A i \in 1..Len(queue[q]) :
           queue[q][i] \in Events => queue[q][i] \in JobsAt',
         \A e \in Events : jobs'[e] # NULL => jobs[e] # NULL,
         \A q \in Pools : \A t \in Threads : ToolsHeld[q][t] \subseteq ToolsAt'[q],
         \A q \in Pools : \A i \in 1..Len(queue[q]) :
           queue[q][i] \in Pool[q] => queue[q][i] \in ToolsAt'[q],
         \A e \in Events : jobs[e] # NULL /\ jobs[e].tracklets \in Pool[ArrayPool] =>
           jobs[e].tracklets \in ToolsAt'[ArrayPool],
         Placed
  PROVE  Placed'
<1>1. JobsAt \subseteq JobsAt'
  BY DEF JobsAt
<1>2. ASSUME NEW q \in Pools
      PROVE  ToolsAt[q] \subseteq ToolsAt'[q]
  <2>1. ASSUME NEW x \in ToolsAt[q]
        PROVE  /\ x \in Pool[q]
               /\ \/ \E t \in Threads : x \in ToolsHeld[q][t]
                  \/ \E i \in 1..Len(queue[q]) : queue[q][i] = x
                  \/ q = ArrayPool /\ \E e \in Events : jobs[e] # NULL /\ jobs[e].tracklets = x
    BY <2>1 DEF ToolsAt
  <2>2. QED
    BY <2>1
<1>3. QED
  BY <1>1, <1>2 DEF Placed

\* The places after a step.
LEMMA PlacesAfter ==
  /\ \A t \in Threads : \A e \in JobsHeld'[t] : e \in Events => e \in JobsAt'
  /\ \A q \in Pipes : \A i \in 1..Len(queue'[q]) :
       queue'[q][i] \in Events => queue'[q][i] \in JobsAt'
  /\ \A q \in Pools : \A t \in Threads : \A x \in ToolsHeld'[q][t] :
       x \in Pool[q] => x \in ToolsAt'[q]
  /\ \A q \in Pools : \A i \in 1..Len(queue'[q]) :
       queue'[q][i] \in Pool[q] => queue'[q][i] \in ToolsAt'[q]
  /\ \A e \in Events : jobs'[e] # NULL /\ jobs'[e].tracklets \in Pool[ArrayPool] =>
       jobs'[e].tracklets \in ToolsAt'[ArrayPool]
<1>1. ArrayPool \in Pools
  BY DEF ArrayPool, Pools
<1>2. QED
  BY <1>1 DEF JobsAt, ToolsAt

\* What is held is a job, or an object of the pool.
LEMMA HeldTypes ==
  /\ \A t \in Threads : JobsHeld[t] \subseteq Events
  /\ \A q \in Pools : \A t \in Threads : ToolsHeld[q][t] \subseteq Pool[q]
BY DEF JobsHeld, ToolsHeld

\* What is popped is in the hand of who popped it.
LEMMA TakingPlaces ==
  ASSUME Q!TypeOK, Front, Control, Placed,
         NEW t \in Threads, NEW q \in AllQueues, Taking(t, q)
  PROVE  Placed'
<1> USE Constants
<1>0. Pipes \cap Pools = {} /\ AllQueues = Pipes \cup Pools
  BY DEF Pipes, Pools, AllQueues
<1>1. UNCHANGED <<pc, job, tool, jobs>>
  BY DEF Taking, privateVars
<1>2. \A u \in Threads : JobsHeld[u] \subseteq JobsHeld'[u]
  BY <1>1 DEF Taking, Q!TypeOK, JobsHeld, Pushed, Q!TakeInside, Q!TakeWait, Q!TakeFront,
              Q!TakePop, Q!Goto, Q!At
<1>3. \A p \in Pools : \A u \in Threads : ToolsHeld[p][u] \subseteq ToolsHeld'[p][u]
  BY <1>1 DEF Taking, Q!TypeOK, ToolsHeld, Q!TakeInside, Q!TakeWait, Q!TakeFront,
              Q!TakePop, Q!Goto, Q!At
<1>4. CASE Q!TakeWait(t, q) \/ Q!TakeFront(t, q)
  <2>1. queue' = queue
    BY <1>4 DEF Q!TakeWait, Q!TakeFront
  <2>2. QED
    BY <1>1, <1>2, <1>3, <2>1, PlacesAfter, HeldTypes, NothingLost
<1>5. CASE Q!TakePop(t, q)
  <2>1. /\ queue[q] # <<>> /\ queue[q] \in Seq(Items) /\ item[t] = Head(queue[q])
        /\ opq[t] = q /\ step[t] = "takePop"
    BY <1>5 DEF Front, Q!TakePop, Q!At, Q!TypeOK
  <2>2. /\ step' = [step EXCEPT ![t] = "takePost"]
        /\ queue' = [queue EXCEPT ![q] = Tail(@)]
        /\ opq' = opq /\ item' = item
    BY <1>5 DEF Q!TakePop, Q!Goto
  <2>3. queue'[q] = Tail(queue[q]) /\ \A p \in AllQueues \ {q} : queue'[p] = queue[p]
    BY <1>0, <2>2 DEF Q!TypeOK
  <2>4. step'[t] = "takePost" /\ opq'[t] = q /\ item'[t] = Head(queue[q])
    BY <2>1, <2>2 DEF Q!TypeOK
  <2>5. /\ q \in Pipes /\ Head(queue[q]) \in Events => Head(queue[q]) \in JobsHeld'[t]
        /\ q \in Pools /\ Head(queue[q]) \in Pool[q] => Head(queue[q]) \in ToolsHeld'[q][t]
    BY <2>4 DEF JobsHeld, ToolsHeld
  <2>6. \A i \in 1..Len(queue[q]) :
          queue[q][i] = Head(queue[q]) \/ \E k \in 1..Len(queue'[q]) : queue'[q][k] = queue[q][i]
    <3>1. \A i \in 1..Len(queue[q]) : queue[q][i] = Head(queue[q])
            \/ \E k \in 1..Len(Tail(queue[q])) : Tail(queue[q])[k] = queue[q][i]
      BY <2>1, ItemsPopped
    <3>2. QED
      BY <2>3, <3>1
  <2>7. ASSUME NEW p \in Pipes, NEW i \in 1..Len(queue[p]), queue[p][i] \in Events
        PROVE  queue[p][i] \in JobsAt'
    BY <1>0, <2>3, <2>5, <2>6, <2>7, PlacesAfter
  <2>8. ASSUME NEW p \in Pools, NEW i \in 1..Len(queue[p]), queue[p][i] \in Pool[p]
        PROVE  queue[p][i] \in ToolsAt'[p]
    <3>1. \A k \in 1..Len(queue'[p]) : queue'[p][k] \in Pool[p] => queue'[p][k] \in ToolsAt'[p]
      BY PlacesAfter
    <3>2. CASE p = q
      <4>1. \A u \in Threads : \A x \in ToolsHeld'[p][u] : x \in Pool[p] => x \in ToolsAt'[p]
        BY PlacesAfter
      <4>2. QED
        BY <2>5, <2>6, <2>8, <3>1, <3>2, <4>1
    <3>3. CASE p # q
      BY <1>0, <2>3, <2>8, <3>1, <3>3
    <3>4. QED
      BY <3>2, <3>3
  <2>9. QED
    BY <1>1, <1>2, <1>3, <2>7, <2>8, PlacesAfter, HeldTypes, NothingLost
<1>6. QED
  BY <1>4, <1>5 DEF Taking, Q!TakeInside

\* What is pushed was in the hand of who pushed it.
LEMMA PuttingPlaces ==
  ASSUME Q!TypeOK, Control, Placed,
         NEW t \in Threads, NEW q \in AllQueues, NEW v, Putting(t, q, v)
  PROVE  Placed'
<1> USE Constants
<1>0. Pipes \cap Pools = {} /\ AllQueues = Pipes \cup Pools
  BY DEF Pipes, Pools, AllQueues
<1>1. UNCHANGED <<pc, job, tool, jobs>>
  BY DEF Putting, privateVars
<1>2. CASE Q!PutWait(t, q, v) \/ Q!PutLock(t, q)
  <2>1. \A u \in Threads : JobsHeld[u] \subseteq JobsHeld'[u]
    BY <1>1, <1>2 DEF Q!TypeOK, JobsHeld, Pushed, Q!PutWait, Q!PutLock, Q!Goto, Q!At
  <2>2. \A p \in Pools : \A u \in Threads : ToolsHeld[p][u] \subseteq ToolsHeld'[p][u]
    BY <1>1, <1>2 DEF Q!TypeOK, ToolsHeld, Q!PutWait, Q!PutLock, Q!Goto, Q!At
  <2>3. queue' = queue
    BY <1>2 DEF Q!PutWait, Q!PutLock
  <2>4. QED
    BY <1>1, <2>1, <2>2, <2>3, PlacesAfter, HeldTypes, NothingLost
<1>3. CASE Q!PutPush(t, q)
  <2>1. /\ opq[t] = q /\ step[t] = "putPush"
        /\ item[t] \in Items /\ queue[q] \in Seq(Items)
    BY <1>3 DEF Q!PutPush, Q!At, Q!TypeOK
  <2>2. PutsAt(t, q, item[t])
    BY <2>1 DEF Control, InOperation
  <2>3. /\ step' = [step EXCEPT ![t] = "putPost"]
        /\ queue' = [queue EXCEPT ![q] = Append(@, item[t])]
        /\ opq' = opq /\ item' = item
    BY <1>3 DEF Q!PutPush, Q!Goto
  <2>4. /\ queue'[q] = Append(queue[q], item[t])
        /\ \A p \in AllQueues \ {q} : queue'[p] = queue[p]
    BY <1>0, <2>3 DEF Q!TypeOK
  <2>5. /\ \A i \in 1..Len(queue[q]) : \E k \in 1..Len(queue'[q]) : queue'[q][k] = queue[q][i]
        /\ \E k \in 1..Len(queue'[q]) : queue'[q][k] = item[t]
    <3>1. queue[q] \in Seq(Items) /\ item[t] \in Items
      BY <2>1
    <3>2. QED
      BY <2>4, <3>1, ItemsPushed
  <2>6. ASSUME NEW u \in Threads
        PROVE  \A e \in JobsHeld[u] : e \in JobsHeld'[u] \/ (q \in Pipes /\ e = item[t])
    <3>1. CASE u = t
      <4>1. q \in Pipes => item[t] = job[t]
        BY <2>2 DEF PutsAt, Pipes
      <4>2. q \notin Pipes => JobsHeld'[t] = JobsHeld[t]
        BY <1>1, <2>1, <2>3 DEF JobsHeld, Pushed
      <4>3. \A e \in JobsHeld[t] : e = job[t]
        BY <2>1 DEF JobsHeld
      <4>4. QED
        BY <3>1, <4>1, <4>2, <4>3
    <3>2. CASE u # t
      BY <1>1, <2>3, <3>2 DEF JobsHeld, Pushed
    <3>3. QED
      BY <3>1, <3>2
  <2>7. ASSUME NEW p \in Pools, NEW u \in Threads
        PROVE  \A x \in ToolsHeld[p][u] : x \in ToolsHeld'[p][u] \/ (p = q /\ x = item[t])
    <3>1. CASE u = t
      <4>1. t \in Users[p] /\ pc[t] \in Uses[p] => p = q /\ item[t] = tool[t]
        BY <2>2, UsesOf DEF PutsAt
      <4>2. QED
        BY <2>1, <3>1, <4>1 DEF ToolsHeld
    <3>2. CASE u # t
      BY <1>1, <2>3, <3>2 DEF ToolsHeld
    <3>3. QED
      BY <3>1, <3>2
  <2>8. \A u \in Threads : JobsHeld[u] \subseteq JobsAt'
    BY <2>5, <2>6, PlacesAfter, HeldTypes
  <2>9. \A p \in Pools : \A u \in Threads : ToolsHeld[p][u] \subseteq ToolsAt'[p]
    BY <2>5, <2>7, PlacesAfter, HeldTypes
  <2>10. ASSUME NEW p \in Pipes, NEW i \in 1..Len(queue[p]), queue[p][i] \in Events
         PROVE  queue[p][i] \in JobsAt'
    BY <1>0, <2>4, <2>5, <2>10, PlacesAfter
  <2>11. ASSUME NEW p \in Pools, NEW i \in 1..Len(queue[p]), queue[p][i] \in Pool[p]
         PROVE  queue[p][i] \in ToolsAt'[p]
    <3>1. \A k \in 1..Len(queue'[p]) : queue'[p][k] \in Pool[p] => queue'[p][k] \in ToolsAt'[p]
      BY PlacesAfter
    <3>2. CASE p = q
      BY <2>5, <2>11, <3>1, <3>2
    <3>3. CASE p # q
      BY <1>0, <2>4, <2>11, <3>1, <3>3
    <3>4. QED
      BY <3>2, <3>3
  <2>12. QED
    BY <1>1, <2>8, <2>9, <2>10, <2>11, PlacesAfter, NothingLost
<1>4. QED
  BY <1>2, <1>3 DEF Putting, Q!PutInside

\* What was in a hand or a pipe during a queue operation is there after it.
LEMMA PostPlaces ==
  ASSUME Q!TypeOK, Control, Cleared, Placed,
         NEW t \in Threads, NEW q \in AllQueues,
         JobTaken(t, q) \/ JobPut(t, q) \/ ToolTaken(t, q) \/ ToolPut(t, q)
  PROVE  Placed'
<1> USE Constants DEF Q!TypeOK, Q!TakePost, Q!PutPost, Q!Goto, Q!At, GoTo
<1>0. Pipes \cap Pools = {} /\ AllQueues = Pipes \cup Pools
  BY DEF Pipes, Pools, AllQueues
<1>1. /\ pc \in [Threads \cup {Main} ->
                   ReaderLabels \cup WorkerLabels \cup ReaperLabels \cup MainLabels]
      /\ job \in [Threads -> Events \cup {POISON, NULL}]
      /\ tool \in [Threads -> Reducers \cup Trackers \cup Arrays \cup {NULL}]
  BY DEF Control, Locals
<1>2. UNCHANGED <<queue, jobs>>
  BY DEF JobTaken, JobPut, ToolTaken, ToolPut, dataVars
<1>3. /\ step' = [step EXCEPT ![t] = "idle"] /\ item' = [item EXCEPT ![t] = NULL]
      /\ \A u \in Threads \ {t} :
           /\ step'[u] = step[u] /\ opq'[u] = opq[u] /\ item'[u] = item[u]
           /\ pc'[u] = pc[u] /\ job'[u] = job[u] /\ tool'[u] = tool[u]
  BY <1>1 DEF JobTaken, JobPut, ToolTaken, ToolPut
<1>4. step'[t] = "idle" /\ opq[t] = q
  BY <1>3 DEF JobTaken, JobPut, ToolTaken, ToolPut
<1>5. JobsHeld[t] \subseteq JobsHeld'[t]
  <2>1. CASE JobTaken(t, q)
    <3>1. pc[t] = "takeJob" /\ step[t] = "takePost" /\ job'[t] = item[t]
      BY <1>1, <2>1 DEF JobTaken, TakesAt, Pipes
    <3>2. job[t] = NULL
      BY <3>1 DEF Cleared, NoJob
    <3>3. QED
      BY <1>4, <3>1, <3>2 DEF JobsHeld, Pushed
  <2>2. CASE JobPut(t, q)
    <3>1. step[t] = "putPost" /\ q \in Pipes
      BY <2>2 DEF JobPut
    <3>2. QED
      BY <1>4, <3>1 DEF JobsHeld, Pushed
  <2>3. CASE ToolTaken(t, q) \/ ToolPut(t, q)
    <3>1. q \in Pools /\ job' = job
      BY <2>3 DEF ToolTaken, ToolPut
    <3>2. QED
      BY <1>0, <1>4, <3>1 DEF JobsHeld, Pushed
  <2>4. QED
    BY <2>1, <2>2, <2>3
<1>6. ASSUME NEW p \in Pools
      PROVE  ToolsHeld[p][t] \subseteq ToolsHeld'[p][t]
  <2>1. CASE JobTaken(t, q) \/ JobPut(t, q)
    <3>1. q # p /\ pc[t] \in {"takeJob", "putJob", "putPill"}
      BY <1>0, <2>1 DEF JobTaken, JobPut, TakesAt, PutsAt, Pipes, Pools
    <3>2. pc[t] \notin Uses[p]
      <4> HIDE DEF Q!TypeOK, Q!TakePost, Q!PutPost, Q!Goto, Q!At, GoTo
      <4>1. QED
        BY <3>1, UsesOf
    <3>3. QED
      BY <1>4, <3>1, <3>2 DEF ToolsHeld
  <2>2. CASE ToolTaken(t, q)
    <3>1. /\ step[t] = "takePost" /\ tool'[t] = item[t] /\ t \in Workers
          /\ \/ q = "eventReducerQueue" /\ pc[t] = "takeReducer" /\ pc'[t] = "putReducer"
             \/ q = "kFastTrkQueue" /\ pc[t] = "takeTracker" /\ pc'[t] = "setRawEvent"
      BY <1>1, <2>2 DEF ToolTaken, TakesAt, Pools
    <3>2. pc[t] \notin Uses[p] /\ (p = q => t \in Users[p] /\ pc'[t] \in Uses[p])
      <4> HIDE DEF Q!TypeOK, Q!TakePost, Q!PutPost, Q!Goto, Q!At, GoTo
      <4>1. QED
        BY <3>1, UsesOf
    <3>3. QED
      BY <1>4, <3>1, <3>2 DEF ToolsHeld
  <2>3. CASE ToolPut(t, q)
    <3>1. step[t] = "putPost"
      BY <2>3 DEF ToolPut
    <3>2. QED
      BY <3>1 DEF ToolsHeld
  <2>4. QED
    BY <2>1, <2>2, <2>3
<1>7. \A u \in Threads : JobsHeld[u] \subseteq JobsHeld'[u]
  BY <1>3, <1>5 DEF JobsHeld, Pushed
<1>8. \A p \in Pools : \A u \in Threads : ToolsHeld[p][u] \subseteq ToolsHeld'[p][u]
  BY <1>3, <1>6 DEF ToolsHeld
<1> HIDE DEF Q!TypeOK, Q!TakePost, Q!PutPost, Q!Goto, Q!At, GoTo
<1>9. QED
  BY <1>2, <1>7, <1>8, PlacesAfter, HeldTypes, NothingLost

\* The array that the reader has taken is in the job, which had none.
LEMMA ArrayTakenPlaces ==
  ASSUME Q!TypeOK, Control, JobsOwned, JobData, Cleared, Placed, ArrayTaken
  PROVE  Placed'
<1> USE Constants
<1> DEFINE a == item[Reader]
           d == job[Reader]
<1>0. ArrayPool \in Pools /\ Pool[ArrayPool] = Arrays
  BY DEF ArrayPool, Pools, Pool
<1>1. /\ pc[Reader] = "takeArray" /\ d \in Events
      /\ step[Reader] = "takePost" /\ opq[Reader] = ArrayPool
      /\ jobs[d].tracklets = NULL
  BY DEF ArrayTaken, Control, Pointers, ArrayPool, Q!TakePost, Q!At, Cleared
<1>2. jobs[d] \in KJob /\ jobs[d] # NULL
  <2>1. d \in JobsHeld[Reader]
    BY <1>1, InHand
  <2>2. jobs[d] # NULL
    BY <2>1 DEF JobsOwned
  <2>3. QED
    BY <1>1, <2>2 DEF JobData
<1>3. /\ jobs'[d].tracklets = a /\ jobs'[d] # NULL
      /\ \A e \in Events \ {d} : jobs'[e] = jobs[e]
  <2>1. jobs' = [jobs EXCEPT ![d].tracklets = a]
    BY DEF ArrayTaken
  <2>2. jobs'[d] = [jobs[d] EXCEPT !.tracklets = a] /\ jobs \in [Events -> KJob \cup {NULL}]
    BY <1>1, <2>1 DEF JobData
  <2>3. a \in Arrays
    BY <1>1 DEF Control, Carriage, Carried, Pipes, Pool, ArrayPool
  <2>4. jobs'[d] \in KJob /\ NULL \notin KJob
    BY <1>2, <2>2, <2>3, KSchedulerAssumption DEF KJob
  <2>5. QED
    BY <1>1, <1>2, <2>1, <2>2, <2>4 DEF KJob
<1>4. /\ queue' = queue /\ job' = job /\ tool' = tool /\ step'[Reader] = "idle"
      /\ \A u \in Threads \ {Reader} :
           /\ step'[u] = step[u] /\ opq'[u] = opq[u] /\ item'[u] = item[u] /\ pc'[u] = pc[u]
  BY DEF ArrayTaken, GoTo, Q!TakePost, Q!Goto, Q!At, Q!TypeOK, Control, Locals
<1>5. \A u \in Threads : JobsHeld[u] \subseteq JobsHeld'[u]
  <2>1. JobsHeld[Reader] \subseteq JobsHeld'[Reader]
    BY <1>1, <1>4 DEF JobsHeld, Pushed, Pipes, ArrayPool
  <2>2. QED
    BY <1>4, <2>1 DEF JobsHeld, Pushed
<1>6. ASSUME NEW p \in Pools, NEW u \in Threads
      PROVE  \A x \in ToolsHeld[p][u] : x \in ToolsHeld'[p][u] \/ (p = ArrayPool /\ x = a)
  <2>1. CASE u = Reader
    <3>1. Reader \notin Users[p]
      BY UsesOf
    <3>2. QED
      BY <1>1, <2>1, <3>1 DEF ToolsHeld
  <2>2. CASE u # Reader
    BY <1>4, <2>2 DEF ToolsHeld
  <2>3. QED
    BY <2>1, <2>2
<1> HIDE DEF a, d
<1>7. \A e \in Events : jobs'[e] # NULL =>
        (jobs'[e].tracklets \in Pool[ArrayPool] => jobs'[e].tracklets \in ToolsAt'[ArrayPool])
  BY PlacesAfter
<1>8. a \in Pool[ArrayPool] => a \in ToolsAt'[ArrayPool]
  BY <1>1, <1>3, <1>7
<1>9. ASSUME NEW p \in Pools, NEW u \in Threads
      PROVE  ToolsHeld[p][u] \subseteq ToolsAt'[p]
  <2>1. ToolsHeld[p][u] \subseteq Pool[p]
    BY HeldTypes
  <2>2. \A x \in ToolsHeld'[p][u] : x \in Pool[p] => x \in ToolsAt'[p]
    BY PlacesAfter
  <2>3. QED
    BY <1>6, <1>8, <2>1, <2>2
<1>10. \A e \in Events : jobs'[e] # NULL => jobs[e] # NULL
  BY <1>2, <1>3
<1>11. ASSUME NEW e \in Events, jobs[e] # NULL, jobs[e].tracklets \in Pool[ArrayPool]
       PROVE  jobs[e].tracklets \in ToolsAt'[ArrayPool]
  <2>1. e # d
    BY <1>0, <1>1, <1>11
  <2>2. QED
    BY <1>3, <1>7, <1>11, <2>1
<1>12. \A u \in Threads : JobsHeld[u] \subseteq JobsAt'
  BY <1>5, PlacesAfter, HeldTypes
<1>13. /\ \A p \in Pipes : \A i \in 1..Len(queue[p]) :
            queue[p][i] \in Events => queue[p][i] \in JobsAt'
       /\ \A p \in Pools : \A i \in 1..Len(queue[p]) :
            queue[p][i] \in Pool[p] => queue[p][i] \in ToolsAt'[p]
  BY <1>4, PlacesAfter
<1>14. QED
  BY <1>9, <1>10, <1>11, <1>12, <1>13, NothingLost

\* The labels at which a thread works with a job or a tool, from one step of its own to
\* the next one.
LEMMA LocalLabels ==
  ASSUME Control, LocalStep
  PROVE  /\ \A w \in Workers :
              \/ pc'[w] = pc[w]
              \/ /\ pc[w] \in {"setRawEvent", "fill"} /\ pc'[w] \in {"fill", "putTracker"}
                 /\ job'[w] = job[w]
              \/ pc[w] = "unborn" /\ pc'[w] = "takeJob" /\ job'[w] = job[w]
         /\ pc'[Reaper] # pc[Reaper] =>
              \/ ReaperCountPill \/ ReaperDelete \/ ReaperFill
              \/ /\ pc[Reaper] \in {"postCompletedEvent", "close", "unborn"}
                 /\ pc'[Reaper] \in {"takeJob", "done"} /\ job'[Reaper] = job[Reaper]
         /\ pc'[Reader] # pc[Reader] =>
              \/ ReaderGetEntry \/ ReaderNewPill
              \/ /\ pc[Reader] \in {"loop", "unborn"} /\ pc'[Reader] \in {"loop", "done"}
                 /\ job'[Reader] = job[Reader]
         /\ UNCHANGED <<queue, step, opq, item>>
         /\ ReaperDelete \/ tool' = tool
         /\ ReaderGetEntry \/ ReaderNewPill \/ ReaperCountPill \/ ReaperDelete \/ job' = job
<1> USE Constants DEF GoTo, Control, Locals
<1>1. CASE ReaderGetEntry \/ ReaderNewPill \/ ReaderReturn
  BY <1>1 DEF ReaderGetEntry, ReaderNewPill, ReaderReturn, syncVars
<1>2. CASE \E w \in Workers : WorkerSetRawEvent(w) \/ WorkerFillTracklets(w)
  BY <1>2 DEF WorkerSetRawEvent, WorkerFillTracklets, syncVars
<1>3. CASE ReaperCountPill \/ ReaperFill \/ ReaperDelete
  BY <1>3 DEF ReaperCountPill, ReaperFill, ReaperDelete, syncVars
<1>4. CASE ReaperPostCompletedEvent \/ ReaperClose
  BY <1>4 DEF ReaperPostCompletedEvent, ReaperClose, syncVars
<1>5. CASE startReaderThread \/ startReaperThread \/ \E w \in Workers : startWorkerThread(w)
  BY <1>5 DEF startReaderThread, startReaperThread, startWorkerThread, Start, syncVars
<1>6. CASE \/ Join({Reader}, "joinReader", "joinReaper")
           \/ Join({Reaper}, "joinReaper", "joinWorkers")
           \/ Join(Workers, "joinWorkers", "returned")
           \/ Destroy
  BY <1>6 DEF Join, Destroy, syncVars
<1>7. QED
  BY <1>1, <1>2, <1>3, <1>4, <1>5, <1>6 DEF LocalStep, MainStep

\* No other step than these makes or deletes a job, or changes its array.
LEMMA LocalJobs ==
  ASSUME Control, JobsOwned, JobData, LocalStep, ~ReaderGetEntry, ~ReaperDelete, NEW e \in Events
  PROVE  /\ jobs'[e] # NULL <=> jobs[e] # NULL
         /\ jobs[e] # NULL => jobs'[e].tracklets = jobs[e].tracklets
<1> USE Constants
<1>1. ASSUME NEW w \in Workers, WorkerFillTracklets(w)
      PROVE  /\ jobs'[e] # NULL <=> jobs[e] # NULL
             /\ jobs[e] # NULL => jobs'[e].tracklets = jobs[e].tracklets
  <2>1. /\ job[w] \in Events /\ jobs[job[w]] # NULL /\ jobs[job[w]] \in KJob
        /\ jobs \in [Events -> KJob \cup {NULL}]
    BY <1>1, WorkedJob DEF WorkerFillTracklets, JobData
  <2>2. PICK n \in Nat : jobs' = [jobs EXCEPT ![job[w]].nTracklets = @ + n]
    <3>1. NTracklets[trackletsInSt[tool[w]]] \in Nat
      BY <1>1, KSchedulerAssumption DEF WorkerFillTracklets, JobData
    <3>2. QED
      BY <1>1, <3>1 DEF WorkerFillTracklets
  <2>3. /\ \A f \in Events \ {job[w]} : jobs'[f] = jobs[f]
        /\ jobs'[job[w]] = [jobs[job[w]] EXCEPT !.nTracklets = @ + n]
    BY <2>1, <2>2
  <2>4. /\ jobs'[job[w]] \in KJob
        /\ jobs'[job[w]].tracklets = jobs[job[w]].tracklets
    BY <2>1, <2>3 DEF KJob
  <2>5. jobs'[job[w]] # NULL
    BY <2>4, KSchedulerAssumption
  <2>6. QED
    BY <2>1, <2>3, <2>4, <2>5
<1>2. CASE jobs' = jobs
  BY <1>2
<1>3. QED
  BY <1>1, <1>2 DEF LocalStep, ReaderNewPill, ReaderReturn, WorkerSetRawEvent,
       ReaperCountPill, ReaperFill, ReaperPostCompletedEvent, ReaperClose, MainStep,
       startReaderThread, startReaperThread, startWorkerThread, Start, Join, Destroy, dataVars

\* The steps of the threads themselves lose nothing: the reader has the new job in hand,
\* and the reaper the array of the job that it deletes.
LEMMA LocalPlaces ==
  ASSUME Q!TypeOK, Control, JobsOwned, JobData, Cleared, Placed, LocalStep
  PROVE  Placed'
<1> USE Constants
<1>0. ArrayPool \in Pools /\ Pool[ArrayPool] = Arrays
  BY DEF ArrayPool, Pools, Pool
<1>1. /\ pc \in [Threads \cup {Main} ->
                   ReaderLabels \cup WorkerLabels \cup ReaperLabels \cup MainLabels]
      /\ job \in [Threads -> Events \cup {POISON, NULL}]
      /\ tool \in [Threads -> Reducers \cup Trackers \cup Arrays \cup {NULL}]
  BY DEF Control, Locals
<1>2. UNCHANGED <<queue, step, opq, item>>
  BY LocalLabels
<1>3. ASSUME NEW p \in Pools, NEW u \in Threads, ~ReaperDelete
      PROVE  ToolsHeld[p][u] \subseteq ToolsHeld'[p][u]
  <2>1. tool' = tool
    BY <1>3, LocalLabels
  <2>2. u \in Users[p] /\ pc[u] \in Uses[p] => pc'[u] \in Uses[p]
    <3>1. CASE u \in Workers
      <4>1. \/ pc'[u] = pc[u]
            \/ pc[u] \in {"setRawEvent", "fill"} /\ pc'[u] \in {"fill", "putTracker"}
            \/ pc[u] = "unborn"
        BY <3>1, LocalLabels
      <4>2. QED
        BY <4>1, UsesOf
    <3>2. CASE u = Reaper
      <4>1. pc'[u] = pc[u] \/ pc[u] # "putArray"
        BY <3>2, LocalLabels DEF ReaperCountPill, ReaperDelete, ReaperFill
      <4>2. QED
        BY <3>2, <4>1, UsesOf
    <3>3. CASE u = Reader
      BY <3>3, UsesOf
    <3>4. QED
      BY <3>1, <3>2, <3>3 DEF Threads
  <2>3. QED
    BY <1>2, <2>1, <2>2 DEF ToolsHeld
<1>4. /\ \A p \in Pipes : \A i \in 1..Len(queue[p]) :
           queue[p][i] \in Events => queue[p][i] \in JobsAt'
      /\ \A p \in Pools : \A i \in 1..Len(queue[p]) :
           queue[p][i] \in Pool[p] => queue[p][i] \in ToolsAt'[p]
  BY <1>2, PlacesAfter
<1>5. CASE ReaderGetEntry
  <2>1. /\ pc[Reader] = "loop" /\ entry \in Events /\ job' = [job EXCEPT ![Reader] = entry]
        /\ jobs' = [jobs EXCEPT ![entry] =
                      [evData |-> entry, tracklets |-> NULL, nTracklets |-> 0]]
    BY <1>5 DEF ReaderGetEntry, Control, Locals, Events
  <2>2. job[Reader] = NULL /\ step[Reader] # "putPost" /\ jobs[entry] = NULL
    BY <2>1 DEF Cleared, NoJob, Control, InOperation, PutsAt, JobData, Events
  <2>3. \A u \in Threads : JobsHeld[u] \subseteq JobsHeld'[u]
    <3>1. \A u \in Threads : job'[u] = job[u] \/ job[u] = NULL
      BY <1>1, <2>1, <2>2
    <3>2. QED
      BY <1>2, <3>1 DEF JobsHeld, Pushed
  <2>4. entry \in JobsHeld'[Reader]
    BY <1>1, <1>2, <2>1, <2>2 DEF JobsHeld, Pushed
  <2>5. \A e \in Events \ {entry} : jobs'[e] = jobs[e]
    BY <2>1 DEF JobData
  <2>6. \A p \in Pools : \A u \in Threads : ToolsHeld[p][u] \subseteq ToolsHeld'[p][u]
    <3>1. ~ReaperDelete
      BY <1>1, <1>5 DEF ReaderGetEntry, ReaperDelete, GoTo
    <3>2. QED
      BY <1>3, <3>1
  <2>7. JobsAt \subseteq JobsAt' /\ entry \in JobsAt'
    BY <1>4, <2>1, <2>3, <2>4, PlacesAfter, HeldTypes DEF JobsAt
  <2>8. ASSUME NEW p \in Pools, NEW x \in ToolsAt[p]
        PROVE  x \in ToolsAt'[p]
    <3>1. /\ x \in Pool[p]
          /\ \/ \E t \in Threads : x \in ToolsHeld[p][t]
             \/ \E i \in 1..Len(queue[p]) : queue[p][i] = x
             \/ p = ArrayPool /\ \E e \in Events : jobs[e] # NULL /\ jobs[e].tracklets = x
      BY <2>8 DEF ToolsAt
    <3>2. CASE \E t \in Threads : x \in ToolsHeld[p][t]
      BY <2>6, <3>1, <3>2, PlacesAfter
    <3>3. CASE \E i \in 1..Len(queue[p]) : queue[p][i] = x
      BY <1>4, <3>1, <3>3
    <3>4. CASE p = ArrayPool /\ \E e \in Events : jobs[e] # NULL /\ jobs[e].tracklets = x
      <4>1. PICK e \in Events : jobs'[e] # NULL /\ jobs'[e].tracklets = x
        BY <2>2, <2>5, <3>4
      <4>2. QED
        BY <3>1, <3>4, <4>1, PlacesAfter
    <3>5. QED
      BY <3>1, <3>2, <3>3, <3>4
  <2>9. QED
    BY <2>5, <2>7, <2>8 DEF Placed
<1>6. CASE ReaperDelete
  <2> DEFINE d == job[Reaper]
             a == jobs[d].tracklets
  <2>1. /\ pc[Reaper] = "delete" /\ d \in Events /\ jobs[d] # NULL /\ a \in Arrays
    BY <1>6, ReapedJob DEF ReaperDelete
  <2>2. /\ tool' = [tool EXCEPT ![Reaper] = a]
        /\ jobs' = [jobs EXCEPT ![d] = NULL]
        /\ job' = [job EXCEPT ![Reaper] = NULL]
        /\ pc' = [pc EXCEPT ![Reaper] = "putArray"]
    BY <1>6 DEF ReaperDelete, GoTo
  <2> HIDE DEF d, a
  <2>3. /\ jobs'[d] = NULL /\ \A e \in Events \ {d} : jobs'[e] = jobs[e]
        /\ \A t \in Threads \ {Reaper} :
             pc'[t] = pc[t] /\ tool'[t] = tool[t] /\ job'[t] = job[t]
        /\ tool'[Reaper] = a /\ pc'[Reaper] = "putArray"
    BY <1>1, <2>1, <2>2 DEF JobData
  <2>4. step[Reaper] \notin {"putPost", "takePost"}
    BY <2>1 DEF Control, InOperation, PutsAt, TakesAt
  <2>5. a \in ToolsHeld'[ArrayPool][Reaper]
    <3>1. Reaper \in Users[ArrayPool] /\ "putArray" \in Uses[ArrayPool]
      BY DEF Users, Uses, ArrayPool
    <3>2. QED
      BY <1>0, <1>2, <2>1, <2>3, <2>4, <3>1 DEF ToolsHeld
  <2>6. ASSUME NEW p \in Pools, NEW u \in Threads
        PROVE  ToolsHeld[p][u] \subseteq ToolsHeld'[p][u]
    <3>1. CASE u = Reaper
      <4>1. Reaper \notin Users[p] \/ pc[Reaper] \notin Uses[p]
        BY <2>1, UsesOf
      <4>2. QED
        BY <1>2, <2>4, <3>1, <4>1 DEF ToolsHeld
    <3>2. CASE u # Reaper
      BY <1>2, <2>3, <3>2 DEF ToolsHeld
    <3>3. QED
      BY <3>1, <3>2
  <2>7. \A u \in Threads : \A e \in JobsHeld[u] : e \in JobsHeld'[u] \/ e = d
    <3>1. \A e \in JobsHeld[Reaper] : e = d
      BY <2>4 DEF JobsHeld, d
    <3>2. QED
      BY <1>2, <2>3, <3>1 DEF JobsHeld, Pushed
  <2>8. \A e \in JobsAt : e \in JobsAt' \/ e = d
    BY <1>4, <2>7, PlacesAfter, HeldTypes DEF JobsAt
  <2>9. ASSUME NEW p \in Pools, NEW x \in ToolsAt[p]
        PROVE  x \in ToolsAt'[p]
    <3>1. /\ x \in Pool[p]
          /\ \/ \E t \in Threads : x \in ToolsHeld[p][t]
             \/ \E i \in 1..Len(queue[p]) : queue[p][i] = x
             \/ p = ArrayPool /\ \E e \in Events : jobs[e] # NULL /\ jobs[e].tracklets = x
      BY <2>9 DEF ToolsAt
    <3>2. CASE \E t \in Threads : x \in ToolsHeld[p][t]
      BY <2>6, <3>1, <3>2, PlacesAfter
    <3>3. CASE \E i \in 1..Len(queue[p]) : queue[p][i] = x
      BY <1>4, <3>1, <3>3
    <3>4. CASE p = ArrayPool /\ \E e \in Events : jobs[e] # NULL /\ jobs[e].tracklets = x
      <4>1. PICK e \in Events : jobs[e] # NULL /\ jobs[e].tracklets = x
        BY <3>4
      <4>2. CASE e = d
        <5>1. x = a
          BY <4>1, <4>2 DEF a
        <5>2. QED
          BY <2>5, <3>1, <3>4, <5>1, PlacesAfter
      <4>3. CASE e # d
        <5>1. jobs'[e] # NULL /\ jobs'[e].tracklets = x
          BY <2>3, <4>1, <4>3
        <5>2. QED
          BY <3>1, <3>4, <5>1, PlacesAfter
      <4>4. QED
        BY <4>2, <4>3
    <3>5. QED
      BY <3>1, <3>2, <3>3, <3>4
  <2>10. QED
    BY <2>3, <2>8, <2>9 DEF Placed
<1>7. CASE ~ReaderGetEntry /\ ~ReaperDelete
  <2>1. \A u \in Threads : job'[u] = job[u] \/ job[u] \notin Events
    <3>1. CASE ReaderNewPill
      <4>1. job[Reader] = NULL /\ job' = [job EXCEPT ![Reader] = POISON]
        BY <3>1 DEF ReaderNewPill, Cleared, NoJob
      <4>2. QED
        BY <1>1, <4>1
    <3>2. CASE ReaperCountPill
      <4>1. job[Reaper] = POISON /\ job' = [job EXCEPT ![Reaper] = NULL]
        BY <3>2 DEF ReaperCountPill, Control, Pointers
      <4>2. QED
        BY <1>1, <4>1
    <3>3. QED
      BY <1>7, <3>1, <3>2, LocalLabels
  <2>2. \A u \in Threads : JobsHeld[u] \subseteq JobsHeld'[u]
    BY <1>2, <2>1 DEF JobsHeld, Pushed
  <2>3. \A p \in Pools : \A u \in Threads : ToolsHeld[p][u] \subseteq ToolsHeld'[p][u]
    BY <1>3, <1>7
  <2>4. \A e \in Events : /\ jobs'[e] # NULL <=> jobs[e] # NULL
                          /\ jobs[e] # NULL => jobs'[e].tracklets = jobs[e].tracklets
    BY <1>7, LocalJobs
  <2>5. ASSUME NEW e \in Events, jobs[e] # NULL, jobs[e].tracklets \in Pool[ArrayPool]
        PROVE  jobs[e].tracklets \in ToolsAt'[ArrayPool]
    BY <2>4, <2>5, PlacesAfter
  <2>6. \A u \in Threads : JobsHeld[u] \subseteq JobsAt'
    BY <2>2, PlacesAfter, HeldTypes
  <2>7. \A p \in Pools : \A u \in Threads : ToolsHeld[p][u] \subseteq ToolsAt'[p]
    BY <2>3, PlacesAfter, HeldTypes
  <2>8. QED
    BY <1>4, <2>4, <2>5, <2>6, <2>7, NothingLost
<1>8. QED
  BY <1>5, <1>6, <1>7

\* Nothing is lost by any step.
LEMMA NextPlaces ==
  ASSUME Q!TypeOK, Front, Control, JobsOwned, JobData, Cleared, Placed, [Next]_vars
  PROVE  Placed'
<1>1. CASE QueueStep
  BY <1>1, TakingPlaces, PuttingPlaces, PostPlaces DEF QueueStep
<1>2. CASE UNCHANGED vars
  <2>1. UNCHANGED <<queue, step, opq, item, pc, job, tool, jobs>>
    BY <1>2 DEF vars
  <2>2. JobsHeld' = JobsHeld /\ ToolsHeld' = ToolsHeld
    BY <2>1 DEF JobsHeld, ToolsHeld, Pushed
  <2>3. JobsAt' = JobsAt /\ ToolsAt' = ToolsAt
    BY <2>1, <2>2 DEF JobsAt, ToolsAt
  <2>4. QED
    BY <2>1, <2>3 DEF Placed
<1>3. QED
  BY <1>1, <1>2, ArrayTakenPlaces, LocalPlaces, Moves

\* No step leaves a pointer behind.
LEMMA NextCleared ==
  ASSUME Q!TypeOK, Control, JobsOwned, JobData, Cleared, [Next]_vars
  PROVE  Cleared'
<1> USE Constants
<1>0. Pipes \cap Pools = {} /\ AllQueues = Pipes \cup Pools
  BY DEF Pipes, Pools, AllQueues
<1>1. /\ pc \in [Threads \cup {Main} ->
                   ReaderLabels \cup WorkerLabels \cup ReaperLabels \cup MainLabels]
      /\ job \in [Threads -> Events \cup {POISON, NULL}]
  BY DEF Control, Locals
<1>2. ASSUME NEW t \in Threads, NEW q \in AllQueues,
             JobTaken(t, q) \/ JobPut(t, q) \/ ToolTaken(t, q) \/ ToolPut(t, q)
      PROVE  Cleared'
  <2>1. jobs' = jobs /\ \A u \in Threads \ {t} : pc'[u] = pc[u] /\ job'[u] = job[u]
    BY <1>1, <1>2 DEF JobTaken, JobPut, ToolTaken, ToolPut, GoTo, dataVars
  <2>2. pc'[t] \in NoJob => job'[t] = NULL
    <3>1. CASE JobTaken(t, q)
      BY <1>1, <3>1 DEF JobTaken, GoTo, NoJob
    <3>2. CASE JobPut(t, q)
      BY <1>1, <3>2 DEF JobPut
    <3>3. CASE ToolTaken(t, q)
      BY <1>1, <3>3 DEF ToolTaken, GoTo, NoJob
    <3>4. CASE ToolPut(t, q)
      <4>1. pc'[t] \in {"takeTracker", "putJob", "postCompletedEvent"} /\ job' = job
            /\ (pc'[t] = "postCompletedEvent" => pc[t] = "putArray")
        BY <1>1, <3>4 DEF ToolPut, PutsAt, GoTo, Pools
      <4>2. QED
        BY <4>1 DEF Cleared, NoJob
    <3>5. QED
      BY <1>2, <3>1, <3>2, <3>3, <3>4
  <2>3. pc'[t] # "takeArray"
    BY <1>1, <1>2 DEF JobTaken, JobPut, ToolTaken, ToolPut, GoTo, Pools
  <2>4. QED
    BY <2>1, <2>2, <2>3 DEF Cleared
<1>3. CASE QueueStep
  <2>1. CASE UNCHANGED privateVars
    BY <2>1 DEF privateVars, Cleared
  <2>2. QED
    BY <1>2, <1>3, <2>1 DEF QueueStep, Taking, Putting
<1>4. CASE ArrayTaken
  <2>1. pc' = [pc EXCEPT ![Reader] = "putJob"] /\ job' = job
    BY <1>4 DEF ArrayTaken, GoTo
  <2>2. QED
    BY <1>1, <2>1 DEF Cleared, NoJob
<1>5. CASE LocalStep
  <2>1. \A t \in Threads : pc'[t] \in NoJob => job'[t] = NULL
    <3>1. CASE ReaderGetEntry
      BY <1>1, <3>1 DEF ReaderGetEntry, GoTo, Cleared, NoJob
    <3>2. CASE ReaderNewPill
      BY <1>1, <3>2 DEF ReaderNewPill, GoTo, Cleared, NoJob
    <3>3. CASE ReaperCountPill
      BY <1>1, <3>3 DEF ReaperCountPill, GoTo, Cleared, NoJob
    <3>4. CASE ReaperDelete
      BY <1>1, <3>4 DEF ReaperDelete, GoTo, Cleared, NoJob
    <3>5. CASE ReaperFill
      BY <1>1, <3>5 DEF ReaperFill, GoTo, Cleared, NoJob
    <3>6. CASE ~ReaderGetEntry /\ ~ReaderNewPill /\ ~ReaperCountPill /\ ~ReaperDelete /\ ~ReaperFill
      <4>1. job' = job
        BY <1>5, <3>6, LocalLabels
      <4>2. \A t \in Threads : pc'[t] \in NoJob => pc[t] \in NoJob
        <5>1. ASSUME NEW w \in Workers
              PROVE  pc'[w] \in NoJob => pc[w] \in NoJob
          BY <1>5, LocalLabels DEF NoJob
        <5>2. \A t \in {Reader, Reaper} : pc'[t] \in NoJob => pc[t] \in NoJob
          BY <1>5, <3>6, LocalLabels DEF NoJob
        <5>3. QED
          BY <5>1, <5>2 DEF Threads
      <4>3. QED
        BY <4>1, <4>2 DEF Cleared
    <3>7. QED
      BY <3>1, <3>2, <3>3, <3>4, <3>5, <3>6
  <2>2. pc'[Reader] = "takeArray" => jobs'[job'[Reader]].tracklets = NULL
    <3>1. CASE ReaderGetEntry
      <4>1. /\ job' = [job EXCEPT ![Reader] = entry] /\ entry \in Events
            /\ jobs' = [jobs EXCEPT ![entry] =
                          [evData |-> entry, tracklets |-> NULL, nTracklets |-> 0]]
        BY <3>1 DEF ReaderGetEntry, Control, Locals, Events
      <4>2. QED
        BY <1>1, <4>1 DEF JobData
    <3>2. ASSUME ~ReaderGetEntry, pc'[Reader] = "takeArray"
          PROVE  jobs'[job'[Reader]].tracklets = NULL
      <4>1. pc[Reader] = "takeArray" /\ ~ReaderNewPill
        BY <1>1, <1>5, <3>2, LocalLabels DEF ReaderNewPill, GoTo
      <4>2. /\ job[Reader] \in Events /\ job[Reader] \in JobsHeld[Reader]
            /\ jobs[job[Reader]] # NULL /\ jobs[job[Reader]].tracklets = NULL
        <5>1. job[Reader] \in Events /\ job[Reader] \in JobsHeld[Reader]
          BY <4>1, InHand DEF Control, Pointers
        <5>2. QED
          BY <4>1, <5>1 DEF JobsOwned, Cleared
      <4>3. CASE ReaperDelete
        <5>1. /\ job[Reaper] \in JobsHeld[Reaper]
              /\ jobs' = [jobs EXCEPT ![job[Reaper]] = NULL]
              /\ job' = [job EXCEPT ![Reaper] = NULL]
          BY <4>3, ReapedJob DEF ReaperDelete
        <5>2. job[Reaper] # job[Reader]
          BY <4>2, <5>1 DEF JobsOwned, Sole
        <5>3. QED
          BY <1>1, <4>2, <5>1, <5>2 DEF JobData
      <4>4. CASE ~ReaperDelete
        <5>1. job'[Reader] = job[Reader]
          BY <1>1, <1>5, <3>2, <4>1, <4>4, LocalLabels DEF ReaperCountPill
        <5>2. QED
          BY <1>5, <3>2, <4>2, <4>4, <5>1, LocalJobs
      <4>5. QED
        BY <4>3, <4>4
    <3>3. QED
      BY <3>1, <3>2
  <2>3. QED
    BY <2>1, <2>2 DEF Cleared
<1>6. CASE UNCHANGED vars
  BY <1>6 DEF vars, Cleared
<1>7. QED
  BY <1>3, <1>4, <1>5, <1>6, Moves

\* A thread that has ended stays so, and main goes on when the thread that it waits for
\* has ended.
LEMMA NextJoined ==
  ASSUME Control, Joined, [Next]_vars
  PROVE  Joined'
<1> USE Constants
<1>1. pc \in [Threads \cup {Main} ->
                ReaderLabels \cup WorkerLabels \cup ReaperLabels \cup MainLabels]
  BY DEF Control, Locals
<1>2. ASSUME \A t \in Threads : pc[t] = "done" => pc'[t] = "done", pc'[Main] = pc[Main]
      PROVE  Joined'
  BY <1>2 DEF Joined
<1>3. CASE QueueStep \/ ArrayTaken
  <2>1. PICK t \in Threads : pc[t] # "done" /\ \A u \in (Threads \cup {Main}) \ {t} : pc'[u] = pc[u]
    <3>1. CASE ArrayTaken
      BY <1>1, <3>1 DEF ArrayTaken, GoTo
    <3>2. ASSUME NEW t \in Threads, NEW q \in AllQueues,
                 JobTaken(t, q) \/ JobPut(t, q) \/ ToolTaken(t, q) \/ ToolPut(t, q)
          PROVE  pc[t] # "done" /\ \A u \in (Threads \cup {Main}) \ {t} : pc'[u] = pc[u]
      BY <1>1, <3>2 DEF JobTaken, JobPut, ToolTaken, ToolPut, TakesAt, PutsAt, GoTo
    <3>3. ASSUME NEW t \in Threads, NEW q \in AllQueues,
                 Taking(t, q) \/ \E v : Putting(t, q, v)
          PROVE  pc[t] # "done" /\ \A u \in (Threads \cup {Main}) \ {t} : pc'[u] = pc[u]
      BY <3>3 DEF Taking, Putting, TakesAt, PutsAt, privateVars
    <3>4. QED
      BY <1>3, <3>1, <3>2, <3>3 DEF QueueStep
  <2>2. QED
    BY <1>2, <2>1
<1>4. CASE LocalStep /\ ~MainStep
  <2>1. pc'[Main] = pc[Main]
    BY <1>1, <1>4 DEF LocalStep, ReaderGetEntry, ReaderNewPill, ReaderReturn, WorkerSetRawEvent,
         WorkerFillTracklets, ReaperCountPill, ReaperFill, ReaperDelete,
         ReaperPostCompletedEvent, ReaperClose, GoTo
  <2>2. \A t \in Threads : pc[t] = "done" => pc'[t] = "done"
    BY <1>4, LocalLabels DEF Threads, ReaderGetEntry, ReaderNewPill, ReaperCountPill,
         ReaperFill, ReaperDelete
  <2>3. QED
    BY <1>2, <2>1, <2>2
<1>5. CASE startReaderThread \/ startReaperThread \/ \E w \in Workers : startWorkerThread(w)
  <2>1. /\ pc[Main] \in {"startReader", "startReaper", "startWorkers"}
        /\ pc'[Main] \in {"startReaper", "startWorkers", "joinReader"}
        /\ \A t \in Threads : pc[t] = "done" => pc'[t] = "done"
    BY <1>1, <1>5 DEF startReaderThread, startReaperThread, startWorkerThread, Start
  <2>2. QED
    BY <2>1 DEF Joined
<1>6. CASE \/ Join({Reader}, "joinReader", "joinReaper")
           \/ Join({Reaper}, "joinReaper", "joinWorkers")
           \/ Join(Workers, "joinWorkers", "returned")
           \/ Destroy
  <2>1. \A t \in Threads : pc'[t] = pc[t]
    BY <1>1, <1>6 DEF Join, Destroy, GoTo
  <2>2. QED
    BY <1>1, <1>6, <2>1 DEF Join, Destroy, GoTo, Joined
<1>7. CASE UNCHANGED vars
  BY <1>7 DEF vars, Joined
<1>8. QED
  BY <1>3, <1>4, <1>5, <1>6, <1>7, Moves DEF MainStep

\* From the Fill to the count of the event, the reaper goes on only by these steps.
LEMMA ReaperBusy ==
  ASSUME Control, [Next]_vars, ~ReaperFill, ~ReaperDelete, ~ReaperPostCompletedEvent
  PROVE  /\ pc'[Reaper] \in {"delete", "putArray", "postCompletedEvent"} <=>
              pc[Reaper] \in {"delete", "putArray", "postCompletedEvent"}
         /\ pc'[Reaper] = "delete" => pc[Reaper] = "delete" /\ job'[Reaper] = job[Reaper]
         /\ UNCHANGED <<saveTree, completedEvents>>
         /\ ReaderGetEntry \/ entry' = entry
<1> USE Constants
<1>1. /\ pc \in [Threads \cup {Main} ->
                   ReaderLabels \cup WorkerLabels \cup ReaperLabels \cup MainLabels]
      /\ job \in [Threads -> Events \cup {POISON, NULL}]
  BY DEF Control, Locals
<1>2. CASE QueueStep
  <2>1. CASE UNCHANGED privateVars
    BY <2>1 DEF privateVars
  <2>2. ASSUME NEW t \in Threads, NEW q \in AllQueues,
               JobTaken(t, q) \/ JobPut(t, q) \/ ToolTaken(t, q) \/ ToolPut(t, q)
        PROVE  /\ t = Reaper => /\ pc'[t] # "delete"
                                /\ pc'[t] \in {"putArray", "postCompletedEvent"} <=>
                                     pc[t] \in {"delete", "putArray", "postCompletedEvent"}
               /\ t # Reaper => pc'[Reaper] = pc[Reaper] /\ job'[Reaper] = job[Reaper]
               /\ UNCHANGED <<saveTree, completedEvents, entry>>
    <3>1. CASE JobTaken(t, q)
      BY <1>1, <3>1 DEF JobTaken, TakesAt, GoTo, readerVars, outputVars
    <3>2. CASE JobPut(t, q)
      BY <1>1, <3>2 DEF JobPut, PutsAt, Pipes, GoTo, readerVars, outputVars
    <3>3. CASE ToolTaken(t, q)
      BY <1>1, <3>3 DEF ToolTaken, GoTo, readerVars, outputVars
    <3>4. CASE ToolPut(t, q)
      BY <1>1, <3>4 DEF ToolPut, PutsAt, GoTo, readerVars, outputVars
    <3>5. QED
      BY <2>2, <3>1, <3>2, <3>3, <3>4
  <2>3. QED
    BY <1>2, <2>1, <2>2 DEF QueueStep, Taking, Putting
<1>3. CASE ArrayTaken
  BY <1>1, <1>3 DEF ArrayTaken, GoTo, readerVars, outputVars
<1>4. CASE LocalStep
  <2>1. UNCHANGED <<saveTree, completedEvents>> /\ (ReaderGetEntry \/ entry' = entry)
    BY <1>4 DEF LocalStep, ReaderGetEntry, ReaderNewPill, ReaderReturn, WorkerSetRawEvent,
         WorkerFillTracklets, ReaperCountPill, ReaperFill, ReaperDelete,
         ReaperPostCompletedEvent, ReaperClose, MainStep, startReaderThread,
         startReaperThread, startWorkerThread, Start, Join, Destroy, outputVars, readerVars
  <2>2. pc'[Reaper] = pc[Reaper] \/
          (/\ pc[Reaper] \in {"countPill", "close", "unborn"}
           /\ pc'[Reaper] \in {"close", "done", "takeJob"})
    <3>1. CASE ReaperCountPill
      BY <1>1, <3>1 DEF ReaperCountPill, GoTo
    <3>2. CASE ReaperClose
      BY <1>1, <3>2 DEF ReaperClose, GoTo
    <3>3. CASE ReaderGetEntry \/ ReaderNewPill \/ ReaderReturn
      BY <1>1, <3>3 DEF ReaderGetEntry, ReaderNewPill, ReaderReturn, GoTo
    <3>4. CASE \E w \in Workers : WorkerSetRawEvent(w) \/ WorkerFillTracklets(w)
      BY <1>1, <3>4 DEF WorkerSetRawEvent, WorkerFillTracklets, GoTo
    <3>5. CASE startReaderThread \/ startReaperThread
               \/ \E w \in Workers : startWorkerThread(w)
      BY <1>1, <3>5 DEF startReaderThread, startReaperThread, startWorkerThread, Start
    <3>6. CASE \/ Join({Reader}, "joinReader", "joinReaper")
               \/ Join({Reaper}, "joinReaper", "joinWorkers")
               \/ Join(Workers, "joinWorkers", "returned")
               \/ Destroy
      BY <1>1, <3>6 DEF Join, Destroy, GoTo
    <3>7. QED
      BY <1>4, <3>1, <3>2, <3>3, <3>4, <3>5, <3>6 DEF LocalStep, MainStep
  <2>3. pc'[Reaper] = "delete" => job'[Reaper] = job[Reaper]
    BY <1>1, <1>4, <2>2, LocalLabels DEF ReaderGetEntry, ReaderNewPill, ReaperCountPill
  <2>4. QED
    BY <2>1, <2>2, <2>3
<1>5. CASE UNCHANGED vars
  BY <1>5 DEF vars
<1>6. QED
  BY <1>2, <1>3, <1>4, <1>5, Moves

\* A job stays until the reaper deletes it.
LEMMA JobsStay ==
  ASSUME Control, JobsOwned, JobData, [Next]_vars, ~ReaperDelete, NEW e \in Events,
         jobs[e] # NULL
  PROVE  jobs'[e] # NULL
<1> USE Constants
<1>1. CASE QueueStep
  BY <1>1 DEF QueueStep, Taking, Putting, privateVars, JobTaken, JobPut, ToolTaken, ToolPut,
              dataVars
<1>2. CASE ArrayTaken
  <2>1. /\ pc[Reader] = "takeArray" /\ job[Reader] \in Events /\ item[Reader] \in Arrays
    BY <1>2 DEF ArrayTaken, Control, Pointers, Carriage, Carried, Pipes, Pool, Q!TakePost, Q!At
  <2>2. jobs[job[Reader]] \in KJob
    <3>1. job[Reader] \in JobsHeld[Reader]
      BY <2>1, InHand
    <3>2. jobs[job[Reader]] # NULL
      BY <3>1 DEF JobsOwned
    <3>3. QED
      BY <2>1, <3>2 DEF JobData
  <2>3. jobs' = [jobs EXCEPT ![job[Reader]].tracklets = item[Reader]]
    BY <1>2 DEF ArrayTaken
  <2>4. jobs'[job[Reader]] = [jobs[job[Reader]] EXCEPT !.tracklets = item[Reader]]
        /\ \A f \in Events \ {job[Reader]} : jobs'[f] = jobs[f]
    BY <2>1, <2>3 DEF JobData
  <2>5. jobs'[job[Reader]] \in KJob
    BY <2>1, <2>2, <2>4 DEF KJob
  <2>6. QED
    BY <2>4, <2>5, KSchedulerAssumption
<1>3. CASE ReaderGetEntry
  <2>1. /\ jobs' = [jobs EXCEPT ![entry] =
                      [evData |-> entry, tracklets |-> NULL, nTracklets |-> 0]]
        /\ entry \in Events
    BY <1>3 DEF ReaderGetEntry, Control, Locals, Events
  <2>2. e # entry
    BY <2>1 DEF JobData, Events
  <2>3. QED
    BY <2>1, <2>2
<1>4. CASE LocalStep /\ ~ReaderGetEntry
  BY <1>4, LocalJobs
<1>5. CASE UNCHANGED vars
  BY <1>5 DEF vars
<1>6. QED
  BY <1>1, <1>2, <1>3, <1>4, <1>5, Moves

\* An event that has been read is not forgotten, and is counted once.
LEMMA NextKept ==
  ASSUME Q!TypeOK, Control, JobsOwned, JobData, saveTree \in Seq(OutputEntry),
         EventsKept, [Next]_vars
  PROVE  EventsKept'
<1> USE Constants
<1>1. /\ pc \in [Threads \cup {Main} ->
                   ReaderLabels \cup WorkerLabels \cup ReaperLabels \cup MainLabels]
      /\ job \in [Threads -> Events \cup {POISON, NULL}]
      /\ entry \in Nat /\ completedEvents \in Nat /\ Len(saveTree) \in Nat
  BY DEF Control, Locals
<1>2. CASE ReaperDelete
  <2>1. /\ pc[Reaper] = "delete" /\ pc'[Reaper] = "putArray"
        /\ jobs' = [jobs EXCEPT ![job[Reaper]] = NULL]
        /\ UNCHANGED <<entry, saveTree, completedEvents>>
    BY <1>1, <1>2 DEF ReaperDelete, GoTo, readerVars, outputVars
  <2>2. Written' = Written
    BY <2>1 DEF Written
  <2>3. job[Reaper] \in Written /\ \A e \in Events \ {job[Reaper]} : jobs'[e] = jobs[e]
    BY <2>1 DEF EventsKept, JobData
  <2>4. QED
    BY <2>1, <2>2, <2>3 DEF EventsKept
<1>3. CASE ReaperFill
  <2>1. /\ pc[Reaper] = "fill" /\ pc'[Reaper] = "delete"
        /\ UNCHANGED <<entry, jobs, job, completedEvents>>
    BY <1>1, <1>3 DEF ReaperFill, GoTo, readerVars, dataVars
  <2>2. PICK x : saveTree' = Append(saveTree, x) /\ x.rawEvent = job[Reaper]
    <3>1. /\ job[Reaper] \in Events /\ jobs[job[Reaper]] # NULL
          /\ raw[jobs[job[Reaper]].evData] = job[Reaper]
      BY <2>1, ReapedJob DEF JobData
    <3>2. QED
      BY <1>3, <3>1 DEF ReaperFill
  <2>3. /\ Len(saveTree') = Len(saveTree) + 1
        /\ \A i \in 1..Len(saveTree) : saveTree'[i] = saveTree[i]
        /\ saveTree'[Len(saveTree) + 1] = x
    BY <2>2
  <2>4. /\ \A i \in 1..Len(saveTree) : i \in 1..Len(saveTree')
        /\ Len(saveTree) + 1 \in 1..Len(saveTree')
    BY <1>1, <2>3
  <2>5. Written \subseteq Written' /\ job[Reaper] \in Written'
    BY <2>2, <2>3, <2>4 DEF Written
  <2>6. QED
    BY <1>1, <2>1, <2>3, <2>5 DEF EventsKept
<1>4. CASE ReaperPostCompletedEvent
  <2>1. /\ pc[Reaper] = "postCompletedEvent" /\ pc'[Reaper] = "takeJob"
        /\ completedEvents' = completedEvents + 1
        /\ UNCHANGED <<entry, jobs, saveTree>>
    BY <1>1, <1>4 DEF ReaperPostCompletedEvent, GoTo, readerVars, dataVars
  <2>2. Written' = Written
    BY <2>1 DEF Written
  <2>3. QED
    BY <1>1, <2>1, <2>2 DEF EventsKept
<1>5. CASE ~ReaperFill /\ ~ReaperDelete /\ ~ReaperPostCompletedEvent
  <2>1. /\ pc'[Reaper] \in {"delete", "putArray", "postCompletedEvent"} <=>
              pc[Reaper] \in {"delete", "putArray", "postCompletedEvent"}
        /\ pc'[Reaper] = "delete" => pc[Reaper] = "delete" /\ job'[Reaper] = job[Reaper]
        /\ UNCHANGED <<saveTree, completedEvents>>
        /\ ReaderGetEntry \/ entry' = entry
    BY <1>5, ReaperBusy
  <2>2. Written' = Written
    BY <2>1 DEF Written
  <2>3. \A e \in Events : jobs[e] # NULL => jobs'[e] # NULL
    BY <1>5, JobsStay
  <2>4. ReaderGetEntry => entry' = entry + 1 /\ entry \in Events /\ jobs'[entry] # NULL
    <3>1. ASSUME ReaderGetEntry
          PROVE  /\ entry' = entry + 1 /\ entry \in Events
                 /\ jobs' = [jobs EXCEPT ![entry] =
                               [evData |-> entry, tracklets |-> NULL, nTracklets |-> 0]]
      BY <3>1 DEF ReaderGetEntry, Control, Locals, Events
    <3>2. ASSUME ReaderGetEntry
          PROVE  jobs'[entry] \in KJob
      BY <3>1, <3>2 DEF JobData, KJob
    <3>3. QED
      BY <3>1, <3>2, KSchedulerAssumption
  <2>5. ASSUME NEW e \in Events, e < entry'
        PROVE  jobs'[e] # NULL \/ e \in Written'
    <3>1. e < entry \/ (ReaderGetEntry /\ e = entry)
      BY <1>1, <2>1, <2>4, <2>5
    <3>2. QED
      BY <2>2, <2>3, <2>4, <3>1 DEF EventsKept
  <2>6. QED
    BY <2>1, <2>2, <2>5 DEF EventsKept
<1>6. QED
  BY <1>2, <1>3, <1>4, <1>5

-----------------------------------------------------------------------------
\* At first nothing has been lent, read or counted.
LEMMA InitPlaces == Init => Cleared /\ Placed /\ EventsKept /\ Joined
<1> SUFFICES ASSUME Init PROVE Cleared /\ Placed /\ EventsKept /\ Joined
  OBVIOUS
<1> USE Constants
<1>1. /\ pc = [t \in Threads \cup {Main} |-> IF t = Main THEN "startReader" ELSE "unborn"]
      /\ job = [t \in Threads |-> NULL] /\ jobs = [e \in Events |-> NULL]
      /\ entry = 0 /\ saveTree = <<>> /\ completedEvents = 0 /\ queue = Filled
  BY DEF Init, Q!Init
<1>2. Cleared
  BY <1>1 DEF Cleared
<1>3. Placed
  <2>1. ASSUME NEW q \in Pools
        PROVE  Pool[q] = 1..Depth[q] /\ Depth[q] \in Nat
    <3>1. /\ NEVENT_REDUCERS \in Nat /\ NKFAST_TRACKERS \in Nat /\ NTRACK_ARRAYS \in Nat
      BY KSchedulerAssumption
    <3>2. QED
      BY <3>1 DEF Pools, Pool, Depth, Reducers, Trackers, Arrays
  <2>2. ASSUME NEW q \in Pools, NEW x \in Pool[q]
        PROVE  x \in ToolsAt[q]
    <3>1. queue[q] = [i \in 1..Depth[q] |-> i]
      BY <1>1 DEF Filled, Pools, Pipes
    <3>2. Len(queue[q]) = Depth[q]
      BY <2>1, <3>1
    <3>3. x \in 1..Len(queue[q]) /\ queue[q][x] = x
      BY <2>1, <3>1, <3>2
    <3>4. QED
      BY <3>3 DEF ToolsAt
  <2>3. QED
    BY <1>1, <2>2 DEF Placed
<1>4. EventsKept
  <2>1. \A e \in Events : ~(e < entry)
    BY <1>1 DEF Events
  <2>2. Len(saveTree) = 0
    BY <1>1
  <2>3. QED
    BY <1>1, <2>1, <2>2 DEF EventsKept
<1>5. Joined
  BY <1>1 DEF Joined
<1>6. QED
  BY <1>2, <1>3, <1>4, <1>5

\* A thread that has ended, or is passing its pill on, has nothing in hand.
LEMMA EmptyHands ==
  ASSUME Control, Cleared, NEW t \in Threads,
         \/ pc[t] \in {"done", "close", "putPill"}
         \/ pc[t] = "loop"
  PROVE  JobsHeld[t] = {} /\ \A q \in Pools : ToolsHeld[q][t] = {}
<1> USE Constants
<1>1. step[t] # "takePost"
  BY DEF Control, InOperation, TakesAt
<1>2. job[t] \notin Events
  <2>1. CASE pc[t] = "putPill"
    <3>1. t \in Workers \/ t = Reader
      BY <2>1 DEF Threads, Control, Locals, ReaperLabels
    <3>2. QED
      BY <2>1, <3>1 DEF Control, Pointers
  <2>2. CASE pc[t] # "putPill"
    BY <2>2 DEF Cleared, NoJob
  <2>3. QED
    BY <2>1, <2>2
<1>3. \A q \in Pools : pc[t] \notin Uses[q]
  BY UsesOf
<1>4. QED
  BY <1>1, <1>2, <1>3 DEF JobsHeld, ToolsHeld

\* When the reaper has counted its last pill, all workers have passed theirs on, the
\* second pipe is empty, and there is nothing but pills in the first.
LEMMA LastPill ==
  ASSUME Q!TypeOK, Control, Pills, pc[Reaper] \in {"close", "done"}
  PROVE  /\ Passed = Workers /\ Takers = Workers
         /\ entry = NEvents /\ pc[Reader] \in {"loop", "putPill", "done"}
         /\ queue["cmpJobQueue"] = <<>>
         /\ \A i \in 1..Len(queue["newJobQueue"]) : queue["newJobQueue"][i] = POISON
<1> USE Constants
<1> DEFINE c == Cardinality(PillsIn["cmpJobQueue"])
<1>1. /\ IsFiniteSet(Workers) /\ Workers # {} /\ Cardinality(Workers) = NTHREADS
  BY KSchedulerAssumption DEF NTHREADS
<1>2. /\ IsFiniteSet(Passed) /\ Cardinality(Passed) \in Nat /\ c \in Nat
      /\ pills \in Nat /\ NTHREADS \in Nat
  BY PillNumbers DEF Pipes
<1>3. Cardinality(Passed) = NTHREADS + c
  <2>1. /\ Cardinality(Passed) = poisonPills + ReaperPill + c
        /\ poisonPills = NTHREADS
    BY DEF Pills, PillsCounted
  <2>2. ReaperPill = 0
    BY DEF ReaperPill
  <2>3. QED
    BY <1>2, <2>1, <2>2
<1>4. Passed \in SUBSET Workers
  BY DEF Passed
<1>5. Cardinality(Passed) <= NTHREADS /\ (Cardinality(Passed) = NTHREADS => Passed = Workers)
  BY <1>1, <1>4, FS_Subset
<1>6. c = 0 /\ Passed = Workers
  <2>1. c = 0
    BY <1>2, <1>3, <1>5
  <2>2. QED
    BY <1>2, <1>3, <1>5, <2>1
<1>7. PillsIn["cmpJobQueue"] = {}
  <2>1. queue["cmpJobQueue"] \in Seq(Items)
    BY DEF Q!TypeOK, Pipes
  <2>2. IsFiniteSet(PlacesOf(POISON, queue["cmpJobQueue"]))
    BY <2>1, PlacesFinite
  <2>3. PillsIn["cmpJobQueue"] = PlacesOf(POISON, queue["cmpJobQueue"])
    BY DEF PillsIn, Pipes
  <2>4. QED
    BY <1>6, <2>2, <2>3, FS_EmptySet
<1>8. queue["cmpJobQueue"] = <<>>
  <2>1. queue["cmpJobQueue"] \in Seq(Items)
    BY DEF Q!TypeOK, Pipes
  <2>2. \A i \in 1..Len(queue["cmpJobQueue"]) : FALSE
    BY <1>6, <1>7 DEF Pills, PillBehind
  <2>3. QED
    BY <2>1, <2>2
<1>9. Takers = Workers
  BY <1>6 DEF Takers, Passed
<1>10. PillsIn["newJobQueue"] = 1..Len(queue["newJobQueue"]) /\ pills # 0
  BY <1>1, <1>9 DEF Pills, PillsLast
<1>11. \A i \in 1..Len(queue["newJobQueue"]) : queue["newJobQueue"][i] = POISON
  <2>1. PillsIn["newJobQueue"] = PlacesOf(POISON, queue["newJobQueue"])
    BY DEF PillsIn, Pipes
  <2>2. QED
    BY <1>10, <2>1 DEF PlacesOf
<1>12. entry = NEvents /\ pc[Reader] \in {"loop", "putPill", "done"}
  BY <1>2, <1>10 DEF Pills, PillsLast
<1>13. QED
  BY <1>6, <1>8, <1>9, <1>11, <1>12

\* No job is left then, and all events have been written.
LEMMA NothingLeft ==
  ASSUME Q!TypeOK, Control, Cleared, Placed, EventsKept, Pills, Output,
         pc[Reaper] \in {"close", "done"}
  PROVE  /\ \A e \in Events : jobs[e] = NULL
         /\ Written = Events
<1> USE Constants
<1>1. /\ Passed = Workers /\ entry = NEvents /\ pc[Reader] \in {"loop", "putPill", "done"}
      /\ queue["cmpJobQueue"] = <<>>
      /\ \A i \in 1..Len(queue["newJobQueue"]) : queue["newJobQueue"][i] = POISON
  BY LastPill
<1>2. \A t \in Threads : JobsHeld[t] = {}
  <2>1. \A t \in Threads : pc[t] \in {"done", "close", "putPill"} \/ pc[t] = "loop"
    BY <1>1 DEF Threads, Passed
  <2>2. QED
    BY <2>1, EmptyHands
<1>3. ASSUME NEW e \in Events
      PROVE  jobs[e] = NULL
  <2>1. \A q \in Pipes : \A i \in 1..Len(queue[q]) : queue[q][i] # e
    <3>1. Len(queue["cmpJobQueue"]) = 0
      BY <1>1
    <3>2. QED
      BY <1>1, <3>1 DEF Pipes
  <2>2. e \notin JobsAt
    BY <1>2, <2>1 DEF JobsAt
  <2>3. QED
    BY <2>2 DEF Placed
<1>4. Events \subseteq Written
  <2>1. \A e \in Events : e < entry
    BY <1>1 DEF Events
  <2>2. QED
    BY <1>3, <2>1 DEF EventsKept
<1>5. Written \subseteq Events
  <2>1. \A i \in 1..Len(saveTree) : saveTree[i].rawEvent \in Events
    BY DEF Output, OutputExact, WrittenFaithfully
  <2>2. QED
    BY <2>1 DEF Written
<1>6. QED
  BY <1>3, <1>4, <1>5

\* When runThreads() returns, the pipes are empty and the pools full.
LEMMA AllReturned ==
  ASSUME Q!TypeOK, Control, Cleared, Placed, EventsKept, Pills, Output, Joined,
         pc[Main] = "returned"
  PROVE  /\ \A q \in Pools : Contents(q) = Pool[q]
         /\ \A q \in Pipes : queue[q] = <<>>
         /\ completedEvents = NEvents
<1> USE Constants
<1>1. \A t \in Threads : pc[t] = "done"
  BY DEF Joined, Threads
<1>2. pc[Reaper] = "done" /\ pc[Reader] = "done"
  BY <1>1
<1>3. /\ Takers = Workers /\ queue["cmpJobQueue"] = <<>>
      /\ \A e \in Events : jobs[e] = NULL
      /\ Written = Events
  BY <1>2, LastPill, NothingLeft
<1>4. queue["newJobQueue"] = <<>>
  <2> DEFINE c == Cardinality(PillsIn["newJobQueue"])
  <2>1. /\ pills = ReaderPill + c + Cardinality(Takers) /\ pills = NTHREADS
        /\ PillsIn["newJobQueue"] = 1..Len(queue["newJobQueue"])
    BY <1>2, <1>3, KSchedulerAssumption DEF Pills, PillsCounted, PillsLast
  <2>2. ReaderPill = 0 /\ Cardinality(Takers) = NTHREADS
    BY <1>2, <1>3 DEF ReaderPill, NTHREADS
  <2>3. c \in Nat /\ NTHREADS \in Nat
    BY PillNumbers DEF Pipes
  <2>4. c = 0
    BY <2>1, <2>2, <2>3
  <2>5. queue["newJobQueue"] \in Seq(Items)
    BY DEF Q!TypeOK, Pipes
  <2>6. Len(queue["newJobQueue"]) \in Nat
    BY <2>5
  <2>7. c = Len(queue["newJobQueue"])
    <3>1. \A n \in Nat : Cardinality(1..n) = n
      BY FS_Interval
    <3>2. Cardinality(1..Len(queue["newJobQueue"])) = Len(queue["newJobQueue"])
      BY <2>6, <3>1
    <3>3. QED
      BY <2>1, <3>2
  <2>8. QED
    BY <2>4, <2>5, <2>7
<1>5. ASSUME NEW q \in Pools
      PROVE  Contents(q) = Pool[q]
  <2>1. \A t \in Threads : ToolsHeld[q][t] = {}
    BY <1>1, EmptyHands
  <2>2. \A x \in ToolsAt[q] : \E i \in 1..Len(queue[q]) : queue[q][i] = x
    BY <1>3, <2>1 DEF ToolsAt
  <2>3. Pool[q] \subseteq Contents(q)
    BY <2>2 DEF Placed, Contents
  <2>4. \A i \in 1..Len(queue[q]) : queue[q][i] \in Pool[q]
    <3>1. queue[q] \in Seq(Pool[q])
      BY DEF Control, Carriage, Carried, AllQueues, Pipes, Pools
    <3>2. QED
      BY <3>1
  <2>5. QED
    BY <2>3, <2>4 DEF Contents
<1>6. completedEvents = NEvents
  <2> DEFINE n == Len(saveTree)
             f == [i \in 1..n |-> saveTree[i].rawEvent]
  <2>1. n \in Nat /\ completedEvents \in Nat
    BY DEF Output, Control, Locals
  <2>2. completedEvents = n
    BY <1>2, <2>1 DEF EventsKept
  <2>3. f \in Bijection(1..n, Events)
    <3>1. /\ \A i \in 1..n : saveTree[i].rawEvent \in Events
          /\ \A e \in Events : \E i \in 1..n : saveTree[i].rawEvent = e
      BY <1>3 DEF Written
    <3>2. \A i, j \in 1..n : saveTree[i].rawEvent = saveTree[j].rawEvent => i = j
      BY DEF Output, OutputExact, WrittenOnce
    <3> HIDE DEF n
    <3>3. f \in [1..n -> Events]
      BY <3>1
    <3>4. \A i, j \in 1..n : f[i] = f[j] => i = j
      BY <3>2
    <3>5. \A e \in Events : \E i \in 1..n : f[i] = e
      BY <3>1
    <3> HIDE DEF f
    <3>6. QED
      BY <3>3, <3>4, <3>5 DEF Bijection, Injection, Surjection, IsInjective
  <2>4. /\ IsFiniteSet(1..n) /\ Cardinality(1..n) = n
        /\ IsFiniteSet(Events) /\ Cardinality(Events) = NEvents
    <3> HIDE DEF n
    <3>1. IsFiniteSet(1..n) /\ Cardinality(1..n) = n
      BY <2>1, FS_Interval
    <3>2. IsFiniteSet(0..(NEvents - 1)) /\ Cardinality(0..(NEvents - 1)) = NEvents
      <4>1. /\ IsFiniteSet(0..(NEvents - 1))
            /\ Cardinality(0..(NEvents - 1)) =
                 IF 0 > NEvents - 1 THEN 0 ELSE (NEvents - 1) - 0 + 1
        BY FS_Interval
      <4>2. QED
        BY <4>1
    <3>3. QED
      BY <3>1, <3>2 DEF Events
  <2> HIDE DEF n, f
  <2>5. Cardinality(1..n) = Cardinality(Events)
    <3>1. ExistsBijection(1..n, Events)
      BY <2>3 DEF ExistsBijection
    <3>2. QED
      BY <2>4, <3>1, FS_Bijection
  <2>6. QED
    BY <2>2, <2>4, <2>5
<1>7. QED
  BY <1>3, <1>4, <1>5, <1>6 DEF Pipes

-----------------------------------------------------------------------------
(***************************************************************************)
(* The theorems about the scheduler.                                       *)
(***************************************************************************)
(***************************************************************************)
(* The inductive invariant: the queues work, they are used as KQueue       *)
(* assumes, each thing is in one place and in no less than one, what the   *)
(* job of an event contains follows from that place, and the pills come    *)
(* after the events.                                                       *)
(***************************************************************************)
IInv ==
  /\ QP!IInv
  /\ Control
  /\ JobsOwned
  /\ JobData
  /\ ToolsOwned
  /\ ArraysOwned
  /\ JobContents
  /\ ArraysEmpty
  /\ Tracked
  /\ Output
  /\ OnDisk
  /\ Cleared
  /\ Placed
  /\ EventsKept
  /\ Pills
  /\ Joined

\* The invariant holds at first ...
LEMMA InitInv == Init => IInv
<1> SUFFICES ASSUME Init PROVE IInv
  OBVIOUS
<1> USE Constants
<1>1. QP!IInv /\ Control
  BY QueueInit, InitControl
<1>2. /\ step = [t \in Threads |-> "idle"]
      /\ job  = [t \in Threads |-> NULL] /\ tool = [t \in Threads |-> NULL]
      /\ \A q \in Pipes : queue[q] = <<>>
      /\ \A q \in Pools : queue[q] = [i \in 1..Depth[q] |-> i] /\ Depth[q] \in Nat
  <2>1. /\ step = [t \in Threads |-> "idle"] /\ queue = Filled
        /\ job  = [t \in Threads |-> NULL] /\ tool = [t \in Threads |-> NULL]
    BY DEF Init, Q!Init
  <2>2. Pipes \cap Pools = {}
    BY DEF Pipes, Pools
  <2>3. ASSUME NEW q \in Pools
        PROVE  Depth[q] \in Nat
    <3>1. NEVENT_REDUCERS \in Nat /\ NKFAST_TRACKERS \in Nat /\ NTRACK_ARRAYS \in Nat
      BY KSchedulerAssumption
    <3>2. QED
      BY <3>1 DEF Depth, Pools
  <2>4. QED
    BY <2>1, <2>2, <2>3 DEF Filled
<1>3. \A q \in Pools : NULL \notin Pool[q]
  BY DEF Pools, Pool
<1>4. \A t \in Threads : JobsHeld[t] = {}
  BY <1>2 DEF JobsHeld
<1>5. \A q \in Pools : \A t \in Threads : ToolsHeld[q][t] = {}
  BY <1>2, <1>3 DEF ToolsHeld
<1>6. \A q \in Pipes : Len(queue[q]) = 0
  BY <1>2
<1>7. JobsOwned
  BY <1>4, <1>6 DEF JobsOwned, Sole
<1>8. jobs = [e \in Events |-> NULL] /\ raw = [o \in Events \cup {BUF} |-> NULL]
      /\ trackletsInSt = [k \in Trackers |-> NULL] /\ tracklets = [a \in Arrays |-> <<>>]
      /\ saveTree = <<>> /\ onDisk = 0
      /\ \A w \in Workers : pc[w] = "unborn"
  BY DEF Init
<1>9. JobData
  BY <1>8 DEF JobData
<1>10. ToolsOwned
  <2>1. ASSUME NEW q \in Pools, NEW i \in 1..Len(queue[q]), NEW j \in 1..Len(queue[q]),
               queue[q][i] = queue[q][j]
        PROVE  i = j
    <3>1. queue[q] = [k \in 1..Depth[q] |-> k] /\ Depth[q] \in Nat
      BY <1>2
    <3>2. Len(queue[q]) = Depth[q]
      BY <3>1
    <3>3. QED
      BY <2>1, <3>1, <3>2
  <2>2. QED
    BY <1>5, <2>1 DEF ToolsOwned, Sole
<1>11. ArraysOwned
  BY <1>8 DEF ArraysOwned
<1>12. JobContents
  <2>1. Len(queue["newJobQueue"]) = 0 /\ Len(queue["cmpJobQueue"]) = 0
    BY <1>6 DEF Pipes
  <2>2. QED
    BY <1>4, <2>1 DEF JobContents, Before
<1>13. ArraysEmpty
  BY <1>8 DEF ArraysEmpty
<1>14. Tracked
  BY <1>8 DEF Tracked
<1>15. Output
  BY <1>8 DEF Output, OutputExact, WrittenOnce, WrittenFaithfully
<1>16. OnDisk
  <2>1. Len(saveTree) = 0 /\ SAVENUM \in Nat /\ SAVENUM > 0
    BY <1>8, KSchedulerAssumption
  <2>2. 0 % SAVENUM = 0
    BY <2>1
  <2>3. pc[Reaper] = "unborn"
    BY DEF Init
  <2>4. QED
    BY <1>8, <2>1, <2>2, <2>3 DEF OnDisk, BoundedLoss
<1>17. Cleared /\ Placed /\ EventsKept /\ Joined /\ Pills
  BY InitPlaces, InitPills
<1>18. QED
  BY <1>1, <1>7, <1>9, <1>10, <1>11, <1>12, <1>13, <1>14, <1>15, <1>16, <1>17 DEF IInv

\* ... and every step keeps it.
LEMMA NextInv == IInv /\ [Next]_vars => IInv'
<1> SUFFICES ASSUME IInv, [Next]_vars PROVE IInv'
  OBVIOUS
<1>1. /\ QP!IInv /\ Control /\ JobsOwned /\ JobData /\ ToolsOwned /\ ArraysOwned
      /\ JobContents /\ ArraysEmpty /\ Tracked /\ Output /\ OnDisk
      /\ Cleared /\ Placed /\ EventsKept /\ Pills /\ Joined
  BY DEF IInv
<1>2. Q!TypeOK /\ Front
  BY <1>1, QueueFacts
<1>3. QP!IInv'
  BY <1>1, NextQueues, QueueNext
<1>4. Control'
  <2>1. ReapsWhole
    BY <1>1, ReapedJob DEF ReapsWhole
  <2>2. QED
    BY <1>1, <1>2, <2>1, NextControl
<1>5. JobsOwned' /\ JobData'
  BY <1>1, <1>2, NextJobs
<1>6. ToolsOwned' /\ ArraysOwned'
  BY <1>1, <1>2, NextTools
<1>7. JobContents' /\ ArraysEmpty'
  BY <1>1, <1>2, NextContents
<1>8. Tracked'
  BY <1>1, <1>2, NextTracked
<1>9. Output'
  BY <1>1, <1>2, NextOutput
<1>10. OnDisk'
  BY <1>1, NextOnDisk DEF Output
<1>11. Cleared' /\ Placed' /\ Pills' /\ Joined'
  BY <1>1, <1>2, NextCleared, NextPlaces, NextPills, NextJoined
<1>12. EventsKept'
  BY <1>1, <1>2, NextKept DEF Output
<1>13. QED
  BY <1>3, <1>4, <1>5, <1>6, <1>7, <1>8, <1>9, <1>10, <1>11, <1>12 DEF IInv

\* The inductive invariant of the scheduler.
THEOREM Invariance == Spec => []IInv
BY InitInv, NextInv, PTL DEF Spec

\* Every variable of the scheduler has its type.
THEOREM TypeCorrect == Spec => []TypeOK
<1>1. IInv => TypeOK
  <2> SUFFICES ASSUME IInv PROVE TypeOK
    OBVIOUS
  <2>1. Q!TypeOK
    BY QueueFacts DEF IInv
  <2>2. Locals /\ JobData /\ tracklets \in [Arrays -> Seq(Events)]
        /\ saveTree \in Seq(OutputEntry) /\ onDisk \in Nat
    BY DEF IInv, Control, ArraysEmpty, Output, OnDisk
  <2>3. QED
    BY <2>1, <2>2 DEF Locals, JobData, TypeOK
<1>2. QED
  BY <1>1, Invariance, PTL

\* Whichever thread is faster, no event is written twice, and each is written with its
\* own tracklets, all of them and no other.
THEOREM OutputExactCorrect == Spec => []OutputExact
<1>1. IInv => OutputExact
  BY DEF IInv, Output
<1>2. QED
  BY <1>1, Invariance, PTL

\* A crash loses fewer than SAVENUM written events, and none once the file is closed.
THEOREM BoundedLossCorrect == Spec => []BoundedLoss
<1>1. IInv => BoundedLoss
  BY DEF IInv, OnDisk
<1>2. QED
  BY <1>1, Invariance, PTL

\* No thread handles, and no pipe carries, a job that has been deleted, and the event of
\* a job is neither overwritten by the next GetEntry nor deleted before the job is.
THEOREM JobsIntactCorrect == Spec => []JobsIntact
<1>1. IInv => JobsIntact
  <2> SUFFICES ASSUME IInv PROVE JobsIntact
    OBVIOUS
  <2> USE Constants
  <2>1. JobsOwned /\ JobData
    BY DEF IInv
  <2>2. EventNotClobbered
    BY <2>1 DEF EventNotClobbered, JobData
  <2>3. ASSUME NEW t \in Threads, job[t] \in Events, ~Pushed(t)
        PROVE  jobs[job[t]] # NULL
    BY <2>1, <2>3 DEF JobsOwned, JobsHeld
  <2>4. ASSUME NEW q \in Pipes, NEW e \in Contents(q) \cap Events
        PROVE  jobs[e] # NULL
    BY <2>1, <2>4 DEF JobsOwned, Contents
  <2>5. NoDanglingJob
    BY <2>3, <2>4 DEF NoDanglingJob
  <2>6. QED
    BY <2>2, <2>5 DEF JobsIntact
<1>2. QED
  BY <1>1, Invariance, PTL

\* What a borrower works with is in its hand.
LEMMA Borrowed ==
  ASSUME Control, NEW q \in Pools, NEW t \in Borrowers(q)
  PROVE  t \in Threads /\ tool[t] \in Pool[q] /\ tool[t] \in ToolsHeld[q][t]
<1> USE Constants
<1>1. t \in Threads /\ t \in Users[q] /\ pc[t] \in Uses[q]
  BY DEF Borrowers, Pools, Users, Uses
<1>2. tool[t] \in Pool[q] /\ step[t] # "putPost"
  BY DEF Borrowers, Pools, Pool, Control, Pointers, InOperation, PutsAt
<1>3. QED
  BY <1>1, <1>2 DEF ToolsHeld

\* A reducer, a tracker or an array is used by one thread or job at a time, and the
\* arrays in the pool and in the jobs to be filled are empty.
THEOREM PoolsSoundCorrect == Spec => []PoolsSound
<1>1. IInv => PoolsSound
  <2> SUFFICES ASSUME IInv PROVE PoolsSound
    OBVIOUS
  <2> USE Constants
  <2>1. /\ Control /\ JobsOwned /\ JobData /\ ToolsOwned /\ ArraysOwned
        /\ JobContents /\ ArraysEmpty
    BY DEF IInv
  <2>2. ASSUME NEW q \in Pools
        PROVE  /\ \A i, j \in 1..Len(queue[q]) : queue[q][i] = queue[q][j] => i = j
               /\ \A t \in Borrowers(q) : tool[t] \in Pool[q] \ Contents(q)
               /\ \A t, u \in Borrowers(q) : tool[t] = tool[u] => t = u
               /\ \A i \in 1..Len(queue[q]) : queue[q][i] \in Pool[q]
    <3>1. Sole(Threads, Pool[q], ToolsHeld[q], queue, {q})
      BY <2>1 DEF ToolsOwned
    <3>2. \A i \in 1..Len(queue[q]) : queue[q][i] \in Pool[q]
      <4>1. queue[q] \in Seq(Pool[q])
        BY <2>1 DEF Control, Carriage, Carried, AllQueues, Pipes, Pools
      <4>2. QED
        BY <4>1
    <3>3. \A t \in Borrowers(q) :
            t \in Threads /\ tool[t] \in Pool[q] /\ tool[t] \in ToolsHeld[q][t]
      BY <2>1, Borrowed
    <3>4. QED
      BY <3>1, <3>2, <3>3 DEF Sole, Contents
  <2>3. ASSUME NEW e \in Events, NEW f \in Events, jobs[e] # NULL, jobs[f] # NULL,
               jobs[e].tracklets = jobs[f].tracklets
        PROVE  e = f \/ jobs[e].tracklets = NULL
    <3>1. jobs[e] \in KJob
      BY <2>1, <2>3 DEF JobData
    <3>2. jobs[e].tracklets \in Arrays \cup {NULL}
      BY <3>1 DEF KJob
    <3>3. QED
      BY <2>1, <2>3, <3>2 DEF ArraysOwned
  <2>4. ArrayPool \in Pools /\ Pool[ArrayPool] = Arrays
    BY DEF ArrayPool, Pools, Pool
  <2>5. ASSUME NEW a \in Contents(ArrayPool), NEW e \in Events, jobs[e] # NULL
        PROVE  a \in Arrays /\ jobs[e].tracklets # a
    <3>1. a \in Arrays
      BY <2>2, <2>4 DEF Contents
    <3>2. QED
      BY <2>1, <2>5, <3>1 DEF ArraysOwned, Contents
  <2>6. ExclusiveUse
    BY <2>2, <2>3, <2>5 DEF ExclusiveUse, ArraysInJobs, ArrayPool
  <2>7. ASSUME NEW a \in Contents(ArrayPool)
        PROVE  tracklets[a] = <<>>
    <3>1. a \in Arrays
      BY <2>2, <2>4 DEF Contents
    <3>2. QED
      BY <2>1, <2>5, <3>1 DEF ArraysEmpty
  <2>8. ASSUME NEW e \in Contents("newJobQueue") \cap Events
        PROVE  tracklets[jobs[e].tracklets] = <<>>
    <3>1. e \in Blanks
      BY <2>1 DEF JobContents, Contents
    <3>2. ~(pc[Reader] = "takeArray" /\ job[Reader] = e)
      <4>1. ASSUME pc[Reader] = "takeArray", job[Reader] = e
            PROVE  FALSE
        <5>1. e \in JobsHeld[Reader]
          BY <2>1, <4>1, InHand
        <5>2. Sole(Threads, Events, JobsHeld, queue, Pipes) /\ "newJobQueue" \in Pipes
          BY <2>1 DEF JobsOwned, Pipes
        <5>3. QED
          BY <5>1, <5>2 DEF Sole, Contents
      <4>2. QED
        BY <4>1
    <3>3. QED
      BY <2>1, <3>1, <3>2 DEF Blanks, JobData
  <2>9. CleanArrays
    BY <2>7, <2>8 DEF CleanArrays, ArrayPool
  <2>10. QED
    BY <2>6, <2>9 DEF PoolsSound
<1>2. QED
  BY <1>1, Invariance, PTL

\* At most NTHREADS + 1 jobs exist at a time, whatever the depth of the pipes.
THEOREM JobsInFlightCorrect == Spec => []JobsInFlight
<1>1. IInv => JobsInFlight
  <2> SUFFICES ASSUME IInv PROVE JobsInFlight
    OBVIOUS
  <2> USE Constants
  <2> DEFINE Live == {e \in Events : jobs[e] # NULL}
             Equipped == {e \in Live : jobs[e].tracklets \in Arrays}
             f == [e \in Equipped |-> jobs[e].tracklets]
  <2>1. JobData /\ ArraysOwned
    BY DEF IInv
  <2>2. IsFiniteSet(Events)
    BY FS_Interval DEF Events
  <2>3. IsFiniteSet(Equipped) /\ Cardinality(Equipped) \in Nat
    <3>1. Equipped \in SUBSET Events
      OBVIOUS
    <3>2. QED
      BY <2>2, <3>1, FS_Subset, FS_CardinalityType
  <2>4. IsFiniteSet(Arrays) /\ Cardinality(Arrays) = NTHREADS
    BY FS_Interval DEF Arrays
  <2>5. f \in [Equipped -> Arrays]
    OBVIOUS
  <2>6. \A x, y \in Equipped : f[x] = f[y] => x = y
    BY <2>1 DEF ArraysOwned
  <2> HIDE DEF f
  <2>7. Cardinality(Equipped) <= NTHREADS
    <3>1. ~(Cardinality(Arrays) < Cardinality(Equipped))
      <4> HIDE DEF Equipped
      <4>1. QED
        BY <2>3, <2>4, <2>5, <2>6, FS_PigeonHole
    <3>2. QED
      BY <2>3, <2>4, <3>1
  <2>8. Live \subseteq Equipped \cup {job[Reader]}
    BY <2>1 DEF JobData
  <2>9. Cardinality(Equipped \cup {job[Reader]}) <= NTHREADS + 1
        /\ IsFiniteSet(Equipped \cup {job[Reader]})
        /\ Cardinality(Equipped \cup {job[Reader]}) \in Nat
    <3> HIDE DEF Equipped
    <3>1. IsFiniteSet(Equipped \cup {job[Reader]})
          /\ Cardinality(Equipped \cup {job[Reader]}) =
               IF job[Reader] \in Equipped THEN Cardinality(Equipped) ELSE Cardinality(Equipped) + 1
      BY <2>3, FS_AddElement
    <3>2. QED
      BY <2>3, <2>7, <3>1
  <2>10. Cardinality(Live) <= Cardinality(Equipped \cup {job[Reader]})
    <3> HIDE DEF Equipped, Live
    <3>1. QED
      BY <2>8, <2>9, FS_Subset
  <2>11. Cardinality(Live) \in Nat
    <3>1. Live \in SUBSET Events
      OBVIOUS
    <3>2. QED
      BY <2>2, <3>1, FS_Subset, FS_CardinalityType
  <2>12. QED
    BY <2>9, <2>10, <2>11 DEF JobsInFlight
<1>2. QED
  BY <1>1, Invariance, PTL

\* No pill overtakes a job in a way that matters: the file is closed when every event has
\* been written, and runThreads() returns when every object is back in its pool, the pipes
\* are empty, every job is deleted and every event has been counted.
THEOREM EndsCompleteCorrect == Spec => []EndsComplete
<1>1. IInv => EndsComplete
  <2> SUFFICES ASSUME IInv PROVE EndsComplete
    OBVIOUS
  <2>1. /\ Q!TypeOK /\ Control /\ Cleared /\ Placed /\ EventsKept /\ Pills /\ Output /\ Joined
    BY QueueFacts DEF IInv
  <2>2. ClosedComplete
    BY <2>1, NothingLeft DEF ClosedComplete
  <2>3. ASSUME pc[Main] = "returned"
        PROVE  /\ \A q \in Pools : Contents(q) = Pool[q]
               /\ \A q \in Pipes : queue[q] = <<>>
               /\ \A e \in Events : jobs[e] = NULL
               /\ completedEvents = NEvents
    <3>1. pc[Reaper] \in {"close", "done"}
      BY <2>1, <2>3 DEF Joined
    <3>2. QED
      BY <2>1, <2>3, <3>1, NothingLeft, AllReturned
  <2>4. ReturnsClean
    BY <2>3 DEF ReturnsClean
  <2>5. QED
    BY <2>2, <2>4 DEF EndsComplete
<1>2. QED
  BY <1>1, Invariance, PTL

\* What the reaper fills in is the entry of an event that was still to be written.
LEMMA FilledEntry ==
  ASSUME IInv, ReaperFill
  PROVE  /\ job[Reaper] \in Pipeline!Pending
         /\ saveTree' = Append(saveTree, Pipeline!Entry(job[Reaper]))
<1> USE Constants
<1> DEFINE d == job[Reaper]
<1>1. /\ Q!TypeOK /\ Control /\ JobsOwned /\ JobData /\ JobContents /\ Output
  BY QueueFacts DEF IInv
<1>2. /\ pc[Reaper] = "fill" /\ d \in Events /\ d \in JobsHeld[Reaper]
      /\ jobs[d] # NULL /\ jobs[d].tracklets \in Arrays
      /\ jobs[d].evData = d /\ raw[d] = d
  BY <1>1, ReapedJob DEF ReaperFill, JobData
<1>3. d \in Fulls
  BY <1>1, <1>2 DEF JobContents, Before
<1>4. saveTree' = Append(saveTree, Pipeline!Entry(d))
  BY <1>2, <1>3 DEF ReaperFill, Fulls, Pipeline!Entry
<1>5. Pipeline!Entry(d).rawEvent = d
  BY DEF Pipeline!Entry
<1>6. \A i \in 1..Len(saveTree) : saveTree[i].rawEvent # d
  BY <1>1, <1>2 DEF Output
<1>7. \A i \in 1..Len(saveTree) : saveTree[i] # Pipeline!Entry(d)
  BY <1>5, <1>6
<1>8. QED
  BY <1>2, <1>4, <1>7 DEF Pipeline!Pending

\* When the reaper closes the file, no event is left to be written.
LEMMA NonePending ==
  ASSUME IInv, pc[Reaper] = "close"
  PROVE  Pipeline!Pending = {}
<1>1. /\ Q!TypeOK /\ Control /\ Cleared /\ Placed /\ EventsKept /\ Pills /\ Output
  BY QueueFacts DEF IInv
<1>2. Written = Events
  BY <1>1, NothingLeft
<1>3. ASSUME NEW e \in Events
      PROVE  \E i \in 1..Len(saveTree) : saveTree[i] = Pipeline!Entry(e)
  <2>1. PICK i \in 1..Len(saveTree) : saveTree[i].rawEvent = e
    BY <1>2 DEF Written
  <2>2. saveTree[i] = [rawEvent        |-> e,
                       outputTracklets |-> [n \in 1..NTracklets[e] |-> e],
                       nTracklets      |-> NTracklets[e]]
    BY <1>1, <2>1 DEF Output, OutputExact, WrittenFaithfully
  <2>3. QED
    BY <2>2 DEF Pipeline!Entry
<1>4. QED
  BY <1>3 DEF Pipeline!Pending

\* The threads, the queues and the pills together do what EventPipeline says, step by
\* step: only the reaper's Fill writes, always an event not written before, and only its
\* Close closes, when all have been.
THEOREM PipelineCorrect == Spec => Pipeline!Init /\ [][Pipeline!Next]_(Pipeline!vars)
<1>1. Init => Pipeline!Init
  <2> SUFFICES ASSUME Init PROVE Pipeline!Init
    OBVIOUS
  <2>1. saveTree = <<>> /\ pc[Reaper] = "unborn"
    BY Constants DEF Init
  <2>2. QED
    BY <2>1 DEF Pipeline!Init
<1>2. IInv /\ IInv' /\ [Next]_vars => [Pipeline!Next]_(Pipeline!vars)
  <2> SUFFICES ASSUME IInv, IInv', [Next]_vars PROVE [Pipeline!Next]_(Pipeline!vars)
    OBVIOUS
  <2> USE Constants
  <2>1. Control /\ Locals /\ pc[Reaper] \in ReaperLabels
    BY DEF IInv, Control, Locals
  <2>2. CASE ReaperFill
    <3>1. pc[Reaper] # "done" /\ pc'[Reaper] # "done"
      BY <2>1, <2>2 DEF ReaperFill, GoTo, Locals
    <3>2. Pipeline!Write(job[Reaper])
      BY <2>2, <3>1, FilledEntry DEF Pipeline!Write
    <3>3. job[Reaper] \in Events
      BY <2>2, FilledEntry DEF Pipeline!Pending
    <3>4. QED
      BY <3>2, <3>3 DEF Pipeline!Next
  <2>3. CASE ReaperClose
    <3>1. pc[Reaper] = "close" /\ pc'[Reaper] = "done" /\ saveTree' = saveTree
      BY <2>1, <2>3 DEF ReaperClose, GoTo, Locals
    <3>2. Pipeline!Close
      BY <3>1, NonePending DEF Pipeline!Close
    <3>3. QED
      BY <3>2 DEF Pipeline!Next
  <2>4. CASE ReaperDelete
    <3>1. pc[Reaper] # "done" /\ pc'[Reaper] # "done" /\ saveTree' = saveTree
      BY <2>1, <2>4 DEF ReaperDelete, GoTo, Locals, outputVars
    <3>2. QED
      BY <3>1 DEF Pipeline!vars
  <2>5. CASE ~ReaperFill /\ ~ReaperClose /\ ~ReaperDelete
    <3>1. (pc'[Reaper] = "done" <=> pc[Reaper] = "done") /\ saveTree' = saveTree
      BY <2>1, <2>5, ReaperWaits
    <3>2. QED
      BY <3>1 DEF Pipeline!vars
  <2>6. QED
    BY <2>2, <2>3, <2>4, <2>5
<1>3. QED
  BY <1>1, <1>2, Invariance, PTL DEF Spec
=============================================================================

----------------------------- MODULE KScheduler -----------------------------
(***************************************************************************)
(* The multi-threaded event pipeline of packages/kTThreads/KScheduler.cxx: *)
(* a reader thread makes one job per event of the input file, NTHREADS     *)
(* worker threads reduce and track the events, a reaper thread writes the  *)
(* finished jobs to the output file.                                       *)
(*                                                                         *)
(*   reader -- newJobQueue --> workers -- cmpJobQueue --> reaper           *)
(*                                                                         *)
(* Three more queues are pools of what the threads borrow: event reducers, *)
(* fast trackers and tracklet arrays.  An array is borrowed by the reader, *)
(* travels with its job and is given back by the reaper, so that the pool  *)
(* also limits the jobs in flight.  At the end of the input one poison     *)
(* pill per worker runs through both pipes; the pills may overtake jobs    *)
(* that other workers still hold.                                          *)
(*                                                                         *)
(* The queues, with their semaphores and mutexes, are those of KQueue; a   *)
(* thread blocked in a Wait or a Lock is one whose next step is disabled.  *)
(***************************************************************************)
EXTENDS Integers, Sequences, FiniteSets

CONSTANTS Workers,            \* the worker threads, NTHREADS of them
          Reader, Reaper,     \* fReaderThread and fReaperThread
          Main,               \* the thread that calls runThreads()
          NEvents,            \* dataTree->GetEntries()
          NTracklets,         \* [Events -> Nat], the tracklets found in each
          use_e906_data,      \* E906 input (TRUE) or E1039 input (FALSE)
          NEVENT_REDUCERS, NKFAST_TRACKERS,
          INPUT_PIPE_DEPTH, OUTPUT_PIPE_DEPTH,
          SAVENUM,            \* AutoSave after so many written events
          POISON,             \* a poisoned KJob
          NULL

NTHREADS == Cardinality(Workers)

\* Mutant: one array too many.
OneArrayMore == NTHREADS + 1
NTRACK_ARRAYS == NTHREADS     \* the tracklet arrays that Init() makes

Threads  == Workers \cup {Reader, Reaper}
Events   == 0..(NEvents - 1)
Reducers == 1..NEVENT_REDUCERS
Trackers == 1..NKFAST_TRACKERS
Arrays   == 1..NTRACK_ARRAYS
BUF      == -1                \* the reader's event buffer, see ReaderGetEntry

Pipes == {"newJobQueue", "cmpJobQueue"}
Pools == {"eventReducerQueue", "kFastTrkQueue", "kTrackArrQueue"}

\* The fields of a job that matter here.
KJob == [evData     : Events \cup {BUF},
         tracklets  : Arrays \cup {NULL},
         nTracklets : Nat]

ASSUME KSchedulerAssumption ==
  /\ IsFiniteSet(Workers) /\ Workers # {}
  /\ Reader # Reaper
  /\ Workers \cap {Reader, Reaper} = {}
  /\ Main \notin Threads
  /\ NEvents \in Nat
  /\ NTracklets \in [Events -> Nat]
  /\ use_e906_data \in BOOLEAN
  /\ {NEVENT_REDUCERS, NKFAST_TRACKERS, INPUT_PIPE_DEPTH,
      OUTPUT_PIPE_DEPTH, SAVENUM} \subseteq Nat \ {0}
  /\ {POISON, NULL} \cap Int = {}
  /\ POISON # NULL
  /\ NULL \notin Threads \cup Pipes \cup Pools \cup KJob
-----------------------------------------------------------------------------
(* The queues *)

VARIABLES queue, fSem, eSem, mutex, step, opq, item

Pool == [eventReducerQueue |-> Reducers,
         kFastTrkQueue     |-> Trackers,
         kTrackArrQueue    |-> Arrays]

Items == Events \cup Reducers \cup Trackers \cup Arrays \cup {POISON}

Depth == [newJobQueue       |-> INPUT_PIPE_DEPTH,
          cmpJobQueue       |-> OUTPUT_PIPE_DEPTH,
          eventReducerQueue |-> NEVENT_REDUCERS,
          kFastTrkQueue     |-> NKFAST_TRACKERS,
          kTrackArrQueue    |-> NTRACK_ARRAYS]

\* Init() fills the pools and leaves the pipes empty.
Filled == [q \in Pipes \cup Pools |->
             IF q \in Pipes THEN <<>> ELSE [i \in 1..Depth[q] |-> i]]

Q == INSTANCE KQueue WITH Queues <- Pipes \cup Pools, Initially <- Filled

-----------------------------------------------------------------------------
VARIABLES
  pc,               \* where each thread is in its function
  entry,            \* reader: entries of the input tree read so far
  pills,            \* reader: pills made so far
  job,              \* newKJobPtr of the reader, tCompleteJobPtr of the others
  tool,             \* the reducer or tracker of a worker, the array of the reaper
  jobs,             \* [Events -> KJob or NULL], the job objects, by jobId
  raw,              \* [{BUF} \cup Events -> event], the SRawEvent objects
  tracklets,        \* [Arrays -> Seq(Events)], the tracklet arrays
  trackletsInSt,    \* [Trackers -> event], whose tracklets a tracker lists
  saveTree,         \* the entries of the output tree
  onDisk,           \* how many of them AutoSave or Write has put on disk
  poisonPills,      \* reaper: pills received
  completedEvents

syncVars   == <<queue, fSem, eSem, mutex, step, opq, item>>
readerVars == <<entry, pills>>
dataVars   == <<jobs, raw, tracklets, trackletsInSt>>
outputVars == <<saveTree, onDisk, poisonPills, completedEvents>>

vars == <<queue, fSem, eSem, mutex, step, opq, item,
          pc, entry, pills, job, tool, jobs, raw, tracklets, trackletsInSt,
          saveTree, onDisk, poisonPills, completedEvents>>

GoTo(t, label) == pc' = [pc EXCEPT ![t] = label]

Init ==
  /\ Q!Init
  /\ pc = [t \in Threads \cup {Main} |->
             IF t = Main THEN "startReader" ELSE "unborn"]
  /\ entry = 0
  /\ pills = 0
  /\ job  = [t \in Threads |-> NULL]
  /\ tool = [t \in Threads |-> NULL]
  /\ jobs = [e \in Events |-> NULL]
  /\ raw  = [o \in Events \cup {BUF} |-> NULL]
  /\ tracklets = [a \in Arrays |-> <<>>]
  /\ trackletsInSt = [k \in Trackers |-> NULL]
  /\ saveTree = <<>>
  /\ onDisk = 0
  /\ poisonPills = 0
  /\ completedEvents = 0

-----------------------------------------------------------------------------
(* The queue operations of a thread at a label of its function *)

\* Take a pointer into job[t] and branch on isPoison.
TakeJob(t, q, at, ifJob, ifPill) ==
  /\ pc[t] = at
  /\ \/ /\ Q!TakeInside(t, q)
        /\ UNCHANGED <<pc, job>>
     \/ /\ Q!TakePost(t, q)
        /\ job' = [job EXCEPT ![t] = item[t]]
        /\ GoTo(t, IF item[t] = POISON THEN ifPill ELSE ifJob)
  /\ UNCHANGED <<readerVars, tool, dataVars, outputVars>>

\* Put job[t]; the pointer is dead from then on.
PutJob(t, q, at, next) ==
  /\ pc[t] = at
  /\ \/ /\ Q!PutInside(t, q, job[t])
        /\ UNCHANGED <<pc, job>>
     \/ /\ Q!PutPost(t, q)
        /\ job' = [job EXCEPT ![t] = NULL]
        /\ GoTo(t, next)
  /\ UNCHANGED <<readerVars, tool, dataVars, outputVars>>

\* Borrow an object of a pool into tool[t].
TakeTool(t, q, at, next) ==
  /\ pc[t] = at
  /\ \/ /\ Q!TakeInside(t, q)
        /\ UNCHANGED <<pc, tool>>
     \/ /\ Q!TakePost(t, q)
        /\ tool' = [tool EXCEPT ![t] = item[t]]
        /\ GoTo(t, next)
  /\ UNCHANGED <<readerVars, job, dataVars, outputVars>>

\* Give it back.
PutTool(t, q, at, next) ==
  /\ pc[t] = at
  /\ \/ /\ Q!PutInside(t, q, tool[t])
        /\ UNCHANGED <<pc, tool>>
     \/ /\ Q!PutPost(t, q)
        /\ tool' = [tool EXCEPT ![t] = NULL]
        /\ GoTo(t, next)
  /\ UNCHANGED <<readerVars, job, dataVars, outputVars>>

-----------------------------------------------------------------------------
(* fReaderThread *)

\* Mutant: the job of E906 data gets the buffer itself.
ReaderGetEntryShared ==
     /\ pc[Reader] = "loop"
     /\ entry < NEvents
     /\ raw'  = [raw EXCEPT ![BUF] = entry, ![entry] = entry]
     /\ jobs' = [jobs EXCEPT ![entry] = [evData     |-> IF use_e906_data THEN BUF ELSE entry,
                                         tracklets  |-> NULL,
                                         nTracklets |-> 0]]
     /\ job'  = [job EXCEPT ![Reader] = entry]
     /\ entry' = entry + 1
     /\ GoTo(Reader, "takeArray")
     /\ UNCHANGED <<syncVars, pills, tool, tracklets, trackletsInSt, outputVars>>

\* Mutant: the first entry is read a second time in place of the next one.
ReaderGetEntryAgain ==
  LET i == IF entry = 1 THEN 0 ELSE entry
  IN /\ pc[Reader] = "loop"
     /\ entry < NEvents
     /\ raw'  = [raw EXCEPT ![BUF] = i, ![entry] = i]
     /\ jobs' = [jobs EXCEPT ![entry] =
                   [evData |-> entry, tracklets |-> NULL, nTracklets |-> 0]]
     /\ job'  = [job EXCEPT ![Reader] = entry]
     /\ entry' = entry + 1
     /\ GoTo(Reader, "takeArray")
     /\ UNCHANGED <<syncVars, pills, tool, tracklets, trackletsInSt, outputVars>>

\* GetEntry(entry) overwrites the event buffer.  For E906 data the job gets a
\* deep copy of the buffer; for E1039 data BuildSRawEvent makes a new object
\* from the buffer and the job gets that one.
ReaderGetEntry ==
  LET localEventPtr == IF use_e906_data THEN BUF ELSE entry
      copy          == use_e906_data
  IN /\ pc[Reader] = "loop"
     /\ entry < NEvents
     /\ raw'  = [raw EXCEPT ![BUF] = entry, ![entry] = entry]
     /\ jobs' = [jobs EXCEPT ![entry] =
                   [evData     |-> IF copy THEN entry ELSE localEventPtr,
                    tracklets  |-> NULL,
                    nTracklets |-> 0]]
     /\ job'  = [job EXCEPT ![Reader] = entry]
     /\ entry' = entry + 1
     /\ GoTo(Reader, "takeArray")
     /\ UNCHANGED <<syncVars, pills, tool, tracklets, trackletsInSt, outputVars>>

\* The rest of the constructor of KJob: get an available, clean array.
ReaderTakeArray ==
  /\ pc[Reader] = "takeArray"
  /\ \/ /\ Q!TakeInside(Reader, "kTrackArrQueue")
        /\ UNCHANGED <<pc, jobs>>
     \/ /\ Q!TakePost(Reader, "kTrackArrQueue")
        /\ jobs' = [jobs EXCEPT ![job[Reader]].tracklets = item[Reader]]
        /\ GoTo(Reader, "putJob")
  /\ UNCHANGED <<readerVars, job, tool, raw, tracklets, trackletsInSt, outputVars>>

ReaderPutJob == PutJob(Reader, "newJobQueue", "putJob", "loop")

\* Mutant: one pill too many.
ReaderNewPillMore ==
  /\ pc[Reader] = "loop"
  /\ entry = NEvents
  /\ pills <= NTHREADS
  /\ job' = [job EXCEPT ![Reader] = POISON]
  /\ pills' = pills + 1
  /\ GoTo(Reader, "putPill")
  /\ UNCHANGED <<syncVars, entry, tool, dataVars, outputVars>>

\* After the last event, one pill per worker.
ReaderNewPill ==
  /\ pc[Reader] = "loop"
  /\ entry = NEvents
  /\ pills < NTHREADS
  /\ job' = [job EXCEPT ![Reader] = POISON]
  /\ pills' = pills + 1
  /\ GoTo(Reader, "putPill")
  /\ UNCHANGED <<syncVars, entry, tool, dataVars, outputVars>>

ReaderPutPill == PutJob(Reader, "newJobQueue", "putPill", "loop")

ReaderReturn ==
  /\ pc[Reader] = "loop"
  /\ entry = NEvents
  /\ pills = NTHREADS
  /\ GoTo(Reader, "done")
  /\ UNCHANGED <<syncVars, readerVars, job, tool, dataVars, outputVars>>

ReaderStep == \/ ReaderGetEntry
              \/ ReaderTakeArray
              \/ ReaderPutJob
              \/ ReaderNewPill
              \/ ReaderPutPill
              \/ ReaderReturn

-----------------------------------------------------------------------------
(* fWorkerThread *)

WorkerTakeJob(w) == TakeJob(w, "newJobQueue", "takeJob", "takeReducer", "putPill")

\* reduceEvent() works in place on the job's own event and acceptEvent() only
\* prints, so that neither shows in this model.
WorkerTakeReducer(w) == TakeTool(w, "eventReducerQueue", "takeReducer", "putReducer")

WorkerPutReducer(w) == PutTool(w, "eventReducerQueue", "putReducer", "takeTracker")

WorkerTakeTracker(w) == TakeTool(w, "kFastTrkQueue", "takeTracker", "setRawEvent")

\* The tracker forgets the tracklets of its last event, then finds those of
\* this one (none, when it rejects the event).
WorkerSetRawEvent(w) ==
  /\ pc[w] = "setRawEvent"
  /\ trackletsInSt' = [trackletsInSt EXCEPT ![tool[w]] = raw[jobs[job[w]].evData]]
  /\ GoTo(w, "fill")
  /\ UNCHANGED <<syncVars, readerVars, job, tool, jobs, raw, tracklets, outputVars>>

\* The array a, with its first places overwritten by the tracklets of event e.
Overwrite(a, e) == [i \in 1..(IF NTracklets[e] < Len(a) THEN Len(a) ELSE NTracklets[e])
                      |-> IF i <= NTracklets[e] THEN e ELSE a[i]]

\* Copy the tracklets to the job's array, from its first place on.
WorkerFillTracklets(w) ==
  LET kjob == jobs[job[w]]
      ev   == trackletsInSt[tool[w]]
  IN /\ pc[w] = "fill"
     /\ tracklets' = [tracklets EXCEPT ![kjob.tracklets] = Overwrite(@, ev)]
     /\ jobs' = [jobs EXCEPT ![job[w]].nTracklets = @ + NTracklets[ev]]
     /\ GoTo(w, "putTracker")
     /\ UNCHANGED <<syncVars, readerVars, job, tool, raw, trackletsInSt, outputVars>>

WorkerPutTracker(w) == PutTool(w, "kFastTrkQueue", "putTracker", "putJob")

WorkerPutJob(w) == PutJob(w, "cmpJobQueue", "putJob", "takeJob")

\* Mutant: the worker puts its pill back for the other workers and goes on.
WorkerPutPillBack(w) == PutJob(w, "newJobQueue", "putPill", "takeJob")

\* A worker passes its pill on and ends.
WorkerPutPill(w) == PutJob(w, "cmpJobQueue", "putPill", "done")

WorkerStep(w) == \/ WorkerTakeJob(w)
                 \/ WorkerTakeReducer(w)
                 \/ WorkerPutReducer(w)
                 \/ WorkerTakeTracker(w)
                 \/ WorkerSetRawEvent(w)
                 \/ WorkerFillTracklets(w)
                 \/ WorkerPutTracker(w)
                 \/ WorkerPutJob(w)
                 \/ WorkerPutPill(w)

-----------------------------------------------------------------------------
(* fReaperThread *)

ReaperTakeJob == TakeJob(Reaper, "cmpJobQueue", "takeJob", "fill", "countPill")

\* Mutant: the first pill ends the reaper.
ReaperCountFirstPill ==
  /\ pc[Reaper] = "countPill"
  /\ poisonPills' = poisonPills + 1
  /\ GoTo(Reaper, "close")
  /\ job' = [job EXCEPT ![Reaper] = NULL]
  /\ UNCHANGED <<syncVars, readerVars, tool, dataVars, saveTree, onDisk, completedEvents>>

ReaperCountPill ==
  /\ pc[Reaper] = "countPill"
  /\ poisonPills' = poisonPills + 1
  /\ GoTo(Reaper, IF poisonPills' = NTHREADS THEN "close" ELSE "takeJob")
  /\ job' = [job EXCEPT ![Reaper] = NULL]
  /\ UNCHANGED <<syncVars, readerVars, tool, dataVars, saveTree, onDisk, completedEvents>>

\* Mutant: the entries are counted before the Fill.
ReaperFillLate ==
  LET kjob == jobs[job[Reaper]]
  IN /\ pc[Reaper] = "fill"
     /\ saveTree' = Append(saveTree, [rawEvent        |-> raw[kjob.evData],
                                      outputTracklets |-> tracklets[kjob.tracklets],
                                      nTracklets      |-> kjob.nTracklets])
     /\ onDisk' = IF Len(saveTree) % SAVENUM = 0 THEN Len(saveTree) ELSE onDisk
     /\ GoTo(Reaper, "delete")
     /\ UNCHANGED <<syncVars, readerVars, job, tool, dataVars, poisonPills, completedEvents>>

\* Fill the output tree from the job, and AutoSave every SAVENUM entries.
ReaperFill ==
  LET kjob == jobs[job[Reaper]]
  IN /\ pc[Reaper] = "fill"
     /\ saveTree' = Append(saveTree, [rawEvent        |-> raw[kjob.evData],
                                      outputTracklets |-> tracklets[kjob.tracklets],
                                      nTracklets      |-> kjob.nTracklets])
     /\ onDisk' = IF Len(saveTree') % SAVENUM = 0 THEN Len(saveTree') ELSE onDisk
     /\ GoTo(Reaper, "delete")
     /\ UNCHANGED <<syncVars, readerVars, job, tool, dataVars, poisonPills, completedEvents>>

\* Mutant: the array is not cleared.
ReaperDeleteUncleared ==
  LET kjob == jobs[job[Reaper]]
  IN /\ pc[Reaper] = "delete"
     /\ raw' = [raw EXCEPT ![kjob.evData] = NULL]
     /\ tool' = [tool EXCEPT ![Reaper] = kjob.tracklets]
     /\ jobs' = [jobs EXCEPT ![job[Reaper]] = NULL]
     /\ job'  = [job EXCEPT ![Reaper] = NULL]
     /\ GoTo(Reaper, "putArray")
     /\ UNCHANGED <<syncVars, readerVars, tracklets, trackletsInSt, outputVars>>

\* The destructor of KJob: delete the event, clear the array ...
ReaperDelete ==
  LET kjob == jobs[job[Reaper]]
  IN /\ pc[Reaper] = "delete"
     /\ raw' = [raw EXCEPT ![kjob.evData] = NULL]
     /\ tracklets' = [tracklets EXCEPT ![kjob.tracklets] = <<>>]
     /\ tool' = [tool EXCEPT ![Reaper] = kjob.tracklets]
     /\ jobs' = [jobs EXCEPT ![job[Reaper]] = NULL]
     /\ job'  = [job EXCEPT ![Reaper] = NULL]
     /\ GoTo(Reaper, "putArray")
     /\ UNCHANGED <<syncVars, readerVars, trackletsInSt, outputVars>>

\* ... and yield it.
ReaperPutArray == PutTool(Reaper, "kTrackArrQueue", "putArray", "postCompletedEvent")

ReaperPostCompletedEvent ==
  /\ pc[Reaper] = "postCompletedEvent"
  /\ completedEvents' = completedEvents + 1
  /\ GoTo(Reaper, "takeJob")
  /\ UNCHANGED <<syncVars, readerVars, job, tool, dataVars, saveTree, onDisk, poisonPills>>

\* AutoSave, Write and Close.
ReaperClose ==
  /\ pc[Reaper] = "close"
  /\ onDisk' = Len(saveTree)
  /\ GoTo(Reaper, "done")
  /\ UNCHANGED <<syncVars, readerVars, job, tool, dataVars, saveTree, poisonPills,
                 completedEvents>>

ReaperStep == \/ ReaperTakeJob
              \/ ReaperCountPill
              \/ ReaperFill
              \/ ReaperDelete
              \/ ReaperPutArray
              \/ ReaperPostCompletedEvent
              \/ ReaperClose

-----------------------------------------------------------------------------
(* runThreads *)

\* Start the thread t and go on at label next.
Start(t, at, label, next) ==
  /\ pc[Main] = at
  /\ pc[t] = "unborn"
  /\ pc' = [pc EXCEPT ![t] = label, ![Main] = next]
  /\ UNCHANGED <<syncVars, readerVars, job, tool, dataVars, outputVars>>

startReaderThread == Start(Reader, "startReader", "loop", "startReaper")

startReaperThread == Start(Reaper, "startReaper", "takeJob", "startWorkers")

\* The loop of startWorkerThreads; the workers are alike, so that the order in
\* which they are started does not matter.
startWorkerThread(w) ==
  Start(w, "startWorkers", "takeJob",
        IF \E v \in Workers \ {w} : pc[v] = "unborn" THEN "startWorkers" ELSE "joinReader")

\* Mutant: no waiting.
NoJoin(S, at, next) ==
  /\ pc[Main] = at
  /\ GoTo(Main, next)
  /\ UNCHANGED <<syncVars, readerVars, job, tool, dataVars, outputVars>>

\* Wait for the threads S to end.
Join(S, at, next) ==
  /\ pc[Main] = at
  /\ \A t \in S : pc[t] = "done"
  /\ GoTo(Main, next)
  /\ UNCHANGED <<syncVars, readerVars, job, tool, dataVars, outputVars>>

\* The destructor, which drains the pools; queues, semaphores and mutexes are
\* gone afterwards and their variables mean nothing any more.
Destroy ==
  /\ pc[Main] = "returned"
  /\ GoTo(Main, "destroyed")
  /\ UNCHANGED <<syncVars, readerVars, job, tool, dataVars, outputVars>>

MainStep == \/ startReaderThread
            \/ startReaperThread
            \/ \E w \in Workers : startWorkerThread(w)
            \/ Join({Reader}, "joinReader", "joinReaper")
            \/ Join({Reaper}, "joinReaper", "joinWorkers")
            \/ Join(Workers, "joinWorkers", "returned")
            \/ Destroy

Terminated == pc[Main] = "destroyed" /\ UNCHANGED vars

-----------------------------------------------------------------------------
Next == \/ ReaderStep
        \/ \E w \in Workers : WorkerStep(w)
        \/ ReaperStep
        \/ MainStep
        \/ Terminated

\* Every thread that can go on does so in the end: the threads are scheduled
\* preemptively and block only in Wait, Lock and Join.
Fairness == /\ WF_vars(ReaderStep)
            /\ \A w \in Workers : WF_vars(WorkerStep(w))
            /\ WF_vars(ReaperStep)
            /\ WF_vars(MainStep)

Spec == Init /\ [][Next]_vars

FairSpec == Spec /\ Fairness

-----------------------------------------------------------------------------
(* Properties *)

ReaderLabels == {"unborn", "loop", "takeArray", "putJob", "putPill", "done"}
WorkerLabels == {"unborn", "takeJob", "takeReducer", "putReducer", "takeTracker",
                 "setRawEvent", "fill", "putTracker", "putJob", "putPill", "done"}
ReaperLabels == {"unborn", "takeJob", "countPill", "fill", "delete", "putArray",
                 "postCompletedEvent", "close", "done"}
MainLabels   == {"startReader", "startReaper", "startWorkers", "joinReader",
                 "joinReaper", "joinWorkers", "returned", "destroyed"}

OutputEntry == [rawEvent        : Events \cup {NULL},
                outputTracklets : Seq(Events),
                nTracklets      : Nat]

\* Every variable has its type.
TypeOK ==
  /\ Q!TypeOK
  /\ pc \in [Threads \cup {Main} ->
               ReaderLabels \cup WorkerLabels \cup ReaperLabels \cup MainLabels]
  /\ pc[Reader] \in ReaderLabels
  /\ \A w \in Workers : pc[w] \in WorkerLabels
  /\ pc[Reaper] \in ReaperLabels
  /\ pc[Main] \in MainLabels
  /\ entry \in 0..NEvents
  /\ pills \in 0..NTHREADS
  /\ job  \in [Threads -> Events \cup {POISON, NULL}]
  /\ tool \in [Threads -> Reducers \cup Trackers \cup Arrays \cup {NULL}]
  /\ jobs \in [Events -> KJob \cup {NULL}]
  /\ raw  \in [Events \cup {BUF} -> Events \cup {NULL}]
  /\ tracklets \in [Arrays -> Seq(Events)]
  /\ trackletsInSt \in [Trackers -> Events \cup {NULL}]
  /\ saveTree \in Seq(OutputEntry)
  /\ onDisk \in Nat
  /\ poisonPills \in 0..NTHREADS
  /\ completedEvents \in Nat

Contents(q) == {queue[q][i] : i \in 1..Len(queue[q])}

Written == {saveTree[i].rawEvent : i \in 1..Len(saveTree)}

\* No event is written twice.
WrittenOnce ==
  \A i, j \in 1..Len(saveTree) :
    saveTree[i].rawEvent = saveTree[j].rawEvent => i = j

\* An event is written with its own tracklets, with all of them and with no
\* other, although the arrays and the trackers are used again and again by
\* whichever event comes next.
WrittenFaithfully ==
  \A i \in 1..Len(saveTree) :
    LET e == saveTree[i].rawEvent
    IN /\ e \in Events
       /\ saveTree[i] = [rawEvent        |-> e,
                         outputTracklets |-> [n \in 1..NTracklets[e] |-> e],
                         nTracklets      |-> NTracklets[e]]

\* Together: the output is exact whatever thread was faster.
OutputExact == WrittenOnce /\ WrittenFaithfully

\* The reaper leaves its loop only when every event has been written, although
\* a pill can overtake the jobs of the other workers on its way.
ClosedComplete ==
  pc[Reaper] \in {"close", "done"} => Written = Events

\* t has put its job into a pipe and has still to call Post.
Pushed(t) == step[t] = "putPost" /\ opq[t] \in Pipes

\* The SRawEvent of a job is neither overwritten by the next GetEntry nor
\* deleted before the job is.
EventNotClobbered ==
  \A e \in Events : jobs[e] # NULL => raw[jobs[e].evData] = e

\* A thread handles, and the pipes carry, only jobs that are not deleted.  The
\* pointer of a thread that has pushed its job may dangle (the reaper can be
\* faster than the Post): it must not be used any more.
NoDanglingJob ==
  /\ \A t \in Threads : job[t] \in Events /\ ~Pushed(t) => jobs[job[t]] # NULL
  /\ \A q \in Pipes : \A e \in Contents(q) \cap Events : jobs[e] # NULL

\* Together: a job and its event live until the reaper deletes them, without a
\* lock ("is there a race condition here?").
JobsIntact == EventNotClobbered /\ NoDanglingJob

\* The threads that work with an object of the pool q.
Borrowers(q) ==
  CASE q = "eventReducerQueue" ->
         {w \in Workers : pc[w] = "putReducer" /\ step[w] = "idle"}
    [] q = "kFastTrkQueue" ->
         {w \in Workers : \/ pc[w] \in {"setRawEvent", "fill"}
                          \/ pc[w] = "putTracker" /\ step[w] = "idle"}
    [] q = "kTrackArrQueue" ->
         {t \in {Reaper} : pc[t] = "putArray" /\ step[t] = "idle"}

ArraysInJobs == {jobs[e].tracklets : e \in {f \in Events : jobs[f] # NULL}} \ {NULL}

\* An object of a pool is used by one thread, or one job, at a time, and is not
\* in the pool meanwhile.
ExclusiveUse ==
  /\ \A q \in Pools :
       /\ \A i, j \in 1..Len(queue[q]) : queue[q][i] = queue[q][j] => i = j
       /\ \A t \in Borrowers(q) : tool[t] \in Pool[q] \ Contents(q)
       /\ \A t, u \in Borrowers(q) : tool[t] = tool[u] => t = u
  /\ \A e, f \in Events :
       jobs[e] # NULL /\ jobs[f] # NULL /\ jobs[e].tracklets = jobs[f].tracklets
         => e = f \/ jobs[e].tracklets = NULL
  /\ ArraysInJobs \cap Contents("kTrackArrQueue") = {}

\* "get an available, clean TClonesArr": the arrays in the pool, and those of
\* the jobs that no worker has taken yet, are empty.
CleanArrays ==
  /\ \A a \in Contents("kTrackArrQueue") : tracklets[a] = <<>>
  /\ \A e \in Contents("newJobQueue") \cap Events : tracklets[jobs[e].tracklets] = <<>>

\* Together: a pool hands out what nobody uses, as good as new.
PoolsSound == ExclusiveUse /\ CleanArrays

\* The pool of arrays limits the jobs that exist at a time, whatever the depth
\* of the pipes; one more job may be waiting for its array.
JobsInFlight == Cardinality({e \in Events : jobs[e] # NULL}) <= NTHREADS + 1

\* A crash of the process loses fewer than SAVENUM written events, and none
\* once the file is closed.
BoundedLoss ==
  /\ Len(saveTree) - onDisk \in 0..(SAVENUM - 1)
  /\ pc[Reaper] = "done" => onDisk = Len(saveTree)

\* When runThreads() returns, the scheduler is as its destructor assumes: every
\* reducer, tracker and array is back in its pool, the pipes are empty, no job
\* or pill is left and every event has been counted.
ReturnsClean ==
  pc[Main] = "returned" =>
    /\ \A q \in Pools : Contents(q) = Pool[q]
    /\ \A q \in Pipes : queue[q] = <<>>
    /\ \A e \in Events : jobs[e] = NULL
    /\ completedEvents = NEvents

\* Together: no pill overtakes a job in a way that matters.
EndsComplete == ClosedComplete /\ ReturnsClean

\* runThreads() returns: no thread waits for ever for an item, a place, a mutex
\* or another thread.
Termination == <>(pc[Main] = "destroyed")

\* The scheduler implements its abstract specification, the liveness of which
\* says that the file is closed in the end.
Pipeline == INSTANCE EventPipeline WITH
  written <- saveTree,
  closed  <- pc[Reaper] = "done"

PipelineSpec == Pipeline!Spec

=============================================================================

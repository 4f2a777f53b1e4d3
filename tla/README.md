# TLA+ models of e1039-core

e1039-core is the software of the SeaQuest/SpinQuest experiment: a framework that runs
modules over events (Fun4All), simulation, tracking, and the online system that decodes
what the data acquisition writes and watches its quality. Most of the 143,000 lines are
numerical. The parts with a protocol (threads, a file that grows while it is read, a
database that is updated beside files) are the ones modelled here.

Run everything in this directory: `tlc -config X.cfg M` for a run of the table below,
`tlapm M_proofs.tla` for the proofs. `PROJECT.json` lists the runs, for each property a
mutant of the code that breaks it, and the source lines of every definition.

## The system

| Component | State it keeps | Operations | What is hard | What makes it correct |
|---|---|---|---|---|
| **KScheduler** (`packages/kTThreads`) | five queues, each with two semaphores and a mutex; job objects; pools of reducers, trackers and tracklet arrays; the output tree | `runThreads`: one reader, NTHREADS workers, one reaper; poison pills; `postCompletedEvent` | every interleaving of the threads; ownership that goes from thread to thread through the queues; waits in a ring | every event written once and with its own tracklets; nothing used by two threads; `runThreads` returns |
| **CodaInputManager, evio** (`online/decoder_maindaq`) | the open file, `m_event_count`, `m_file_size`, `m_go_end` | `OpenFile` (with a wait), `NextCodaEvent`, `JumpCodaEvent` | the DAQ writes while the decoder reads; evio cannot go on after an end of file, so the file is opened anew and the two functions recurse into each other; timeouts | events in order and once; nothing given up that was there; bounded recursion; an end |
| **MainDaqParser** (same) | two event buffers, a map of spill records, four spill numbers | `NextPhysicsEvent`, `ParseOneSpill`, one handler per CODA event type | data of one event scattered over boards and flush events; buffers that change places; IDs from three sources | exactly the events that the file defines, each with the record of its own spill |
| **Spill files and status tables** (`Fun4AllSpillDstOutputManager`, `DecoStatusDb`, `DbUpRun`, `DbUpSpill`, macro `Fun4MainDaq.C`) | one DST file per group of spills; rows in MySQL | start, update and finish a run; open, close and announce a file | files and rows change in separate steps; a crash or a failed statement between them; a run decoded again | a file announced as finished is finished; at the end files and tables agree |
| **Fun4AllEVIOInputManager** | list of files, current event | `fileopen`, `run`, `fileclose` | flags that outlive a file | every file of a list is read |
| **Daemon4MainDaq.C** | list of runs already handled, in memory | poll for new files, start a decoder | restart; several decoders at a time | every run decoded |
| **OnlMonServer, OnlMonComm, OnlMonClient** (`online/onlmonserver`) | histograms, per client and per spill; the list of spills; connections | fill (main thread), serve (server thread), ask and merge (viewer process, two threads) | two threads with one mutex that not every path takes; a switch shared by clients that give up at different spills; connections cut off at any moment | what is drawn and what is written is what was filled, each event once; every conversation ends |
| **Fun4AllServer, Fun4AllSyncManager, Fun4AllDstInputManager** (`framework/fun4all`) | `RetCodes`, registered modules, indexes by which output managers select, input positions | `run`, `process_event`, `fileopen`, `unregisterSubsystem`, `End` | return codes that outlive an event, indexes that outlive a module, files and runs that change in the middle, `run` called again | each event seen once and within its run; written if and only if no selected module rejected it; `run` returns |
| DST I/O, node tree (`phool`, `ffaobjects`) | tree of nodes | read, write | - | sequential object I/O |
| Tracking, simulation, generators, geometry, calibration, trigger emulation, displays | tables, per-event objects | per-event computation | real arithmetic, random sampling | out of a model checker's reach |

How they interact: `Daemon4MainDaq.C` starts `Fun4MainDaq.C` as a process per run. There
`Fun4AllServer::run` asks `Fun4AllEVIOInputManager` for an event, which calls
`MainDaqParser::NextPhysicsEvent`, which calls `CodaInputManager`; then the server calls
every module (`DbUpRun`, `DbUpSpill`, the monitoring clients) and every output manager, in
the order of registration, in one thread. `OnlMonServer` adds a thread that serves
histograms over sockets, to a viewer process that runs the same `OnlMonClient` classes.
`KScheduler` is a program of its own, for tracking offline. Simulation and
reconstruction jobs use `Fun4AllServer` with DST files as inputs.

## Modules

    BoundedFifo      what a queue promises: atomic put and take
      KQueue         two semaphores, one mutex and a std::queue     (implements BoundedFifo)
        KQueue_proofs
        MCKQueue
        KScheduler   threads, jobs, pools, pills (five queues: INSTANCE KQueue)
          KScheduler_proofs
          MCKScheduler
    EventPipeline    what the scheduler promises                   (KScheduler implements it)

    CodaInputManager one call of the file reader, and the DAQ that writes
      CodaReader     a caller that reads event after event
        CodaReader_proofs
        MCCodaReader
      MainDaqParser  the real caller: the parser
        DecodedSpills      what the parser hands out, as a function of the file; properties
          DecodedSpills_proofs
          MCMainDaqParser

    DecoderOutput    files and tables of one run, decoded once or again
      DecoderOutput_proofs
      MCDecoderOutput

    OnlMonClient     the histograms, and the main thread that fills them
      OnlMonServer   the server thread, connections, a viewer, another decoder
        OnlMonServer_proofs
        MCOnlMonServer

    Fun4AllSyncManager  inputs with lists of DST files, read in step
      Fun4AllServer     the event loop: modules, runs, output managers
        Fun4AllServer_proofs
        MCFun4AllServer

    SetLemmas        sets of numbers and sums, for the proofs of OnlMonServer, Fun4AllServer
                     and DecodedSpills

### KQueue, KScheduler

Every queue of `KScheduler` is used the same way: `Wait` on one semaphore, `Lock` the
queue's PutMutex (for both directions; the TakeMutexes are never locked), `front` and
`pop`, or `push`, `UnLock`, `Post` the other semaphore. `KQueue` has a step for each of
these (`front` and `pop` are two), for any set of threads and queues; a caller starts an
operation and sees its end. In `KScheduler` an instance of `KQueue` carries the five queues `newJobQueue`,
`cmpJobQueue`, `eventReducerQueue`, `kFastTrkQueue` and `kTrackArrQueue`; `pc[t]` is where
each thread is in `fReaderThread`, `fWorkerThread`, `fReaperThread` or `runThreads`.
Objects are identities: `jobs[e]` is the KJob of entry `e` or NULL after its destructor,
`raw` says of which event an SRawEvent object holds the data (`BUF` is the buffer that
`GetEntry` fills), `tracklets[a]` is an array's contents as the events that they belong
to. `Pushed(t)` is the moment between a thread's `push` of a job and the return of the
put: the code does not clear its pointer, and by then the job may have gone all the way
through the pipeline and been deleted; the pointer is not used any more. Pattern recognition is `NTracklets[e]`, with 0 for an event that the tracker rejects.

Abstractions: the thread start order among workers (they are alike); histograms, messages
and timing; the reduction of the event in place. Not modelled: the HALTED branches,
`acceptEvent`'s prints, a second `runThreads()` on one object, which ends in an assert,
`runThreads()` without `Init()`.

### CodaInputManager, CodaReader

`file` is the size of the raw-data file in half blocks of 16384 bytes (`BLOCK = 2`: the code's wait
for 32768 bytes more, and an odd size stands for a block that is only partly written); event
`e` can be read when the blocks up to `EndBlock[e]` are there, since `evRead` needs whole
blocks. The DAQ grows the file, writes the END file after the last data, dies without
one, and opens the file of the next run, at any moment; it is external. `pc` is where the
call in progress is. The mutual recursion `NextCodaEvent` -> `JumpCodaEvent` ->
`NextCodaEvent` is flattened: each level has read what the levels above it have still to
jump over, so the stack is one number, `toRead`. `WaitAndSleep` also stands for an `fopen` that fails.
`CodaReader` is the simplest caller, with history variables for the properties.

Not modelled: bad magic words in `evOpen` (return 3), `OpenFile`'s return 1 (its
`file_exists` is always true by then), a truncated file (`S_EVFILE_TRUNC`).

### MainDaqParser, DecodedSpills

A handler is one step, as the parser is a single thread and shares nothing. A CODA event is a
record: its type, the physics events of which it has data, and the facts about
them on which a decision depends (trigger bits and NIM3 among them, a QIE record and its turn onset, late turn);
later trigger bits and QIE records of a physics event replace earlier ones (`NIM3With`, `OnsetWith`). `list_ed` and
`list_ed_now` are the code's two buffers, which `PackOneSpillData` lets change places;
`rest` is the static iterator of `NextPhysicsEvent`; `list_sd` the spill records, with the
CODA events that have written each part. `DecodedSpills` says, without any of that, what
should be handed out when `n` CODA events are processed: the physics events with the keys `Keys(n, {})` (spill and ID) in the order
`Precedes`, each with the hits of the flush events `HitsOf`. Its second argument is a set of CODA events to
be left out of the file, for a decoder that has skipped blank ones.

Not modelled: the words of a board, mapping of hits to detectors, run statistics, scaler
and FEE contents, `DecoError` counts, `Abort()`, which ends the process. A handler that returns an
error ends `ParseOneSpill`, and `NextPhysicsEvent` calls it again: no state differs.

### DecoderOutput

`pc` is where the process is in `Fun4MainDaq()`; each SQL statement, each closing of a
file and each re-creation is a step, `Crash` may come between any two, `Exec` lets a
statement fail (the code prints and goes on, at the label its early return leads to).
`db` holds the rows of the run in `deco_status`, `spill_dst_status`, `run` and `spill`;
`files` the DST files: their events, whether they are closed, and what the RUN tree has.
`Start` begins another decoding of the same run.

Not modelled: six of the seven tables of `DbUpSpill` (they are written alike; the name of one,
`slow_cont_target     `, has trailing blanks at `DbUpSpill.cc:45`, so it is never
cleared), `UploadParam`, two decoders at a time, a manager without a database.

### OnlMonClient, OnlMonServer

`OnlMonClient` is the decoder's side: `hm[c]` is the set of histograms that client `c` is
filling, `sp_hist[c]` the sets kept per spill, where `LIVE` is the alias of the present
one; `list_sp` and `sp_sel` are the `OnlMonComm` singleton's. A histogram is counted by
what has been put into it: of `MODE_ADD`, how often each event; of `MODE_UPDATE`, as of
which event. `process_event` is one step under the mutex, between `LockForEvent` and the
next client; `InitRun`, which registers one histogram after the other, and `End` take no mutex.
When there are too many spills, `DisableSpillHist` first changes the client and then calls
`SetSpillSelectability(false)`. These are two steps (`pc = "disabled"`, which holds the mutex, or
`"endDisabled"` in `End`, which does not), as the server reads that flag without the mutex.

`OnlMonServer` adds the server thread, which handles one connection at a time, message by
message (`Ping`, `Spill`, `SUBSYS`, `Suicide`), the two threads of the viewer
(`StartMonitor` and `ReceiveFullSpillRange`), and another decoder, which sends `Suicide`. The
viewer may give up waiting for the Pong, the decoder may end at any time. Where two
threads are at one object (`HistRace`, `SpillListRace`) what is read is `TORN`, or the process crashes.

Abstractions: the five ports and how a server takes one over; the network (TCP: in
order, cut off only by an end of the process); drawing. Not modelled: the WAN filter of `OnlMonServer`,
`OnlMonUI`'s panel (`OnlMonUI.cc:201` shows "All" without a call of `SetSpillMode`).

### Fun4AllSyncManager, Fun4AllServer

`in[i]` is an input manager's file list, open file and position in it; `node[i]` the event
that it has put into the node tree. `SyncManagerRun` is one turn of the loop in `run(1)`, over all inputs, which
opens the next file or starts the list over (`RepeatAll`) where a file ends, gives back what the
others have read where a list ends (`ReadError`), and asks for a reset of the node tree after a rewind (`resetnodetree`).

All inputs are under the default top node `TOP`, so that they share the node `RUN`. There
`fileopen()` reads the run tree of the file, and there it looks up the `RunHeader`
(`Fun4AllDstInputManager.cc:84-98`). `runheader` is what is in that node (`HeaderAfter`), `myrunnumber[i]` what the
input took from it (`RunNumberAfter`): a file without a header gives its input the number of the
header read last, of whichever input. An input of the second type may be told by `NoRunTTree()` not to do so
(`noruntree`; the macro calls it, if at all, before the first `run`). After each turn the run numbers of all
inputs are compared, and two different ones end the program
(`exit(1)`, `Fun4AllSyncManager.cc:224-233`; `pc = "exit"`), as does a rewind of an input whose files were not listed (`RepeatFails`).
Hence the change of the run inside a list is survived only if no other input has kept the number of the old run:
with `NoRunTTree()`, or when the other input opens a file at the same event that gives it the new number.

`Fun4AllServer` is the loop
of `run(nevnts, require_nevents)`: each module is a step that returns any code and may ask for the removal of
any module. `Subsystems`, `RetCodes` and `RecoModuleIndex` are the parallel
vectors of the code. The macro may call `run` again, open files in between, or `End`.

The first input is synchronised and the others are of the type
`Fun4AllNoSyncDstInputManager`: nothing in the repository puts the node `Sync` into a DST, so
that a second synchronised input never agrees with the first
(`Fun4AllDstInputManager.cc:230`). Hence the part of `SyncIt` that skips events
(lines 295-304) and the input left behind by a mismatch (`Fun4AllSyncManager.cc:164`) are not reachable.
Not modelled: `skip`, which moves only the first input; `Repeat(-1)` on files without events,
which reads for ever; input modules that reject events, several sync managers, exit on
changing node counts, histogram managers, timers.

## Runs

| Run | Properties | Instance |
|---|---|---|
| `queue` | TypeOK, Accounting, MutualExclusion, FrontSafe, FifoSpec | 3 threads, a pipe of depth 2 that starts empty, a pool of one that starts full |
| `scheduler` | TypeOK, OutputExact, JobsIntact, PoolsSound, JobsInFlight, BoundedLoss, EndsComplete | 2 workers, 4 events of the E906 kind, 1 reducer, 1 tracker, an input pipe of 1 and an output pipe of 2 places; symmetric workers |
| `scheduler_live` | Termination, PipelineSpec | 2 workers, 2 events of the E1039 kind, everything of size 1; no symmetry |
| `coda_reader` | TypeOK, InOrder, LossBounded, RecursionBounded, Termination | 5 events in 4 blocks, online or not, 2 looks per wait |
| `decoder` | TypeOK, OutputAsExpected, RecordMatches, SameButBlanks, Termination | 4 spills, 17 CODA events, 3 blocks, one event blank at first |
| `decoder_retry` | HitsOnce: violated | 1 spill and its neighbours |
| `decoder_spill_id` | SlowControlIsPrimary: violated | the same |
| `output` | TypeOK, StatusTwoIsFinished, TablesMatchFiles | 5 events, 4 spills, 3 files, 3 decodings, 1 failing statement |
| `output_gap` | FinishedIsStatusTwo: violated | 3 events, one group of spills without events |
| `onlmon` | TypeOK, SnapshotExact, DumpComplete, WholeRunOnlyIfUnselectable, AbortOnlyWhenCutOff, ConversationsEnd, DecoderEnds | 2 clients, 2 possible runs of 3 events, 1 selectable spill, 2 connections, 3 kinds of request |
| `onlmon_end` | HistogramsUnderMutex: violated | 1 client, 1 connection |
| `fun4all` | TypeOK, EveryEventOnce, EventsWithinRuns, WrittenIffSelected, GoodEventsCounted, RunReturns | 2 modules, 2 output managers, 2 inputs with 3 possible pairs of file lists, the second with or without its run tree, 2 calls of `run`, 1 removal |

Some properties are conjunctions of named parts: `OutputExact` is `WrittenOnce` and
`WrittenFaithfully`; `JobsIntact` is `EventNotClobbered` and `NoDanglingJob`; `PoolsSound` is
`ExclusiveUse` and `CleanArrays`; `EndsComplete` is `ClosedComplete` and `ReturnsClean`;
`OutputAsExpected` is `PrefixWithout({})`, `CompleteWithout({})` and `HitsInOrder`; `TablesMatchFiles` is
`FinishedIsStatusTwo`, `RunFinishedIsComplete` and `RowsMatch`; `ConversationsEnd` is
`ViewerReturns` and `ServerReturns`.

Why the bounds are enough:

- *queue*: three threads are a taker, a putter and one that interferes; the depth
  of 2 and the pool of 1 give a queue that is full, empty and neither.
- *scheduler*: with four events and two arrays every array is used again; a pipe of one
  place blocks workers, one reducer and one tracker make them wait for each other; one
  worker's pill can overtake the other's job. Event 0 has two tracklets, event 1 none and the
  rest one, so an array that is not cleared shows. `JobsInFlight` needs more than NTHREADS + 1 events.
- *coda_reader*: an event that ends where its block does, one over two blocks; four blocks
  allow three nested re-openings.
- *decoder*: the file has each thing that the parser treats specially: a flush event
  before the first BOS, one event in two flush events, one ID in two spills, event 0, a late turn with and
  without NIM3 and turn onset, a NIM3 bit that a second flush event takes back, a missing EOS, an empty spill, a last spill without an end.
  `MAX_RETRIES` bounds how often the blank event is met before the DAQ has filled it;
  `UINT_MAX` stands for 2^32 - 1 and is larger than the events and the retries together.
- *output*: groups with one spill and with several, spills with one and several events, and
  three decodings, so that the last one finds what a crashed one left on top of a
  complete one. `MAX_ATTEMPTS` and `MAX_DB_ERRORS` are bounds.
- *onlmon*: the second client gives up spill-by-spill histograms one spill before the first,
  since each adds to the list of spills that both look at; two events in one spill, so that the entry of
  the present spill counts on; events before the first begin of a spill, which have the ID 0; a spill
  without events. With one selectable spill the limit is met by both runs. `MaxBacklog` bounds the connections that wait:
  one of the viewer behind another of it or one of another decoder.
- *fun4all*: a list with an empty file in the middle, inputs of equal and of different lengths, an input without
  a list, for which the macro opens files; a change of the run within a list, which ends the program or not, depending on
  `NoRunTTree()`; files of two events and without run header, which take over the run of another input;
  `nevnts` 0, counted and counted with `require_nevents`; the run number forced or not. Two calls of `run` are enough to see what the
  first leaves behind. `GoodEventsCounted` is looked at before each event and when `run` has returned, so that a count that
  is too high shows as well as one that is too low. `MaxCalls` and `MaxUnregister` are bounds.

Deadlock is checked in every run: the systems end in an explicit `Terminated` step.

### Fairness

- `KScheduler`: weak fairness of each thread. They are preemptive ROOT threads, which block only in
  `Wait`, `Lock` and `Join`. Strong fairness is not assumed: a worker may be overtaken at a semaphore
  by another one, but only as long as there are jobs, and each worker ends with a pill of its own.
- `CodaReader`, `MainDaqParser`: weak fairness of the decoder, a single thread whose waits
  time out. Nothing is asked of the DAQ: it may stop in the middle. Only
  the decoder's `Termination` assumes, as its premise, that no event stays blank.
- `DecoderOutput`: none; its properties are about what is on disk.
- `OnlMonServer`: weak fairness of the server thread, of the decoder's exit and of the viewer threads once
  they have connected; none of connecting, of another decoder or of the end of the data. The main thread gets strong
  fairness: viewers may come for ever, and between any two locks of the mutex the server
  talks to one over the network, while the mutex is free.
- `Fun4AllServer`: weak fairness of the event loop, one thread; what the macro does is its own choice.

### What the runs show beyond the obvious

- A worker passes its pill on while others still hold jobs, yet the file is closed
  only after the last job (`ClosedComplete`), since the reaper counts NTHREADS pills.
- What the viewer draws is a state that the histograms were in, all histograms of an
  answer as of the same moment, except for what `End()` and `InitRun()` do without the mutex
  (`SnapshotExact`); until the second spill begins an online viewer sees empty
  histograms, since the first has no entry yet.
- A range of spills that a viewer was allowed to select is not answered with the whole run, although the flag that
  says so is set and read without the mutex and after the change that it announces
  (`WholeRunOnlyIfUnselectable`); between `OnlMonClient.cc:375` and `:376`, called from `End()`, it can be.
- The viewer ends its own process (`FindMonHist`, `OnlMonClient.cc:442`) when the decoder breaks the connection off in the
  middle of the histograms, though `DrawCanvas` (501-503) means to warn: `ReceiveHist`
  (186) reports success (`AbortOnlyWhenCutOff` states when).
- Return codes that are left from an earlier event, which `process_event` does not reset
  after an abort, neither reach an output manager nor the count of good events, because an
  aborted event is not written and ABORTEVENT is found wherever it stands
  (`WrittenIffSelected`, `GoodEventsCounted`).
- From one event loop to the next each input moves on by one event, over pushed-back events, rewinds, double reads
  after a reset and ends of files, and from the last event of a file to the first of the *next* file that has one: no file of a list is passed
  over (`EveryEventOnce`). What the modules see is of the run that they have begun, although all inputs overwrite one
  header (`EventsWithinRuns`).
- The doubts in comments of `KScheduler.cxx` ("is there a race condition here?", line 706)
  are unfounded: `NoDanglingJob`, `EventNotClobbered`.
- The reader never gives up an event that was in the file when it last met its end, although
  the DAQ may write the last data and the END file between two looks (`LossBounded`);
  what it can lose is what was written since.

### Disagreements between code and comments

1. `decoder_retry` (`MainDaqParser.cc:180`): after a CODA event of type 0 the parser jumps
   to the event *before* it and processes that one again: its hits are doubled. If it is a BOS, a
   spill is counted twice, which is why `SameButBlanks` is about `Harmless` blank events only.
2. `decoder_spill_id` (`MainDaqParser.cc:605`): "Regard the Slow Control info as primary",
   but the spill ID is a local counter.
3. `output_gap` (`Fun4AllSpillDstOutputManager.cc:55`): when a whole group of spills has no
   event, the file before the gap keeps the status 1 for ever, because the
   manager has already forgotten its first spill.
4. `onlmon_end` (`OnlMonClient.cc:129`, also 75-86): `End()` and `InitRun()` change and delete
   histograms without the mutex that is to "Control the access to subsystem histograms"
   (`OnlMonServer.h:58`), while the server thread may be copying them.

A further window, stated as the limit of `StatusTwoIsFinished`: when a run is decoded *again*, a
file is emptied (line 64) before its status is set back to 1 (line 73).

## Proofs

`KQueue_proofs` (for any threads, queues, depths and initial contents that satisfy
`KQueueAssumption`) proves `TypeCorrect`, `AccountingCorrect`, `MutualExclusionCorrect`,
`FrontSafeCorrect` and `ImplementsFifo`, the refinement of `BoundedFifo`. The invariant is
`IInv == TypeOK /\ Accounting /\ LockHeld /\ FrontRead`:

- types alone are not inductive, as `pop` of an empty queue would leave them; that the
  queue is not empty between `Wait` and `pop` follows from `Accounting`: the full
  semaphore, the queue's length and the threads in the middle of an operation add up,
  and likewise for the empty semaphore and the depth;
- `LockHeld` says who holds each mutex, from which mutual exclusion follows;
- `FrontRead` says that what a thread has read by `front` is still the front: only the
  holder of the mutex changes the queue.

For the refinement, `pop` is the abstract Take and `push` the abstract Put, the other
steps stutter; a Put needs room, which is a consequence of `Accounting` (lemma `Room`).

`CodaReader_proofs` (for any file, any number of blocks and any length of the wait) proves `TypeCorrect`,
`InOrderCorrect`, `LossBoundedCorrect` and `RecursionBoundedCorrect`, with
`IInv == TypeOK /\ Counting /\ Calling /\ Seen /\ Nesting`:

- `Counting`: during a call `m_event_count + toRead` is one more than what was
  returned, whatever the level of the recursion: the reason why flattening it works;
- `Calling`: where the caller and the call in progress can be at the same time;
- `Seen`: every event that was in the file at the last end of it has been returned;
- `Nesting`: each level needs a block more than the one above it.

`DecodedSpills_proofs` (for any file, any sampling, any growth and end of the file, any blank events and any number of retries) proves `TypeOK`,
`OutputAsExpected` and `SameButBlanks`, and `RecordMatches` for as long as no blank event was met and, if the blank
events are `Harmless`, for ever; also `HitsOnce` as long as no blank event was met: what disagreement 1 doubles, it doubles by a retry. That no retry repeats a BOS and no BOS or EOS is blank has to be assumed: the retry processes the event
before the blank one again, and a repeated BOS counts its spill twice, after which the spill IDs of the decoder are not
those of the file. The invariant has two parts:

- `IInv == TypeOK /\ Calling /\ Position /\ Buffers /\ Records` is about where the decoder is. `Standing(p)`: event `p` is the next
  one; what lies between the last one that was processed and `p` are skipped blank events, or `p` is the one before a blank event, for the
  second time. `Meeting(c)`: blank event `c` was met and the file is opened anew. `Position` says which of them holds in the middle of
  which call of the reader, also when opening fails, and when the wait ends in the middle of the jump. `Records` says that the spill ID
  is the number of BOS events that are processed, and which BOS and EOS events are in the record of each spill, from which
  `RecordMatches` follows. The retries are also in the types: each may count one BOS more
  (`spillID_local <= Spills(p) + retries`).
- `DInv` is about the data: there is a set of skipped blank events (none before the first retry) such that `list_ed` holds what is in
  the flush events of the present spill without these (`Collects`), `list_ed_now` the events of the last one that are not left out (`Hands`), and
  the output the keys that the file without them defines up to those that are still to be handed out (`HandedOut`). The set grows
  when an event behind a skipped one is handled; the spills that are over are not touched by that (`OverKept`), as their events are all behind the reader.

`OnlMonServer_proofs` (for any clients, runs, requests and connections) proves `TypeOK`, `SnapshotExact`, `DumpComplete`,
`WholeRunOnlyIfUnselectable`, `AbortOnlyWhenCutOff`, and that `process_event` and `SendHist` exclude each other
(`RaceOnlyOutsideEvents`: what disagreement 4 leaves of the mutex). Its invariant has three parts:

- `IInv`: who holds the mutex, what the switches are, which histograms are registered. `Told`: as long as the server says
  that spills can be selected, all clients keep them apart, but for the one that is just about to call
  `SetSpillSelectability`. In `process_event` that one holds the mutex, so that `SendHist` cannot run in between, from
  which `WholeRunOnlyIfUnselectable` follows; in `End` nothing keeps it out, which the property excepts.
- `MInv`, of the main thread alone: `Fills[c]` is how many events client `c` has filled, and `Holds` says what it has
  then. While the spills are kept apart (`Apart`) each spill so far has an entry with its own events,
  the present one through the alias, the first one only since the second began; afterwards the live set has all
  events (`AllCounts`). The work is in one event more (`OneEventMore`: same spill, first, second, a later
  spill, too many spills) and in the merge at the end (`MergedAtEnd`), for which `MergedCounts` computes the
  sum over the spills: each event is in exactly one of them. `DumpComplete` follows.
- `LInv`, of the conversation between the server thread and the viewer's thread of the buttons. As long as the server is there,
  (`Serving`) a viewer that has asked is in one of seven states with it: `Asking`, `Copying`, `Refused`, `Sending`,
  `Arriving`, `Confirmed`, `Announced`; what is on its way is nothing but what that state says, and what has been
  received, is on its way and is still to be sent are together the histograms registered when the copies were
  made (`AllOf`). So the end of the list is announced to a viewer that has all of them, from which
  `AbortOnlyWhenCutOff` follows. `Sound` says that all these copies are exact as of one moment, for which
  `MergedShows` takes the counts of `MInv` at the moment of `Merge`; a torn copy is possible only where `TornOnly` says.
  Of the other viewer thread and of other decoders only the connections are described.

`TornAssumption` says only that what is read from changing histograms is not taken for a number.

`DecoderOutput_proofs` (for any run, any length of a group and any numbers of decodings, crashes and failing statements) proves `TypeOK`,
`StatusTwoIsFinished`, `RunFinishedIsComplete`, `RowsMatch`, and `TablesMatchFiles` for runs in which no group between two others
is without events (`NoGroupLeftOut`; run `output_gap` shows that it is needed). A decoder that dies leaves any files and
rows behind, so that the invariant may say of them only what this decoding has done:

- `Place`: which event the process is at, and which file is open;
- `FilesFollow`: the files of the groups reached so far hold their events, in order, and all but the open one are
  closed;
- `FirstTime`: while the run is decoded for the first time, nothing else exists, and no file of status 2 is the open one;
- `SpillsSeen`, `DecoRow`, `RunRow`, `SpillRows`, `StatusRows`: the rows, the latter four as long as no statement has failed.

`Fun4AllServer_proofs` (for any inputs, files, modules, output managers and calls of `run`) proves `TypeOK`, `EveryEventOnce`,
`EventsWithinRuns`, `WrittenIffSelected` and `GoodEventsCounted`:

- `InputsInStep`: each input stands behind the event that was last served (`Behind`) or, while one is being
  handled or given back, one beyond it (`OneBeyond`), over the ends of files and lists;
- `Registered`: after any removals the indexes of the output managers are those of the modules they select by;
- `CodesAreOfThisEvent`: the codes up to the present module are what the modules said of this event, and
  those behind it, which may be left of an earlier one, matter only after an abort;
- `RunsRead`: the number of each input that reads the run tree is that of its open file, unless this has none, and
  the header in the node `RUN` is the number of one of the inputs. Hence, when all numbers agree, so that
  the program goes on, the header and the files are of that run;
- `RunsMatch`: all registered modules are in the server's run, which is that of the files and of the header in the node tree
  (the latter two only if no run number is forced);
- `Counts`: the counter of good events agrees with what the modules said.

What `unregisterSubsystemsNow` and the output managers compute needs induction over data: the increasing enumeration of a set (`Ordered`)
and the sum of a function over a set. `SetLemmas` proves both, by `WFMin` of the library
applied to the set of numbers for which the statement fails, as the induction theorems themselves cannot be instantiated.

`KScheduler_proofs` (for any numbers of workers, events, tracklets, reducers and trackers,
any depth of the pipes and both kinds of input) proves `TypeOK`, `OutputExact`, `JobsIntact`,
`PoolsSound`, `JobsInFlight`, `BoundedLoss` and `EndsComplete`, and that the scheduler
implements the safety part of `EventPipeline` (`PipelineCorrect`). No lock protects a job, an event or an
array; what protects them is that one thread has them at a time and gives them away through a queue. That is the
argument of the proof, in layers, each of which rests on those above it:

- *Control*: at each label, which queue operation the thread may be in, with which item, and
  what its pointers are. It shows that the scheduler uses the queues as `KQueue` assumes, so that the
  queue's invariant holds of the five queues by instantiation, and that each step is of
  one of a few forms (take, put, other queue step, array taken, local), so that what follows has
  a case per form and not per thread, label and queue.
- *Ownership*: every job, reducer, tracker and array is in one
  place, a queue or a hand (`Sole`), jobs exist as long as they are
  in one, an array belongs to at most one job and is not in the pool then.
- *Contents*: a job is blank before a worker has filled it and full
  of its own event afterwards; an array is empty unless its job is full; the
  tree holds each event at most once, complete, and none that is still in flight; what
  is not on disk is less than SAVENUM.
- *Ends*: the converse of ownership, nothing is lost. A job that exists is
  in a pipe or a hand, an object of a pool in its pool, a hand or a job (`Placed`), an event that was
  read in a job or in the tree (`EventsKept`). And where the pills are: each is in one place
  (`PillsCounted`), in the first pipe no event comes after one (`PillsLast`), and
  once all workers have passed theirs on, a pill is the last item of the second pipe
  (`PillBehind`). When the reaper has counted NTHREADS pills, all workers have therefore passed theirs
  on, the second pipe is empty and the first one holds no event: no job is left, and
  every event is in the tree.

For the refinement, the reaper's Fill is the abstract Write and its Close the abstract Close, the other
steps stutter; that the Fill writes an event that was pending is a consequence of *Contents*
(lemma `FilledEntry`), that nothing is pending at the Close one of *Ends* (`NonePending`).

`IInv` is the conjunction. Types alone are not inductive: `TypeOK` needs the
queue's accounting for `pop`, ownership for every access through a pointer, and so on down.

The assumptions on the constants (`KQueueAssumption`, `KSchedulerAssumption`, `CodaAssumption`, `ParserAssumption`, `OnlMonAssumption`,
`TornAssumption`, `OutputAssumption`, `InputAssumption`, `ServerAssumption`)
are evaluated by TLC in the runs of their modules.

Only model-checked: liveness (`Termination`, the fairness of `PipelineSpec`, `ConversationsEnd`, `DecoderEnds`,
`RunReturns`), which is out of the prover's reach. All safety properties of the passing runs are proved.

## Not modelled

- `Fun4AllEVIOInputManager` with a list of files: its reader's `m_go_end` is never
  reset, so the second file of a list is not waited for; the decoder is run with one file. `Daemon4MainDaq.C`, the
  poller that starts decoders, keeps its state in memory only and has no protocol with them but the file system.
- `EventDispUI` (`packages/Display/interface/EventDispUI.cxx:401`): a thread tests
  `m_auto_mode` without a lock, to run the next event automatically; the rest is ROOT's graphics.
- Tracking, vertexing, simulation, generators, geometry, field, calibration, trigger
  emulation, embedding: real arithmetic, random sampling, or functions of one event
  with no state between events. `Half/toFloat.h` is a generated table.
- Node tree, DST object I/O, `DbSvc`, parameters: sequential, one caller, modelled where it
  matters by what their callers see.

## What could follow

1. `Fun4AllEVIOInputManager` with several files, and `Daemon4MainDaq.C` with restarts.
2. A deadlock-freedom theorem for `KScheduler` of any size: as long as `Main` is not through, some thread is
   neither at an end nor waiting for a semaphore, a mutex or a join. It needs one more invariant of the queue (a
   held mutex belongs to a thread inside its critical section); up to now TLC's deadlock check shows it.

------------------------- MODULE Fun4AllSyncManager -------------------------
(***************************************************************************)
(* Reading events from files, src/framework/fun4all: a list of input       *)
(* managers, each with its list of DST files, read in step by              *)
(* Fun4AllSyncManager::run(1).                                             *)
(*                                                                         *)
(* The first input is a Fun4AllDstInputManager, the others are of type     *)
(* Fun4AllNoSyncDstInputManager, which takes part without a sync object.   *)
(* (Nothing in the repository puts the node "Sync" into a DST: a second    *)
(* synchronised input would never agree with the first.)                   *)
(* All of them are under the same top node, the default, and so share the  *)
(* nodes RUN and DST.                                                      *)
(***************************************************************************)
EXTENDS Integers, Sequences, FiniteSets, FiniteSetsExt

CONSTANTS
  Inputs,       \* the input managers, 1 to their number
  Files,
  FileEvents,   \* how many events a file has
  FileRun,      \* run number of its RunHeader, 0: it has none
  FileLists,    \* the file lists that the inputs may be given
  NoRunTTrees,  \* the sets of inputs of which NoRunTTree() may be called
  Repeats,      \* possible arguments of Repeat()
  NONE

Entries == [file : Files, no : Nat, rest : Seq(Files)]

(* Only an input of the second type has NoRunTTree().                      *)
ASSUME InputAssumption ==
  /\ Inputs # {} /\ IsFiniteSet(Inputs) /\ Inputs = 1..Cardinality(Inputs)
  /\ FileEvents \in [Files -> Nat] /\ FileRun \in [Files -> Nat]
  /\ FileLists \subseteq [Inputs -> Seq(Files)]
  /\ NoRunTTrees \subseteq SUBSET (Inputs \ {1})
  /\ Repeats \subseteq Nat
  /\ NONE \notin Entries

VARIABLES
  pc,              \* where the program is; "sync" is Fun4AllSyncManager::run
  filelist_copy,   \* per input: the files that AddFile() has listed
  noruntree,       \* the inputs that do not read the run tree of their files
  in,              \* per input: its files, see InputInit
  myrunnumber,     \* per input: its run number, 0 if it has none yet
  runheader,       \* run number of the RunHeader in the node RUN, 0: there is none
  node,            \* per input: the event that it has put into the node tree, or NONE
  repeat,
  resetnodetree,   \* what Fun4AllSyncManager::run returns of it, TRUE for 1
  currentrun,
  iret,
  served           \* history: per input, the event of the last event loop, NONE after a rewind

syncVars == <<pc, filelist_copy, noruntree, in, myrunnumber, runheader, node, repeat,
              resetnodetree, currentrun, iret, served>>
runVars  == <<myrunnumber, runheader>>

(* filelist begins with the file that is open; eventNumber is of its       *)
(* PHNodeIOManager, the number of events read.                             *)
InputInit(files) == [filelist |-> files, isopen |-> FALSE, eventNumber |-> 0]

SyncInit ==
  /\ pc = "macro"
  /\ filelist_copy \in FileLists
  /\ noruntree \in NoRunTTrees
  /\ in = [i \in Inputs |-> InputInit(filelist_copy[i])]
  /\ myrunnumber = [i \in Inputs |-> 0] /\ runheader = 0
  /\ node = [i \in Inputs |-> NONE]
  /\ repeat \in Repeats
  /\ resetnodetree = FALSE /\ currentrun = 0 /\ iret = 0
  /\ served = [i \in Inputs |-> NONE]

-----------------------------------------------------------------------------
(* Fun4AllDstInputManager.                                                 *)

EventsRead(m, j) == IF j = 1 /\ m.isopen THEN m.eventNumber ELSE 0

\* positions in the list of the files that have an event left
Left(m) == {j \in DOMAIN m.filelist : EventsRead(m, j) < FileEvents[m.filelist[j]]}

\* where run(1) stops in the list
StopsAt(m) == IF Left(m) = {} THEN Len(m.filelist) ELSE Min(Left(m))

(* run(1): the next event, if need be after OpenNextFile().  It fails, and *)
(* leaves all files closed, if no file has an event left.                  *)
InputRun(m) ==
  IF Left(m) = {}
  THEN InputInit(<<>>)
  ELSE [filelist    |-> SubSeq(m.filelist, StopsAt(m), Len(m.filelist)),
        isopen      |-> TRUE,
        eventNumber |-> EventsRead(m, StopsAt(m)) + 1]

PushBackEvents(m, n) == IF m.isopen THEN [m EXCEPT !.eventNumber = @ - n] ELSE m

\* the files that run(1) of input i opens
Opened(i) == (IF in[i].isopen THEN 2 ELSE 1)..StopsAt(in[i])

\* those of which fileopen() reads a RunHeader into the node RUN
Headed(i) == IF i \in noruntree THEN {} ELSE {j \in Opened(i) : FileRun[in[i].filelist[j]] # 0}

(* The RunHeader in the node RUN when the inputs 1 to i have read.         *)
HeaderAfter(i) ==
  LET new == {k \in 1..i : Headed(k) # {}}
  IN  IF new = {} THEN runheader
      ELSE FileRun[in[Max(new)].filelist[Max(Headed(Max(new)))]]

\* Mutant: the run number of its first file stays.
RunNumberOnce(i) ==
  IF i \in noruntree \/ Opened(i) = {} \/ HeaderAfter(i) = 0 \/ myrunnumber[i] # 0
  THEN myrunnumber[i] ELSE HeaderAfter(i)

(* fileopen() takes the number from there, be it of this file or not.      *)
RunNumberAfter(i) ==
  IF i \in noruntree \/ Opened(i) = {} \/ HeaderAfter(i) = 0
  THEN myrunnumber[i] ELSE HeaderAfter(i)

ReadRunNodes ==
  /\ runheader' = HeaderAfter(Cardinality(Inputs))
  /\ myrunnumber' = [i \in Inputs |-> RunNumberAfter(i)]

-----------------------------------------------------------------------------
(* Fun4AllSyncManager::run(1).  One turn of its loop reads an event from   *)
(* each input; no input stops it, since SyncIt() of those after the first  *)
(* always returns SYNC_OK.                                                 *)

Failed == {i \in Inputs : Left(in[i]) = {}}

(* `rest`, the files listed behind the one that the event is of, is for    *)
(* the property EveryEventOnce.                                            *)
InMemory(m) == [file |-> m.filelist[1], no |-> m.eventNumber, rest |-> Tail(m.filelist)]

RunNumbers(numbers) == {numbers[i] : i \in Inputs} \ {0}

(* All inputs have delivered.  After a rewind the server is told to reset  *)
(* the node tree first; inputs of different runs end the program.          *)
ReadAll ==
  LET read == [i \in Inputs |-> InputRun(in[i])]
  IN  /\ pc = "sync" /\ Failed = {}
      /\ in' = read
      /\ ReadRunNodes
      /\ node' = [i \in Inputs |-> InMemory(read[i])]
      /\ \/ /\ resetnodetree
            /\ pc' = "reset" /\ UNCHANGED currentrun
         \/ /\ ~resetnodetree /\ Cardinality(RunNumbers(myrunnumber')) <= 1
            /\ pc' = "begin"
            /\ currentrun' = IF RunNumbers(myrunnumber') = {} THEN 0
                             ELSE CHOOSE r \in RunNumbers(myrunnumber') : TRUE
         \/ /\ ~resetnodetree /\ Cardinality(RunNumbers(myrunnumber')) > 1
            /\ pc' = "exit" /\ UNCHANGED currentrun
      /\ UNCHANGED <<filelist_copy, noruntree, repeat, resetnodetree, iret, served>>

(* What those inputs leave in the node tree that have not failed.          *)
ReadOthers ==
  /\ ReadRunNodes
  /\ node' = [i \in Inputs |-> IF i \in Failed THEN node[i] ELSE InMemory(InputRun(in[i]))]

(* A file list is at its end: start over with all of them.                 *)
RepeatAll ==
  /\ pc = "sync" /\ Failed # {} /\ repeat > 0
  /\ \A i \in Inputs : filelist_copy[i] # <<>>
  /\ ReadOthers
  /\ in' = [i \in Inputs |-> InputInit(filelist_copy[i])]
  /\ repeat' = repeat - 1
  /\ resetnodetree' = TRUE
  /\ served' = [i \in Inputs |-> NONE]
  /\ UNCHANGED <<pc, filelist_copy, noruntree, currentrun, iret>>

(* ResetFileList() fails for an input whose files were not listed.         *)
RepeatFails ==
  /\ pc = "sync" /\ Failed # {} /\ repeat > 0
  /\ \E i \in Inputs : filelist_copy[i] = <<>>
  /\ ReadOthers
  /\ pc' = "exit"
  /\ UNCHANGED <<filelist_copy, noruntree, in, repeat, resetnodetree, currentrun, iret, served>>

\* Mutant: what the other inputs have read is not pushed back.
ReadErrorKeeps ==
  /\ pc = "sync" /\ Failed # {} /\ repeat = 0
  /\ ReadOthers
  /\ in' = [i \in Inputs |-> InputRun(in[i])]
  /\ iret' = -Cardinality(Failed)
  /\ pc' = "macro"
  /\ UNCHANGED <<filelist_copy, noruntree, repeat, resetnodetree, currentrun, served>>

(* Or give back what the others have read, and end the event loop.         *)
ReadError ==
  /\ pc = "sync" /\ Failed # {} /\ repeat = 0
  /\ ReadOthers
  /\ in' = [i \in Inputs |-> IF i \in Failed THEN InputRun(in[i])
                             ELSE PushBackEvents(InputRun(in[i]), 1)]
  /\ iret' = -Cardinality(Failed)
  /\ pc' = "macro"
  /\ UNCHANGED <<filelist_copy, noruntree, repeat, resetnodetree, currentrun, served>>

SyncManagerRun == ReadAll \/ RepeatAll \/ RepeatFails \/ ReadError

(* Fun4AllServer::fileopen(): the macro gives another file to an input     *)
(* that has none, at the start or at the end of its list.                  *)
FileOpen(i, f) ==
  /\ pc = "macro" /\ ~in[i].isopen /\ in[i].filelist = <<>>
  /\ in' = [in EXCEPT ![i] = [filelist |-> <<f>>, isopen |-> TRUE, eventNumber |-> 0]]
  /\ runheader' = IF i \in noruntree \/ FileRun[f] = 0 THEN runheader ELSE FileRun[f]
  /\ myrunnumber' = IF i \in noruntree \/ runheader' = 0 THEN myrunnumber
                    ELSE [myrunnumber EXCEPT ![i] = runheader']
  /\ UNCHANGED <<pc, filelist_copy, noruntree, node, repeat, resetnodetree, currentrun, iret,
                 served>>
=============================================================================

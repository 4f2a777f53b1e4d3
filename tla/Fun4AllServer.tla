---------------------------- MODULE Fun4AllServer ----------------------------
(***************************************************************************)
(* The event loop of every job, Fun4AllServer of src/framework/fun4all: it *)
(* has the input managers read (Fun4AllSyncManager), calls the analysis    *)
(* modules (SubsysReco) in order and has the output managers write the     *)
(* event, each depending on the return codes of the modules it selects by. *)
(* Modules may ask to be removed in the middle of the job, and the run     *)
(* number may change from one event to the next.                           *)
(***************************************************************************)
EXTENDS Fun4AllSyncManager, SequencesExt

CONSTANTS
  Modules,        \* the modules, in the order of registration
  EventSelectors, \* per output manager: the modules it selects by
  Requests,       \* calls of run(): [nevnts, require_nevents]
  ForcedRuns,     \* possible values of the flag RUNNUMBER, 0: not set
  MaxCalls,       \* bound: calls of run()
  MaxUnregister   \* bound: modules removed

OutputManagers == DOMAIN EventSelectors

ASSUME ServerAssumption ==
  /\ Modules \in Seq(ToSet(Modules)) /\ IsInjective(Modules)
  /\ EventSelectors \in [OutputManagers -> SUBSET ToSet(Modules)]
  /\ Requests \subseteq [nevnts : Nat, require_nevents : BOOLEAN]
  /\ ForcedRuns \subseteq Nat /\ MaxCalls \in Nat /\ MaxUnregister \in Nat

EVENT_OK == 0
DISCARDEVENT == 1
ABORTEVENT == -1
ABORTRUN == -2

VARIABLES
  Subsystems,        \* the registered modules
  RetCodes,          \* their last return codes
  DeleteSubsystems,  \* those to be removed before the next event
  EventSelector,     \* per output manager: names of modules
  RecoModuleIndex,   \* per output manager: where these are in Subsystems
  runnumber, ifirst, forced,
  request,           \* of the present call of run()
  icnt, icnt_good,   \* its counts of events and of events not aborted
  imod,              \* index of the module that is next
  calls,             \* calls of run() so far
  said,              \* history: return codes of the modules for the present event
  inRun,             \* history: per module, the run that it has begun and not ended
  good,              \* history: events of the present call that no module has aborted
  last               \* history: the last event, what was said of it and who wrote it

serverVars == <<Subsystems, RetCodes, DeleteSubsystems, EventSelector, RecoModuleIndex,
                runnumber, ifirst, forced, request, icnt, icnt_good, imod, calls,
                said, inRun, good, last>>
moduleVars == <<Subsystems, RetCodes, DeleteSubsystems, EventSelector, RecoModuleIndex>>
vars == <<syncVars, serverVars>>

NoCodes == [m \in {} |-> EVENT_OK]

\* Mutant: the indexes are not searched for again.
UpdateNamesOnly(subsystems) ==
  /\ EventSelector' = [o \in OutputManagers |-> EventSelector[o] \cap ToSet(subsystems)]
  /\ RecoModuleIndex' = [o \in OutputManagers |-> RecoModuleIndex[o] \cap DOMAIN subsystems]

(* UpdateEventSelector(): a module that is gone is taken out of the list.  *)
UpdateEventSelectors(subsystems) ==
  LET selector == [o \in OutputManagers |-> EventSelector[o] \cap ToSet(subsystems)]
  IN  /\ EventSelector' = selector
      /\ RecoModuleIndex' = [o \in OutputManagers |->
                               {k \in DOMAIN subsystems : subsystems[k] \in selector[o]}]

\* The numbers of the finite set S in increasing order
InOrder(S) == CHOOSE f \in [1..Cardinality(S) -> S] : \A i, j \in DOMAIN f : i < j => f[i] < f[j]

\* Mutant: the return code of a removed module stays.
UnregisterKeepsCode ==
  LET kept == InOrder({k \in DOMAIN Subsystems : Subsystems[k] \notin DeleteSubsystems})
  IN  /\ Subsystems' = [k \in DOMAIN kept |-> Subsystems[kept[k]]]
      /\ RetCodes' = RetCodes
      /\ UpdateEventSelectors(Subsystems')

(* unregisterSubsystemsNow(), called when an event or a run begins.        *)
UnregisterNow ==
  LET kept == InOrder({k \in DOMAIN Subsystems : Subsystems[k] \notin DeleteSubsystems})
  IN  /\ Subsystems' = [k \in DOMAIN kept |-> Subsystems[kept[k]]]
      /\ RetCodes' = [k \in DOMAIN kept |-> RetCodes[kept[k]]]
      /\ UpdateEventSelectors(Subsystems')

(* unregisterSubsystem(): what a module may ask for while it runs.         *)
Removals(subsystems, asked) ==
  {gone \in SUBSET (ToSet(subsystems) \ asked) :
     Cardinality(gone) <= 1
     /\ Len(Modules) - Len(subsystems) + Cardinality(asked \cup gone) <= MaxUnregister}

(* registerSubsystem(), registerOutputManager().                           *)
Init ==
  /\ SyncInit
  /\ Subsystems = Modules
  /\ RetCodes = [k \in DOMAIN Modules |-> EVENT_OK]
  /\ DeleteSubsystems = {}
  /\ EventSelector = EventSelectors
  /\ RecoModuleIndex = [o \in OutputManagers |->
                          {k \in DOMAIN Modules : Modules[k] \in EventSelectors[o]}]
  /\ forced \in ForcedRuns
  /\ runnumber = forced /\ ifirst = TRUE
  /\ request = NONE /\ icnt = 0 /\ icnt_good = 0 /\ imod = 0 /\ calls = 0
  /\ said = NoCodes /\ inRun = [m \in ToSet(Modules) |-> NONE] /\ good = 0 /\ last = NONE

-----------------------------------------------------------------------------
(* run(): the macro calls it, the loop reads the events.                   *)

Run(r) ==
  /\ pc = "macro" /\ calls < MaxCalls
  /\ calls' = calls + 1
  /\ request' = r /\ icnt' = 0 /\ icnt_good' = 0 /\ good' = 0 /\ iret' = 0
  /\ resetnodetree' = FALSE
  /\ pc' = "sync"
  /\ UNCHANGED <<filelist_copy, noruntree, in, runVars, node, repeat, currentrun, served,
                 moduleVars, runnumber, ifirst, forced, imod, said, inRun, last>>

Read == SyncManagerRun /\ UNCHANGED serverVars

\* Mutant: one event too many is pushed back.
ResetPushesTwo ==
  /\ pc = "reset"
  /\ node' = [i \in Inputs |-> NONE]
  /\ in' = [i \in Inputs |-> PushBackEvents(in[i], 2)]
  /\ resetnodetree' = FALSE
  /\ pc' = "sync"
  /\ UNCHANGED <<filelist_copy, noruntree, runVars, repeat, currentrun, iret, served, serverVars>>

\* Mutant: the sync manager goes on asking for a reset.
ResetForEver ==
  /\ pc = "reset"
  /\ node' = [i \in Inputs |-> NONE]
  /\ in' = [i \in Inputs |-> PushBackEvents(in[i], 1)]
  /\ pc' = "sync"
  /\ UNCHANGED <<filelist_copy, noruntree, runVars, repeat, resetnodetree, currentrun, iret,
                 served, serverVars>>

(* The sync manager has asked for it: the same events are read once more,  *)
(* into a clean node tree.                                                 *)
ResetAndReadAgain ==
  /\ pc = "reset"
  /\ node' = [i \in Inputs |-> NONE]
  /\ in' = [i \in Inputs |-> PushBackEvents(in[i], 1)]
  /\ resetnodetree' = FALSE
  /\ pc' = "sync"
  /\ UNCHANGED <<filelist_copy, noruntree, runVars, repeat, currentrun, iret, served, serverVars>>

-----------------------------------------------------------------------------
(* A new run.  A module may fail in InitRun(), which ends the program.     *)

\* Mutant: only the first event begins a run.
OnlyFirstRun == ifirst

RunChanges == ifirst \/ (forced = 0 /\ currentrun # runnumber)

(* EndRun() of the old run, unless it is the first one, setRun() and       *)
(* BeginRun(), which calls InitRun() of the modules that are left.         *)
NewRun ==
  /\ pc = "begin" /\ RunChanges
  /\ runnumber' = IF forced = 0 THEN currentrun ELSE runnumber
  /\ UnregisterNow
  /\ DeleteSubsystems' \in Removals(Subsystems', {})
  /\ inRun' = [m \in ToSet(Modules) |-> IF m \in ToSet(Subsystems') THEN runnumber' ELSE NONE]
  /\ ifirst' = FALSE
  /\ pc' = "event"
  /\ UNCHANGED <<filelist_copy, noruntree, in, runVars, node, repeat, resetnodetree,
                 currentrun, iret, served, forced, request, icnt, icnt_good, imod, calls, said,
                 good, last>>

InitRunFails ==
  /\ pc = "begin" /\ RunChanges /\ Subsystems # <<>>
  /\ pc' = "exit"
  /\ UNCHANGED <<filelist_copy, noruntree, in, runVars, node, repeat, resetnodetree,
                 currentrun, iret, served, serverVars>>

SameRun ==
  /\ pc = "begin" /\ ~RunChanges
  /\ pc' = "event"
  /\ UNCHANGED <<filelist_copy, noruntree, in, runVars, node, repeat, resetnodetree,
                 currentrun, iret, served, serverVars>>

-----------------------------------------------------------------------------
(* process_event().                                                        *)

StartEvent ==
  /\ pc = "event"
  /\ UnregisterNow /\ DeleteSubsystems' = {}
  /\ imod' = 1 /\ said' = NoCodes
  /\ served' = node
  /\ pc' = "module"
  /\ UNCHANGED <<filelist_copy, noruntree, in, runVars, node, repeat, resetnodetree,
                 currentrun, iret, runnumber, ifirst, forced, request, icnt, icnt_good, calls,
                 inRun, good, last>>

(* The next module returns `code` and may have asked for a removal.        *)
CallModule(code) ==
  /\ pc = "module" /\ imod <= Len(Subsystems)
  /\ \E gone \in Removals(Subsystems, DeleteSubsystems) :
       DeleteSubsystems' = DeleteSubsystems \cup gone
  /\ RetCodes' = [RetCodes EXCEPT ![imod] = code]
  /\ said' = [m \in DOMAIN said \cup {Subsystems[imod]} |->
                IF m = Subsystems[imod] THEN code ELSE said[m]]
  /\ \/ code \in {EVENT_OK, DISCARDEVENT} /\ imod' = imod + 1 /\ UNCHANGED <<pc, iret>>
     \/ code = ABORTEVENT /\ pc' = "abort" /\ UNCHANGED <<imod, iret>>
     \/ code = ABORTRUN /\ pc' = "macro" /\ iret' = ABORTRUN /\ UNCHANGED imod
  /\ UNCHANGED <<filelist_copy, noruntree, in, runVars, node, repeat, resetnodetree,
                 currentrun, served, Subsystems, EventSelector, RecoModuleIndex, runnumber,
                 ifirst, forced, request, icnt, icnt_good, calls, inRun, good, last>>

\* Fun4AllOutputManager::DoNotWriteEvent()
DoNotWriteEvent(o) == SumFunctionOnSet(RetCodes, RecoModuleIndex[o]) # 0

\* Mutant: an aborted event is offered to the output managers as well.
WriteAborted == {o \in OutputManagers : ~DoNotWriteEvent(o)}

(* The output managers that write the event.                               *)
Write == {o \in OutputManagers : pc # "abort" /\ ~DoNotWriteEvent(o)}

(* After the last module, or the one that aborted: write, reset the node   *)
(* tree, count, and read on or return.                                     *)
FinishEvent ==
  LET counted == icnt_good + IF ABORTEVENT \in ToSet(RetCodes) THEN 0 ELSE 1
      done    == /\ request.nevnts > 0
                 /\ IF request.require_nevents THEN counted >= request.nevnts
                                               ELSE icnt + 1 >= request.nevnts
  IN  /\ pc = "abort" \/ (pc = "module" /\ imod > Len(Subsystems))
      /\ last' = [said |-> said, modules |-> ToSet(Subsystems), wrote |-> Write]
      /\ node' = [i \in Inputs |-> NONE]
      /\ good' = good + IF ABORTEVENT \in Range(said) THEN 0 ELSE 1
      /\ icnt_good' = IF request.require_nevents THEN counted ELSE icnt_good
      /\ icnt' = IF request.require_nevents \/ request.nevnts = 0 THEN icnt ELSE icnt + 1
      /\ pc' = IF done THEN "macro" ELSE "sync"
      /\ resetnodetree' = FALSE
      /\ UNCHANGED <<filelist_copy, noruntree, in, runVars, repeat, currentrun, iret, served,
                     moduleVars, runnumber, ifirst, forced, request, imod, calls, said, inRun>>

(* End(): the modules end, the output files are closed.                    *)
End ==
  /\ pc = "macro"
  /\ pc' = "ended"
  /\ inRun' = [m \in ToSet(Modules) |-> NONE]
  /\ UNCHANGED <<filelist_copy, noruntree, in, runVars, node, repeat, resetnodetree,
                 currentrun, iret, served, moduleVars, runnumber, ifirst, forced, request,
                 icnt, icnt_good, imod, calls, said, good, last>>

Terminated == pc \in {"ended", "exit"} /\ UNCHANGED vars

EventLoop ==
  \/ Read
  \/ ResetAndReadAgain
  \/ NewRun
  \/ InitRunFails
  \/ SameRun
  \/ StartEvent
  \/ \E code \in {EVENT_OK, DISCARDEVENT, ABORTEVENT, ABORTRUN} : CallModule(code)
  \/ FinishEvent

Macro ==
  \/ \E r \in Requests : Run(r)
  \/ \E i \in Inputs, f \in Files : FileOpen(i, f) /\ UNCHANGED serverVars
  \/ End

Next == EventLoop \/ Macro \/ Terminated

Spec == Init /\ [][Next]_vars

(* One thread executes the loop; what the macro does is its own choice.    *)
FairSpec == Spec /\ WF_vars(EventLoop)

-----------------------------------------------------------------------------
(* Properties.                                                             *)

(* The values of the variables.  An input never gives back more events     *)
(* than it has read of its file: its position is unsigned in the code, and *)
(* below 0 it would lie behind the end of every file.                      *)
TypeOK ==
  /\ pc \in {"macro", "sync", "reset", "begin", "event", "module", "abort", "ended", "exit"}
  /\ \A i \in Inputs :
       /\ in[i].filelist \in Seq(Files) /\ in[i].isopen \in BOOLEAN
       /\ in[i].eventNumber \in Nat /\ myrunnumber[i] \in Nat
  /\ repeat \in Nat /\ resetnodetree \in BOOLEAN /\ iret <= 0
  /\ ToSet(Subsystems) \subseteq ToSet(Modules) /\ IsInjective(Subsystems)
  /\ \A o \in OutputManagers : RecoModuleIndex[o] \subseteq DOMAIN Subsystems
  /\ icnt \in Nat /\ icnt_good \in Nat

(* What an input that begins with these files reads first.                 *)
FirstEvents(files) ==
  {[file |-> files[k], no |-> 1, rest |-> SubSeq(files, k + 1, Len(files))] :
     k \in {k \in DOMAIN files : /\ FileEvents[files[k]] > 0
                                /\ \A j \in 1..(k - 1) : FileEvents[files[j]] = 0}}

(* From one event loop to the next every input moves on by exactly one     *)
(* event, from the last of a file to the first of the next that has one,   *)
(* or, at the end of the list, of one that the macro has opened: nothing   *)
(* is lost or seen twice, however often run() returns, a list ends, starts *)
(* over or is continued, and the inputs stay in step.                      *)
EveryEventOnce ==
  pc \in {"begin", "event"} =>
    \A i \in Inputs :
      LET e      == node[i]
          s      == served[i]
          listed == IF s = NONE THEN filelist_copy[i] ELSE s.rest
      IN  \/ s # NONE /\ e = [s EXCEPT !.no = @ + 1]
          \/ /\ s # NONE => s.no = FileEvents[s.file]
             /\ \/ e \in FirstEvents(listed)
                \/ FirstEvents(listed) = {} /\ e.no = 1 /\ e.rest = <<>>

(* Modules see an event in its own run: each one that is registered has    *)
(* begun that run, and not ended it, every input that reads the run tree   *)
(* delivers an event of a file of this run or of none, and the RunHeader   *)
(* in the node tree, which all inputs overwrite, is that of the run.  (The *)
(* last two unless the macro forces a run number on all of them.)          *)
EventsWithinRuns ==
  pc \in {"module", "abort"} =>
    /\ \A m \in ToSet(Subsystems) : inRun[m] = runnumber
    /\ forced = 0 => /\ \A i \in Inputs \ noruntree : FileRun[node[i].file] \in {0, runnumber}
                     /\ runheader = runnumber

(* An output manager has written the last event if and only if none of the *)
(* modules aborted it and all its event selectors said EVENT_OK, of this   *)
(* event and not of an earlier one, and by name whatever index they had.   *)
WrittenIffSelected ==
  last # NONE =>
    \A o \in OutputManagers :
      o \in last.wrote <=>
        /\ ABORTEVENT \notin Range(last.said)
        /\ \A m \in EventSelectors[o] \cap last.modules :
             m \in DOMAIN last.said /\ last.said[m] = EVENT_OK

(* run(nevnts, true) counts the events that no module has aborted, and no  *)
(* others, while it runs and when it has returned: return codes that are   *)
(* left of other events or of modules that are gone play no part.          *)
GoodEventsCounted ==
  pc \in {"sync", "macro"} /\ calls > 0 =>
    (request.require_nevents => icnt_good = good)

(* A call of run() returns, or ends the program.                           *)
RunReturns == (pc \notin {"macro", "ended", "exit"}) ~> (pc \in {"macro", "ended", "exit"})
=============================================================================

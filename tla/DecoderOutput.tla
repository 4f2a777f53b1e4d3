---------------------------- MODULE DecoderOutput ----------------------------
(***************************************************************************)
(* What the decoding of one run leaves behind: macro Fun4MainDaq.C with    *)
(* the classes DecoStatusDb, DbUpRun, DbUpSpill and                        *)
(* Fun4AllSpillDstOutputManager.                                           *)
(*                                                                         *)
(* The events of the run go to one DST file per spill group; four tables   *)
(* of a MySQL database, deco_status, spill_dst_status, run and spill, tell *)
(* other programs how far the decoder is.  File and tables are written in  *)
(* steps of their own.  The process may die between any two of them, a     *)
(* statement may fail (the code prints a message and goes on), and a run   *)
(* may be decoded again.                                                   *)
(***************************************************************************)
EXTENDS Integers, Sequences

CONSTANTS
  EventSpills,   \* the spill of each event that the input manager delivers
  m_sp_step,     \* spills per DST file
  MAX_ATTEMPTS,  \* bound: how often the run is decoded
  MAX_DB_ERRORS, \* bound: how many statements fail
  NONE           \* no spill, no file, no row

Events         == 1..Len(EventSpills)
GroupOf(spill) == (spill \div m_sp_step) * m_sp_step
Spills         == {EventSpills[i] : i \in Events}
Groups         == {GroupOf(s) : s \in Spills}

DstFile == [events : Seq(Events), state : {"open", "closed"}, run : SUBSET Spills]

ASSUME OutputAssumption ==
  /\ EventSpills \in Seq(Nat)
  /\ \A i, j \in Events : i <= j => EventSpills[i] <= EventSpills[j]
  /\ m_sp_step \in Nat \ {0}
  /\ MAX_ATTEMPTS \in Nat
  /\ MAX_DB_ERRORS \in Nat
  /\ NONE \notin Int \cup {"STARTED", "UPDATED", "FINISHED"} \cup DstFile

VARIABLES
  pc,            \* where the process is in Fun4MainDaq()
  nEvt,          \* events that the input manager has delivered
  spill_id_pre,  \* of DbUpSpill
  current,       \* of the output manager: m_sp_id_f, or NONE while m_run_id is 0
  dstOut,        \* of the output manager: a file is open
  outfilename,   \* of the output manager: the file that was opened last
  files,         \* the DST files of the run, by first spill
  db,            \* what the tables say about the run
  attempts, errors

processVars == <<nEvt, spill_id_pre, current, dstOut, outfilename>>
vars == <<pc, nEvt, spill_id_pre, current, dstOut, outfilename, files, db, attempts, errors>>

\* SQSpillMap of the RUN node: the spills that have delivered an event
SpillMap == {EventSpills[i] : i \in 1..nEvt}

\* deco_status of the run, status of each DST file, events known to the row in
\* "run", spills that have a row in "spill"
NoRows == [deco |-> NONE, dst |-> [g \in Groups |-> 0], run |-> NONE, spill |-> {}]

Init == /\ pc = "down"
        /\ nEvt = 0 /\ spill_id_pre = NONE /\ current = NONE /\ dstOut = FALSE /\ outfilename = NONE
        /\ files = [g \in Groups |-> NONE]
        /\ db = NoRows
        /\ attempts = 0 /\ errors = 0

-----------------------------------------------------------------------------
\* One statement at label "at".  When it fails the function that executes it
\* prints a message and returns to its caller, which is at label "failed".
Exec(at, new, next, failed) ==
  /\ pc = at
  /\ \/ /\ db' = new
        /\ pc' = next
        /\ UNCHANGED errors
     \/ /\ errors < MAX_DB_ERRORS
        /\ errors' = errors + 1
        /\ pc' = failed
        /\ UNCHANGED db
  /\ UNCHANGED <<processVars, files, attempts>>

\* A new process, by the daemon or by a shifter.
Start == /\ pc \in {"down", "exited"}
         /\ attempts < MAX_ATTEMPTS
         /\ attempts' = attempts + 1
         /\ pc' = "deleteStatus"
         /\ nEvt' = 0 /\ spill_id_pre' = NONE /\ current' = NONE /\ dstOut' = FALSE
         /\ outfilename' = NONE
         /\ UNCHANGED <<files, db, errors>>

\* The file stays as it is; what the closing of it would have written is lost.
Crash == /\ pc \notin {"down", "exited"}
         /\ pc' = "down"
         /\ UNCHANGED <<processVars, files, db, attempts, errors>>

\* Mutant: no delete, so that the insert fails when the run has a row already.
RunStartedKeeps ==
  Exec("deleteStatus", [db EXCEPT !.deco = IF @ = NONE THEN "STARTED" ELSE @], "run", "run")

\* DecoStatusDb::RunStarted
RunStarted ==
  \/ Exec("deleteStatus", [db EXCEPT !.deco = NONE], "insertStatus", "run")
  \/ Exec("insertStatus", [db EXCEPT !.deco = "STARTED"], "run", "run")

\* DbUpRun::UploadRun
UploadRun(delete, insert, next) ==
  \/ Exec(delete, [db EXCEPT !.run = NONE], insert, next)
  \/ Exec(insert, [db EXCEPT !.run = nEvt], next, next)

-----------------------------------------------------------------------------
(* One event *)

\* The first event begins the run.
NextEvent == /\ pc = "run"
             /\ nEvt < Len(EventSpills)
             /\ nEvt' = nEvt + 1
             /\ pc' = IF nEvt = 0 THEN "initRunDelete" ELSE "processEvent"
             /\ UNCHANGED <<spill_id_pre, current, dstOut, outfilename, files, db, attempts, errors>>

\* The end of the input, or fileopen() has failed, which nobody looks at.
\* Without an event DbUpRun::End has no run to upload.
NoEvent == /\ pc = "run"
           /\ nEvt \in {0, Len(EventSpills)}
           /\ pc' = IF nEvt = 0 THEN "endClose" ELSE "endDelete"
           /\ UNCHANGED <<processVars, files, db, attempts, errors>>

\* Mutant: the rows of an earlier attempt stay.
InitRunKeeps == \/ UploadRun("initRunDelete", "initRunInsert", "clearTable")
                \/ Exec("clearTable", db, "processEvent", "processEvent")

InitRun == \/ UploadRun("initRunDelete", "initRunInsert", "clearTable")
           \/ Exec("clearTable", [db EXCEPT !.spill = {}], "processEvent", "processEvent")

\* DbUpRun::process_event: at the first event, then every ten seconds at most.
RunNotUpdated == /\ pc = "processEvent"
                 /\ nEvt > 1
                 /\ pc' = "processSpill"
                 /\ UNCHANGED <<processVars, files, db, attempts, errors>>

RunUpdated ==
  \/ Exec("processEvent", [db EXCEPT !.run = NONE], "updateInsert", "updateStatus")
  \/ Exec("updateInsert", [db EXCEPT !.run = nEvt], "updateStatus", "updateStatus")
  \/ Exec("updateStatus", [db EXCEPT !.deco = IF @ = NONE THEN @ ELSE "UPDATED"],
          "processSpill", "processSpill")

\* DbUpSpill::process_event: once per spill.
SpillChanged == /\ pc = "processSpill"
                /\ pc' = IF EventSpills[nEvt] # spill_id_pre THEN "spillDelete" ELSE "write"
                /\ spill_id_pre' = EventSpills[nEvt]
                /\ UNCHANGED <<nEvt, current, dstOut, outfilename, files, db, attempts, errors>>

UploadToSpillTable ==
  \/ Exec("spillDelete", [db EXCEPT !.spill = @ \ {EventSpills[nEvt]}], "spillInsert", "write")
  \/ Exec("spillInsert", [db EXCEPT !.spill = @ \cup {EventSpills[nEvt]}], "write", "write")

-----------------------------------------------------------------------------
(* Fun4AllSpillDstOutputManager *)

Event == EventSpills[nEvt]

\* Mutant: the spill is not rounded down.
WriteEachSpill ==
  /\ pc = "write"
  /\ pc' = CASE current = Event            -> "fill"
             [] current # Event /\ dstOut  -> "closeEvents"
             [] current # Event /\ ~dstOut -> "openNew"
  /\ current' = Event
  /\ UNCHANGED <<nEvt, spill_id_pre, dstOut, outfilename, files, db, attempts, errors>>

\* Write: does the event belong to the current file?
Write == /\ pc = "write"
         /\ pc' = CASE current = GroupOf(Event)            -> "fill"
                    [] current # GroupOf(Event) /\ dstOut  -> "closeEvents"
                    [] current # GroupOf(Event) /\ ~dstOut -> "openNew"
         /\ current' = GroupOf(Event)
         /\ UNCHANGED <<nEvt, spill_id_pre, dstOut, outfilename, files, db, attempts, errors>>

\* WriteNode: close the file, which brings its events to the disk, then open it
\* once more to add the RUN tree.
CloseEvents(at, next) ==
  /\ pc = at
  /\ pc' = next
  /\ files' = IF dstOut THEN [files EXCEPT ![outfilename].state = "closed"] ELSE files
  /\ UNCHANGED <<processVars, db, attempts, errors>>

WriteRunTree(at, next) ==
  /\ pc = at
  /\ pc' = next
  /\ files' = IF dstOut THEN [files EXCEPT ![outfilename].run = SpillMap] ELSE files
  /\ dstOut' = FALSE
  /\ UNCHANGED <<nEvt, spill_id_pre, current, outfilename, db, attempts, errors>>

\* An update of a row that does not exist does nothing.
Finished(group) ==
  IF group \in Groups /\ db.dst[group] # 0 THEN [db EXCEPT !.dst[group] = 2] ELSE db

\* Mutant: the file is finished when its events are on disk.
WriteNodeEarly == \/ Exec("closeEvents", Finished(current - m_sp_step), "writeRunTree", "writeRunTree")
                  \/ WriteRunTree("writeRunTree", "openNew")

\* Close the old file and say so.  The first spill of the old file is taken to
\* be m_sp_step before that of the new one.
WriteNode == \/ CloseEvents("closeEvents", "writeRunTree")
             \/ WriteRunTree("writeRunTree", "dstFinished")
             \/ Exec("dstFinished", Finished(current - m_sp_step), "openNew", "openNew")

\* PHWrite: what a file of that name held before is gone.
OpenNew == /\ pc = "openNew"
           /\ pc' = "dstStarted"
           /\ files' = [files EXCEPT ![current] = [events |-> <<>>, state |-> "open", run |-> {}]]
           /\ dstOut' = TRUE
           /\ outfilename' = current
           /\ UNCHANGED <<nEvt, spill_id_pre, current, db, attempts, errors>>

DstStarted == Exec("dstStarted", [db EXCEPT !.dst[current] = 1], "fill", "fill")

\* Fun4AllDstOutputManager::Write.  The run goes on unless it was asked for so
\* many events only.
Fill == /\ pc = "fill"
        /\ files' = [files EXCEPT ![outfilename].events = Append(@, nEvt)]
        /\ pc' \in {"run", "endDelete"}
        /\ UNCHANGED <<processVars, db, attempts, errors>>

-----------------------------------------------------------------------------
(* Fun4AllServer::End and the end of the macro *)

\* Mutant: the output manager is never deleted.
EndLeaks == \/ UploadRun("endDelete", "endInsert", "endClose")
            \/ CloseEvents("endClose", "endRunTree")
            \/ WriteRunTree("endRunTree", "runFinished")

\* DbUpRun::End, WriteNode of the last file, destructor of the output manager.
End == \/ UploadRun("endDelete", "endInsert", "endClose")
       \/ CloseEvents("endClose", "endRunTree")
       \/ WriteRunTree("endRunTree", IF current = NONE THEN "runFinished" ELSE "dstFinishedLast")
       \/ Exec("dstFinishedLast", Finished(current), "runFinished", "runFinished")

\* DecoStatusDb::RunFinished
RunFinished ==
  Exec("runFinished", [db EXCEPT !.deco = IF @ = NONE THEN @ ELSE "FINISHED"], "exited", "exited")

Step == \/ RunStarted \/ NextEvent \/ NoEvent \/ InitRun
        \/ RunNotUpdated \/ RunUpdated \/ SpillChanged \/ UploadToSpillTable
        \/ Write \/ WriteNode \/ OpenNew \/ DstStarted \/ Fill
        \/ End \/ RunFinished

Terminated == pc \in {"down", "exited"} /\ attempts = MAX_ATTEMPTS /\ UNCHANGED vars

Next == Start \/ Step \/ Crash \/ Terminated

Spec == Init /\ [][Next]_vars

-----------------------------------------------------------------------------
(* Properties *)

\* Every variable has its type.
TypeOK ==
  /\ pc \in {"down", "exited", "deleteStatus", "insertStatus", "run", "initRunDelete",
             "initRunInsert", "clearTable", "processEvent", "updateInsert", "updateStatus",
             "processSpill", "spillDelete", "spillInsert", "write", "closeEvents",
             "writeRunTree", "dstFinished", "openNew", "dstStarted", "fill", "endDelete",
             "endInsert", "endClose", "endRunTree", "dstFinishedLast", "runFinished"}
  /\ nEvt \in 0..Len(EventSpills)
  /\ spill_id_pre \in Spills \cup {NONE}
  /\ current \in Groups \cup {NONE}
  /\ dstOut \in BOOLEAN
  /\ outfilename \in Groups \cup {NONE}
  /\ dstOut => outfilename # NONE /\ files[outfilename] # NONE
  /\ files \in [Groups -> DstFile \cup {NONE}]
  /\ db \in [deco  : {NONE, "STARTED", "UPDATED", "FINISHED"},
             dst   : [Groups -> 0..2],
             run   : {NONE} \cup 0..Len(EventSpills),
             spill : SUBSET Spills]
  /\ attempts \in 0..MAX_ATTEMPTS
  /\ errors \in 0..MAX_DB_ERRORS

\* The file is closed, with a RUN tree that has a record of every spill that its
\* events belong to.
Closed(file) ==
  /\ file # NONE
  /\ file.state = "closed"
  /\ \A i \in DOMAIN file.events : EventSpills[file.events[i]] \in file.run

\* The file holds all the events of the group among the first n of the run, each
\* once and in order.
Holds(file, group, n) ==
  /\ file # NONE
  /\ \A i, j \in DOMAIN file.events : i < j => file.events[i] < file.events[j]
  /\ {file.events[i] : i \in DOMAIN file.events} =
       {i \in 1..n : GroupOf(EventSpills[i]) = group}

Complete(group) == Closed(files[group]) /\ Holds(files[group], group, nEvt)

Delivered == {GroupOf(s) : s \in SpillMap}

\* "The status is 1 when started, and 2 when finished": while a run is decoded for
\* the first time, a file of status 2 can be read, whatever statement failed and
\* wherever the decoder died.  (When it is decoded again, OpenNew empties a file
\* before DstStarted sets its status back.)
StatusTwoIsFinished == attempts <= 1 => \A g \in Groups : db.dst[g] = 2 => Closed(files[g])

\* When the decoder has come to its end all its files have status 2.
FinishedIsStatusTwo ==
  pc = "exited" /\ errors = 0 => \A g \in Delivered : db.dst[g] = 2

\* A run that is listed as FINISHED has all its files complete, although an
\* earlier decoding of it may have died at any step.
RunFinishedIsComplete ==
  errors = 0 /\ db.deco = "FINISHED" => \A g \in Delivered : Complete(g)

\* When the decoder has come to its end, the tables tell of the events and the
\* spills of this decoding and of no earlier one.
RowsMatch ==
  pc = "exited" /\ errors = 0 /\ nEvt > 0 => /\ db.deco = "FINISHED"
                                             /\ db.run = nEvt
                                             /\ db.spill = SpillMap

\* Together: when the decoder has come to its end, the files and each of the
\* tables agree, whatever earlier decodings have left behind.
TablesMatchFiles == FinishedIsStatusTwo /\ RunFinishedIsComplete /\ RowsMatch
=============================================================================

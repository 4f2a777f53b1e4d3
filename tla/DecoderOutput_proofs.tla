------------------------- MODULE DecoderOutput_proofs -------------------------
(***************************************************************************)
(* Proofs about the output of the decoder, for any run, any length of a    *)
(* group of spills, and any number of decodings, crashes and statements    *)
(* that fail.                                                              *)
(***************************************************************************)
EXTENDS DecoderOutput, TLAPS

-----------------------------------------------------------------------------
(* The inductive invariant.                                                *)

Starting  == {"deleteStatus", "insertStatus"}
Beginning == {"initRunDelete", "initRunInsert", "clearTable"}
Reporting == {"processEvent", "updateInsert", "updateStatus", "processSpill"}
Uploading == {"spillDelete", "spillInsert", "write"}
Closing   == {"closeEvents", "writeRunTree", "dstFinished"}
Opening   == {"openNew", "dstStarted"}
Handling  == Beginning \cup Reporting \cup Uploading \cup Closing \cup Opening \cup {"fill"}
Ending    == {"endDelete", "endInsert", "endClose", "endRunTree"}

GroupAt(i)  == GroupOf(EventSpills[i])
SpillsTo(n) == {EventSpills[i] : i \in 1..n}

(* The events that are in a file, and the groups they are of.              *)
Written == IF pc \in Handling THEN nEvt - 1 ELSE nEvt
Reached == {GroupAt(i) : i \in 1..Written}

(* Where the process is, how far the events are and which file is open.    *)
Place ==
  /\ pc \in Starting => nEvt = 0
  /\ pc \in Beginning => nEvt = 1
  /\ pc \in Handling \cup {"endDelete", "endInsert", "dstFinishedLast"} => nEvt >= 1
  /\ pc \in Starting \cup {"run"} \cup Beginning \cup Reporting \cup Uploading \cup Ending =>
       IF Written = 0 THEN current = NONE /\ ~dstOut
       ELSE current = GroupAt(Written) /\ dstOut /\ outfilename = current
  /\ pc \in Closing \cup Opening \cup {"fill", "dstFinishedLast"} => current = GroupAt(nEvt)
  /\ pc \in Closing => /\ Written >= 1
                       /\ outfilename = GroupAt(Written) /\ outfilename # current
                       /\ dstOut = (pc # "dstFinished")
  /\ pc \in Opening => current \notin Reached /\ dstOut = (pc = "dstStarted")
  /\ pc = "fill" => dstOut
  /\ pc \in {"dstStarted", "fill", "dstFinishedLast"} => outfilename = current
  /\ pc \in {"dstFinishedLast", "runFinished", "exited"} => ~dstOut

(* The events that were written are in their files, and all of these but   *)
(* the open one are closed.                                                *)
FilesFollow ==
  /\ pc # "down" => \A g \in Reached :
       Holds(files[g], g, Written) /\ (Closed(files[g]) \/ (dstOut /\ g = outfilename))
  /\ pc \in {"dstStarted", "fill"} => Holds(files[current], current, Written)
  /\ pc \in {"writeRunTree", "endRunTree"} /\ dstOut => files[outfilename].state = "closed"

(* While the run is decoded for the first time there is no other file, and *)
(* none with status 2 is the open one.                                     *)
FirstTime ==
  /\ attempts = 0 =>
       pc = "down" /\ files = [g \in Groups |-> NONE] /\ db.dst = [g \in Groups |-> 0]
  /\ attempts <= 1 => \A g \in Groups :
       /\ pc # "down" /\ files[g] # NONE => g \in Reached \/ (dstOut /\ g = outfilename)
       /\ db.dst[g] # 0 => files[g] # NONE
       /\ db.dst[g] = 2 => Closed(files[g]) /\ ~(dstOut /\ g = outfilename)

(* Unless a statement failed: what the three other tables say.             *)
SpillsSeen ==
  spill_id_pre \in SpillsTo(IF pc \in Beginning \cup Reporting THEN nEvt - 1 ELSE nEvt) \cup {NONE}

DecoRow ==
  /\ pc \notin Starting \cup {"down", "exited"} => db.deco \in {"STARTED", "UPDATED"}
  /\ pc = "exited" => db.deco = "FINISHED"
  /\ db.deco = "FINISHED" => pc = "exited" \/ nEvt = 0

RunRow ==
  pc \in {"endClose", "endRunTree", "dstFinishedLast", "runFinished", "exited"} /\ nEvt > 0 =>
    db.run = nEvt

SpillRows ==
  /\ pc \in Reporting \cup {"spillDelete"} => db.spill = SpillsTo(nEvt - 1)
  /\ pc = "spillInsert" => db.spill = SpillsTo(nEvt - 1) \ {EventSpills[nEvt]}
  /\ pc \notin {"down", "spillDelete", "spillInsert"} \cup Beginning \cup Reporting /\ nEvt > 0 =>
       db.spill = SpillsTo(nEvt)

(* And when no group of spills is without events: what the status of each  *)
(* file is.                                                                *)
NoGroupLeftOut ==
  \A i \in Events : i + 1 \in Events => GroupAt(i + 1) \in {GroupAt(i), GroupAt(i) + m_sp_step}

StatusRows ==
  /\ pc # "down" => \A g \in Reached :
       \/ db.dst[g] = 2
       \/ g = outfilename /\ db.dst[g] # 0 /\ pc \notin Opening \cup {"runFinished", "exited"}
  /\ pc = "fill" => db.dst[current] # 0

IInv == /\ TypeOK /\ Place /\ FilesFollow /\ FirstTime /\ SpillsSeen
        /\ errors = 0 => DecoRow /\ RunRow /\ SpillRows
        /\ errors = 0 /\ NoGroupLeftOut => StatusRows

-----------------------------------------------------------------------------
(* Groups of spills.                                                       *)

LEMMA DivisionInOrder ==
  ASSUME NEW a \in Nat, NEW b \in Nat, a <= b, NEW d \in Nat \ {0}
  PROVE  a \div d <= b \div d
<1> DEFINE p == a \div d
           q == b \div d
<1>1. p \in Nat /\ q \in Nat
  OBVIOUS
<1>2. d * p <= a /\ b < d * q + d
  OBVIOUS
<1>3. SUFFICES ASSUME q + 1 <= p PROVE FALSE
  BY <1>1
<1>4. d * (q + 1) <= d * p
  BY <1>1, <1>3
<1>5. d * (q + 1) = d * q + d
  BY <1>1
<1>6. QED
  BY <1>1, <1>2, <1>4, <1>5

LEMMA ProductInOrder ==
  ASSUME NEW p \in Nat, NEW q \in Nat, p <= q, NEW d \in Nat
  PROVE  p * d <= q * d
<1>1. PICK r \in Nat : q = p + r
  <2>1. q - p \in Nat /\ q = p + (q - p)
    OBVIOUS
  <2>2. QED
    BY <2>1
<1>2. q * d = p * d + r * d /\ r * d >= 0 /\ p * d \in Nat
  BY <1>1
<1>3. QED
  BY <1>2

LEMMA GroupsInOrder ==
  /\ Groups \subseteq Nat /\ NONE \notin Groups
  /\ \A i \in Events : GroupAt(i) \in Groups /\ GroupAt(i) \in Nat /\ EventSpills[i] \in Spills
  /\ \A i, j \in Events : i <= j => GroupAt(i) <= GroupAt(j)
<1>1. \A i \in Events : EventSpills[i] \in Nat
  BY OutputAssumption DEF Events
<1>2. \A i \in Events : GroupAt(i) \in Groups /\ EventSpills[i] \in Spills
  BY DEF GroupAt, Groups, Spills
<1>3. \A s \in Nat : s \div m_sp_step \in Nat
  BY OutputAssumption
<1>4. \A s \in Nat : GroupOf(s) \in Nat
  BY <1>3, OutputAssumption DEF GroupOf
<1>5. Groups \subseteq Nat
  BY <1>1, <1>4 DEF Groups, Spills
<1>6. NONE \notin Groups
  <2>1. NONE \notin Int
    BY OutputAssumption, Zenon
  <2>2. Nat \subseteq Int
    OBVIOUS
  <2>3. QED
    BY <1>5, <2>1, <2>2, Zenon
<1>7. ASSUME NEW i \in Events, NEW j \in Events, i <= j PROVE GroupAt(i) <= GroupAt(j)
  <2>1. EventSpills[i] <= EventSpills[j] /\ EventSpills[i] \in Nat /\ EventSpills[j] \in Nat
    BY <1>1, <1>7, OutputAssumption
  <2>2. EventSpills[i] \div m_sp_step <= EventSpills[j] \div m_sp_step
    BY <2>1, OutputAssumption, DivisionInOrder
  <2> DEFINE p == EventSpills[i] \div m_sp_step
             q == EventSpills[j] \div m_sp_step
  <2>3. p \in Nat /\ q \in Nat /\ p <= q
    BY <1>3, <2>1, <2>2
  <2> HIDE DEF p, q
  <2>4. p * m_sp_step <= q * m_sp_step
    BY <2>3, OutputAssumption, ProductInOrder
  <2>5. QED
    BY <2>4 DEF GroupAt, GroupOf, p, q
<1>8. QED
  BY <1>2, <1>5, <1>6, <1>7

-----------------------------------------------------------------------------
(* Steps at a database, and those that only go on, leave the process where *)
(* it is.                                                                  *)

Quiet ==
  /\ UNCHANGED <<processVars, files, attempts>>
  /\ \/ pc = "deleteStatus" /\ pc' \in {"insertStatus", "run"}
     \/ pc = "insertStatus" /\ pc' = "run"
     \/ pc = "initRunDelete" /\ pc' \in {"initRunInsert", "clearTable"}
     \/ pc = "initRunInsert" /\ pc' = "clearTable"
     \/ pc = "clearTable" /\ pc' = "processEvent"
     \/ pc = "processEvent" /\ pc' \in {"updateInsert", "updateStatus", "processSpill"}
     \/ pc = "updateInsert" /\ pc' = "updateStatus"
     \/ pc = "updateStatus" /\ pc' = "processSpill"
     \/ pc = "spillDelete" /\ pc' \in {"spillInsert", "write"}
     \/ pc = "spillInsert" /\ pc' = "write"
     \/ pc = "dstFinished" /\ pc' = "openNew"
     \/ pc = "dstStarted" /\ pc' = "fill"
     \/ pc = "run" /\ pc' \in {"endClose", "endDelete"} /\ (nEvt = 0 <=> pc' = "endClose")
     \/ pc = "endDelete" /\ pc' \in {"endInsert", "endClose"}
     \/ pc = "endInsert" /\ pc' = "endClose"
     \/ pc = "dstFinishedLast" /\ pc' = "runFinished"
     \/ pc = "runFinished" /\ pc' = "exited"

LEMMA SameWritten ==
  ASSUME nEvt' = nEvt, pc \in Handling <=> pc' \in Handling
  PROVE  Written' = Written /\ Reached' = Reached
<1>1. Written' = Written
  BY DEF Written
<1>2. QED
  BY <1>1 DEF Reached

LEMMA WrittenType ==
  ASSUME IInv
  PROVE  /\ Written \in 0..Len(EventSpills) /\ Written <= nEvt /\ nEvt \in Nat
         /\ nEvt >= 1 => nEvt \in Events
         /\ \A i \in 1..Written : i \in Events
<1>1. nEvt \in 0..Len(EventSpills) /\ Len(EventSpills) \in Nat
  BY OutputAssumption DEF IInv, TypeOK
<1>2. pc \in Handling => nEvt >= 1
  BY DEF IInv, Place
<1>3. Written \in 0..Len(EventSpills) /\ Written <= nEvt
  BY <1>1, <1>2 DEF Written
<1>4. QED
  BY <1>1, <1>3 DEF Events

LEMMA QuietPlace ==
  ASSUME IInv, Quiet
  PROVE  Place' /\ Written' = Written /\ Reached' = Reached
<1>1. nEvt' = nEvt /\ (pc \in Handling <=> pc' \in Handling)
  BY DEF Quiet, processVars, Handling, Beginning, Reporting, Uploading, Closing, Opening
<1>2. Written' = Written /\ Reached' = Reached
  BY <1>1, SameWritten
<1>3. current' = current /\ dstOut' = dstOut /\ outfilename' = outfilename
  BY DEF Quiet, processVars
<1>4. ASSUME pc = "dstFinished", pc' = "openNew"
      PROVE  current \notin Reached /\ ~dstOut
  <2>1. Written >= 1 /\ Written <= nEvt /\ nEvt \in Events /\ Written \in Events
    BY <1>4, WrittenType DEF IInv, Place, Closing
  <2>2. GroupAt(Written) # GroupAt(nEvt) /\ current = GroupAt(nEvt)
    BY <1>4 DEF IInv, Place, Closing
  <2>3. GroupAt(Written) <= GroupAt(nEvt) /\ GroupAt(Written) \in Nat /\ GroupAt(nEvt) \in Nat
    BY <2>1, GroupsInOrder
  <2>4. GroupAt(Written) < GroupAt(nEvt)
    BY <2>2, <2>3
  <2>5. ASSUME NEW i \in 1..Written PROVE GroupAt(i) # GroupAt(nEvt)
    <3>1. i \in Events /\ i <= Written
      BY WrittenType
    <3>2. GroupAt(i) <= GroupAt(Written) /\ GroupAt(i) \in Nat
      BY <2>1, <3>1, GroupsInOrder
    <3>3. QED
      BY <2>3, <2>4, <3>2
  <2>6. ~dstOut
    BY <1>4 DEF IInv, Place, Closing
  <2>7. QED
    BY <2>2, <2>5, <2>6 DEF Reached
<1>5. dstOut \in BOOLEAN /\ nEvt \in Nat /\ Place
  BY WrittenType DEF IInv, TypeOK
<1>6. QED
  <2>1. (pc' \in Starting => nEvt = 0) /\ (pc' \in Beginning => nEvt = 1)
    BY <1>5 DEF Quiet, Place, Starting, Beginning
  <2>2. pc' \in Handling \cup {"endDelete", "endInsert", "dstFinishedLast"} => nEvt >= 1
    BY <1>1, <1>5 DEF Quiet, Place, Handling, Beginning, Reporting, Uploading, Closing, Opening
  <2>3. pc' \in Starting \cup {"run"} \cup Beginning \cup Reporting \cup Uploading \cup Ending =>
          IF Written = 0 THEN current = NONE /\ ~dstOut
          ELSE current = GroupAt(Written) /\ dstOut /\ outfilename = current
    <3>1. pc' \in Starting \cup {"run"} \cup Beginning \cup Reporting \cup Uploading \cup Ending =>
          pc \in Starting \cup {"run"} \cup Beginning \cup Reporting \cup Uploading \cup Ending
      BY DEF Quiet, Starting, Beginning, Reporting, Uploading, Ending
    <3>2. QED
      BY <1>5, <3>1 DEF Place
  <2>4. pc' \in Closing \cup Opening \cup {"fill", "dstFinishedLast"} => current = GroupAt(nEvt)
    BY <1>5 DEF Quiet, Place, Closing, Opening
  <2>5. pc' \notin Closing
    BY DEF Quiet, Closing
  <2>6. pc' \in Opening => current \notin Reached /\ dstOut = (pc' = "dstStarted")
    BY <1>4, <1>5 DEF Quiet, Opening
  <2>7. (pc' = "fill" => dstOut) /\ (pc' \in {"dstStarted", "fill", "dstFinishedLast"} => outfilename = current)
    BY <1>5 DEF Quiet, Place, Opening
  <2>8. pc' \in {"dstFinishedLast", "runFinished", "exited"} => ~dstOut
    BY <1>5 DEF Quiet, Place
  <2>9. QED
    BY <1>1, <1>2, <1>3, <2>1, <2>2, <2>3, <2>4, <2>5, <2>6, <2>7, <2>8 DEF Place

LEMMA QuietFiles ==
  ASSUME IInv, Quiet
  PROVE  FilesFollow' /\ SpillsSeen'
<1>1. Written' = Written /\ Reached' = Reached
  BY QuietPlace
<1>2. UNCHANGED <<nEvt, current, dstOut, outfilename, files, spill_id_pre>> /\ pc # "down"
  BY DEF Quiet, processVars
<1>3. ASSUME pc' = "fill" PROVE pc = "dstStarted"
  BY <1>3 DEF Quiet
<1>4. pc' \notin {"dstStarted", "writeRunTree", "endRunTree"}
  BY DEF Quiet
<1>5. FilesFollow'
  <2>1. \A g \in Reached :
          Holds(files[g], g, Written) /\ (Closed(files[g]) \/ (dstOut /\ g = outfilename))
    BY <1>2 DEF IInv, FilesFollow
  <2>2. pc' = "fill" => Holds(files[current], current, Written)
    BY <1>3 DEF IInv, FilesFollow
  <2>3. QED
    BY <1>1, <1>2, <1>4, <2>1, <2>2 DEF FilesFollow
<1>6. SpillsSeen'
  <2>1. pc \in Beginning \cup Reporting <=> pc' \in Beginning \cup Reporting
    BY DEF Quiet, Beginning, Reporting
  <2>2. QED
    BY <1>2, <2>1 DEF IInv, SpillsSeen
<1>7. QED
  BY <1>5, <1>6

(* What the statements that succeed do to the tables.                      *)
Silent  == UNCHANGED <<db, errors>> /\ pc \in {"run", "processEvent"} /\ pc' # "updateInsert"
Failing == db' = db /\ errors < MAX_DB_ERRORS /\ errors' = errors + 1

DecoSaid ==
  /\ errors' = errors
  /\ \/ pc = "deleteStatus" /\ pc' = "insertStatus" /\ db' = [db EXCEPT !.deco = NONE]
     \/ pc = "insertStatus" /\ pc' = "run" /\ db' = [db EXCEPT !.deco = "STARTED"]
     \/ /\ pc = "updateStatus" /\ pc' = "processSpill"
        /\ db' = [db EXCEPT !.deco = IF @ = NONE THEN @ ELSE "UPDATED"]
     \/ /\ pc = "runFinished" /\ pc' = "exited"
        /\ db' = [db EXCEPT !.deco = IF @ = NONE THEN @ ELSE "FINISHED"]

RunSaid ==
  /\ errors' = errors
  /\ \/ /\ pc \in {"initRunDelete", "processEvent", "endDelete"}
        /\ pc' \in {"initRunInsert", "updateInsert", "endInsert"}
        /\ db' = [db EXCEPT !.run = NONE]
     \/ /\ pc \in {"initRunInsert", "updateInsert", "endInsert"}
        /\ db' = [db EXCEPT !.run = nEvt]

SpillSaid ==
  /\ errors' = errors
  /\ \/ pc = "clearTable" /\ db' = [db EXCEPT !.spill = {}]
     \/ /\ pc = "spillDelete" /\ pc' = "spillInsert"
        /\ db' = [db EXCEPT !.spill = @ \ {EventSpills[nEvt]}]
     \/ pc = "spillInsert" /\ db' = [db EXCEPT !.spill = @ \cup {EventSpills[nEvt]}]

DstSaid ==
  /\ errors' = errors
  /\ \/ pc = "dstFinished" /\ db' = Finished(current - m_sp_step)
     \/ pc = "dstFinishedLast" /\ db' = Finished(current)
     \/ pc = "dstStarted" /\ db' = [db EXCEPT !.dst[current] = 1]

Statement == Silent \/ Failing \/ DecoSaid \/ RunSaid \/ SpillSaid \/ DstSaid

AtTheDatabase ==
  \/ RunStarted \/ NoEvent \/ InitRun \/ RunNotUpdated \/ RunUpdated \/ UploadToSpillTable
  \/ Exec("dstFinished", Finished(current - m_sp_step), "openNew", "openNew")
  \/ DstStarted
  \/ UploadRun("endDelete", "endInsert", "endClose")
  \/ Exec("dstFinishedLast", Finished(current), "runFinished", "runFinished")
  \/ RunFinished

LEMMA DatabaseSteps ==
  ASSUME IInv, AtTheDatabase
  PROVE  Quiet /\ Statement
<1>1. CASE RunStarted
  BY <1>1 DEF RunStarted, Exec, Quiet, Statement, Failing, DecoSaid
<1>2. CASE NoEvent
  <2>1. nEvt \in Nat
    BY WrittenType
  <2>2. QED
    BY <1>2, <2>1 DEF NoEvent, Quiet, Statement, Silent
<1>3. CASE InitRun
  BY <1>3 DEF InitRun, UploadRun, Exec, Quiet, Statement, Failing, RunSaid, SpillSaid
<1>4. CASE RunNotUpdated
  BY <1>4 DEF RunNotUpdated, Quiet, Statement, Silent
<1>5. CASE RunUpdated
  BY <1>5 DEF RunUpdated, Exec, Quiet, Statement, Failing, RunSaid, DecoSaid
<1>6. CASE UploadToSpillTable
  BY <1>6 DEF UploadToSpillTable, Exec, Quiet, Statement, Failing, SpillSaid
<1>7. CASE Exec("dstFinished", Finished(current - m_sp_step), "openNew", "openNew")
  BY <1>7 DEF Exec, Quiet, Statement, Failing, DstSaid
<1>8. CASE DstStarted
  BY <1>8 DEF DstStarted, Exec, Quiet, Statement, Failing, DstSaid
<1>9. CASE UploadRun("endDelete", "endInsert", "endClose")
  BY <1>9 DEF UploadRun, Exec, Quiet, Statement, Failing, RunSaid
<1>10. CASE Exec("dstFinishedLast", Finished(current), "runFinished", "runFinished")
  BY <1>10 DEF Exec, Quiet, Statement, Failing, DstSaid
<1>11. CASE RunFinished
  BY <1>11 DEF RunFinished, Exec, Quiet, Statement, Failing, DecoSaid
<1>12. QED
  BY <1>1, <1>2, <1>3, <1>4, <1>5, <1>6, <1>7, <1>8, <1>9, <1>10, <1>11 DEF AtTheDatabase

Rows == [deco  : {NONE, "STARTED", "UPDATED", "FINISHED"},
         dst   : [Groups -> 0..2],
         run   : {NONE} \cup 0..Len(EventSpills),
         spill : SUBSET Spills]

LEMMA StatementType ==
  ASSUME IInv, Quiet, Statement
  PROVE  TypeOK'
<1>1. db \in Rows /\ errors \in 0..MAX_DB_ERRORS /\ nEvt \in 0..Len(EventSpills)
  BY DEF IInv, TypeOK, Rows
<1>2. MAX_DB_ERRORS \in Nat
  BY OutputAssumption
<1>3. db' \in Rows
  <2>1. CASE Silent \/ Failing
    BY <1>1, <2>1 DEF Silent, Failing
  <2>2. CASE DecoSaid
    BY <1>1, <2>2 DEF DecoSaid, Rows
  <2>3. CASE RunSaid
    BY <1>1, <2>3 DEF RunSaid, Rows
  <2>4. CASE SpillSaid
    <3>1. CASE pc = "clearTable"
      BY <1>1, <2>4, <3>1 DEF SpillSaid, Rows
    <3>2. CASE pc \in {"spillDelete", "spillInsert"}
      <4>1. EventSpills[nEvt] \in Spills
        BY <3>2, WrittenType, GroupsInOrder DEF IInv, Place, Handling, Uploading
      <4>2. QED
        BY <1>1, <2>4, <3>2, <4>1 DEF SpillSaid, Rows
    <3>3. QED
      BY <2>4, <3>1, <3>2 DEF SpillSaid
  <2>5. CASE DstSaid
    <3>1. current \in Groups
      <4>1. nEvt >= 1 /\ current = GroupAt(nEvt)
        BY <2>5 DEF DstSaid, IInv, Place, Handling, Closing, Opening
      <4>2. QED
        BY <4>1, WrittenType, GroupsInOrder
    <3>2. QED
      BY <1>1, <2>5, <3>1 DEF DstSaid, Finished, Rows
  <2>6. QED
    BY <2>1, <2>2, <2>3, <2>4, <2>5 DEF Statement
<1>4. errors' \in 0..MAX_DB_ERRORS
  BY <1>1, <1>2 DEF Statement, Silent, Failing, DecoSaid, RunSaid, SpillSaid, DstSaid
<1>5. UNCHANGED <<processVars, files, attempts>>
  BY DEF Quiet
<1>6. pc' \in {"down", "exited", "deleteStatus", "insertStatus", "run", "initRunDelete",
             "initRunInsert", "clearTable", "processEvent", "updateInsert", "updateStatus",
             "processSpill", "spillDelete", "spillInsert", "write", "closeEvents",
             "writeRunTree", "dstFinished", "openNew", "dstStarted", "fill", "endDelete",
             "endInsert", "endClose", "endRunTree", "dstFinishedLast", "runFinished"}
  BY DEF Quiet
<1>7. QED
  BY <1>3, <1>4, <1>5, <1>6 DEF IInv, TypeOK, processVars, Rows

LEMMA StatementFirstTime ==
  ASSUME IInv, Quiet, Statement
  PROVE  FirstTime'
<1>1. /\ UNCHANGED <<nEvt, current, dstOut, outfilename, files, attempts>>
      /\ pc # "down" /\ Written' = Written /\ Reached' = Reached
  BY QuietPlace DEF Quiet, processVars
<1>2. attempts # 0 /\ db \in Rows
  BY <1>1 DEF IInv, FirstTime, TypeOK, Rows
<1>3. ASSUME attempts <= 1, NEW g \in Groups
      PROVE  /\ files[g] # NONE => g \in Reached \/ (dstOut /\ g = outfilename)
             /\ db'.dst[g] # 0 => files[g] # NONE
             /\ db'.dst[g] = 2 => Closed(files[g]) /\ ~(dstOut /\ g = outfilename)
  <2>1. /\ files[g] # NONE => g \in Reached \/ (dstOut /\ g = outfilename)
        /\ db.dst[g] # 0 => files[g] # NONE
        /\ db.dst[g] = 2 => Closed(files[g]) /\ ~(dstOut /\ g = outfilename)
    BY <1>1, <1>3 DEF IInv, FirstTime
  <2>2. CASE db'.dst = db.dst
    BY <2>1, <2>2
  <2>3. CASE DstSaid
    <3>1. CASE pc \in {"dstFinished", "dstFinishedLast"}
      <4>1. ~dstOut
        BY <3>1 DEF IInv, Place, Closing
      <4>2. db'.dst[g] # 0 => db.dst[g] # 0
        BY <1>2, <2>3, <3>1 DEF DstSaid, Finished, Rows
      <4>3. files[g] # NONE => Closed(files[g])
        BY <1>1, <2>1, <4>1 DEF IInv, FilesFollow
      <4>4. QED
        BY <2>1, <4>1, <4>2, <4>3
    <3>2. CASE pc = "dstStarted"
      <4>1. files[current] # NONE
        BY <3>2 DEF IInv, FilesFollow, Holds
      <4>2. db'.dst[g] = IF g = current THEN 1 ELSE db.dst[g]
        BY <1>2, <2>3, <3>2 DEF DstSaid, Rows
      <4>3. QED
        BY <2>1, <4>1, <4>2
    <3>3. QED
      BY <2>3, <3>1, <3>2 DEF DstSaid
  <2>4. QED
    BY <1>2, <2>2, <2>3
       DEF Statement, Silent, Failing, DecoSaid, RunSaid, SpillSaid, Rows
<1>4. QED
  BY <1>1, <1>2, <1>3 DEF FirstTime

LEMMA StatementRows ==
  ASSUME IInv, Quiet, Statement, errors' = 0
  PROVE  errors = 0 /\ DecoRow' /\ RunRow' /\ SpillRows'
<1>1. errors = 0 /\ ~Failing
  <2>1. errors \in Nat
    BY OutputAssumption DEF IInv, TypeOK
  <2>2. QED
    BY <2>1 DEF Statement, Silent, Failing, DecoSaid, RunSaid, SpillSaid, DstSaid
<1>2. db \in Rows /\ DecoRow /\ RunRow /\ SpillRows /\ Place /\ SpillsSeen
  BY <1>1 DEF IInv, TypeOK, Rows
<1>3. nEvt' = nEvt /\ spill_id_pre' = spill_id_pre
  BY DEF Quiet, processVars
<1>4. NONE \notin {"STARTED", "UPDATED", "FINISHED"}
  BY OutputAssumption
<1>5. DecoRow'
  <2>1. CASE DecoSaid
    <3>1. CASE pc \in {"deleteStatus", "insertStatus"}
      BY <1>2, <1>4, <2>1, <3>1 DEF DecoSaid, DecoRow, Rows, Starting
    <3>2. CASE pc \in {"updateStatus", "runFinished"}
      BY <1>2, <1>4, <2>1, <3>2 DEF DecoSaid, DecoRow, Rows, Starting
    <3>3. QED
      BY <2>1, <3>1, <3>2 DEF DecoSaid
  <2>2. CASE db'.deco = db.deco /\ pc \notin {"deleteStatus", "insertStatus", "runFinished"}
    BY <1>2, <1>3, <2>2 DEF DecoRow, Quiet, Starting
  <2>3. QED
    BY <1>1, <1>2, <2>1, <2>2
       DEF Statement, Silent, RunSaid, SpillSaid, DstSaid, Finished, Rows
<1>6. RunRow'
  <2>1. CASE pc = "endInsert"
    BY <1>1, <1>2, <1>3, <2>1
       DEF Statement, Silent, DecoSaid, RunSaid, SpillSaid, DstSaid, RunRow, Rows
  <2>2. CASE pc' \in {"runFinished", "exited"}
    BY <1>1, <1>2, <1>3, <2>2 DEF Statement, Silent, DecoSaid, RunSaid, SpillSaid, DstSaid,
       Finished, RunRow, Rows, Quiet
  <2>3. CASE pc = "run" /\ pc' = "endClose"
    BY <1>3, <2>3 DEF RunRow, Quiet
  <2>4. QED
    BY <1>1, <2>1, <2>2, <2>3
       DEF Statement, Silent, DecoSaid, RunSaid, SpillSaid, DstSaid, RunRow, Quiet
<1>7. SpillRows'
  <2>1. CASE SpillSaid
    <3>1. CASE pc = "clearTable"
      <4>1. SpillsTo(nEvt - 1) = {}
        BY <1>2, <3>1 DEF Place, Beginning, SpillsTo
      <4>2. db'.spill = {} /\ pc' = "processEvent"
        BY <1>2, <2>1, <3>1 DEF SpillSaid, Quiet, Rows
      <4>3. QED
        BY <1>3, <4>1, <4>2 DEF SpillRows, Reporting
    <3>2. CASE pc = "spillDelete"
      BY <1>2, <1>3, <2>1, <3>2 DEF SpillSaid, SpillRows, Reporting, Rows
    <3>3. CASE pc = "spillInsert"
      <4>1. nEvt \in Nat /\ nEvt >= 1
        BY <1>2, <3>3, WrittenType DEF Place, Handling, Uploading
      <4>2. SpillsTo(nEvt) = SpillsTo(nEvt - 1) \cup {EventSpills[nEvt]}
        BY <4>1 DEF SpillsTo
      <4>3. db'.spill = SpillsTo(nEvt) /\ pc' = "write"
        BY <1>2, <2>1, <3>3, <4>2 DEF SpillSaid, SpillRows, Quiet, Reporting, Rows
      <4>4. QED
        BY <1>3, <4>3 DEF SpillRows, Beginning, Reporting
    <3>4. QED
      BY <2>1, <3>1, <3>2, <3>3 DEF SpillSaid
  <2>2. CASE db'.spill = db.spill /\ pc \notin {"clearTable", "spillDelete", "spillInsert"}
    BY <1>2, <1>3, <2>2 DEF SpillRows, Quiet, Reporting, Beginning
  <2>3. QED
    BY <1>1, <1>2, <2>1, <2>2
       DEF Statement, Silent, DecoSaid, RunSaid, DstSaid, Finished, Rows
<1>8. QED
  BY <1>1, <1>5, <1>6, <1>7

LEMMA StatementStatus ==
  ASSUME IInv, Quiet, Statement, errors' = 0, NoGroupLeftOut
  PROVE  StatusRows'
<1>1. errors = 0 /\ ~Failing
  BY StatementRows, OutputAssumption DEF IInv, TypeOK, Failing
<1>2. db \in Rows /\ StatusRows /\ Place
  BY <1>1 DEF IInv, TypeOK, Rows
<1>3. /\ UNCHANGED <<nEvt, current, dstOut, outfilename>>
      /\ pc # "down" /\ Written' = Written /\ Reached' = Reached
  BY QuietPlace DEF Quiet, processVars
<1>4. CASE pc = "dstFinished"
  <2>1. /\ current = GroupAt(nEvt) /\ outfilename = GroupAt(Written) /\ outfilename # current
        /\ Written = nEvt - 1 /\ Written >= 1
    BY <1>2, <1>4 DEF Place, Closing, Written, Handling
  <2>2. nEvt \in Events /\ nEvt - 1 \in Events
    BY <2>1, WrittenType DEF Events
  <2>3. current = outfilename + m_sp_step
    <3>1. GroupAt((nEvt - 1) + 1) \in {GroupAt(nEvt - 1), GroupAt(nEvt - 1) + m_sp_step}
      BY <2>2, WrittenType DEF NoGroupLeftOut
    <3>2. (nEvt - 1) + 1 = nEvt
      BY WrittenType
    <3>3. QED
      BY <2>1, <3>1, <3>2
  <2>4. outfilename \in Groups /\ current - m_sp_step = outfilename
    BY <2>1, <2>2, <2>3, GroupsInOrder, OutputAssumption
  <2>5. db' = Finished(outfilename) /\ pc' = "openNew"
    BY <1>1, <1>4, <2>4
       DEF Statement, Silent, DecoSaid, RunSaid, SpillSaid, DstSaid, Quiet
  <2>6. ASSUME NEW g \in Reached PROVE db'.dst[g] = 2
    <3>1. g \in Groups
      BY WrittenType, GroupsInOrder DEF Reached
    <3>2. db.dst[g] = 2 \/ (g = outfilename /\ db.dst[g] # 0)
      BY <1>2, <1>3 DEF StatusRows
    <3>3. QED
      BY <1>2, <2>4, <2>5, <3>1, <3>2 DEF Finished, Rows
  <2>7. QED
    BY <1>3, <2>5, <2>6 DEF StatusRows
<1>5. CASE pc = "dstStarted"
  <2>1. current \in Groups /\ current \notin Reached
    BY <1>2, <1>5, WrittenType, GroupsInOrder DEF Place, Handling, Opening
  <2>2. db' = [db EXCEPT !.dst[current] = 1] /\ pc' = "fill"
    BY <1>1, <1>5 DEF Statement, Silent, DecoSaid, RunSaid, SpillSaid, DstSaid, Quiet
  <2>3. db'.dst[current] = 1 /\ \A g \in Groups : g # current => db'.dst[g] = db.dst[g]
    BY <1>2, <2>1, <2>2 DEF Rows
  <2>4. \A g \in Reached : db.dst[g] = 2 /\ g \in Groups
    BY <1>2, <1>3, <1>5, WrittenType, GroupsInOrder DEF StatusRows, Opening, Reached
  <2>5. QED
    BY <1>3, <2>1, <2>2, <2>3, <2>4 DEF StatusRows
<1>6. CASE pc = "dstFinishedLast"
  <2>1. current \in Groups /\ outfilename = current
    BY <1>2, <1>6, WrittenType, GroupsInOrder DEF Place, Handling, Opening
  <2>2. db' = Finished(current) /\ pc' = "runFinished"
    BY <1>1, <1>6 DEF Statement, Silent, DecoSaid, RunSaid, SpillSaid, DstSaid, Quiet
  <2>3. ASSUME NEW g \in Reached PROVE db'.dst[g] = 2
    <3>1. g \in Groups
      BY WrittenType, GroupsInOrder DEF Reached
    <3>2. db.dst[g] = 2 \/ (g = outfilename /\ db.dst[g] # 0)
      BY <1>2, <1>3 DEF StatusRows
    <3>3. QED
      BY <1>2, <2>1, <2>2, <3>1, <3>2 DEF Finished, Rows
  <2>4. QED
    BY <1>3, <2>2, <2>3 DEF StatusRows
<1>7. CASE pc \notin {"dstFinished", "dstStarted", "dstFinishedLast"}
  <2>1. db'.dst = db.dst
    BY <1>1, <1>2, <1>7 DEF Statement, Silent, DecoSaid, RunSaid, SpillSaid, DstSaid, Rows
  <2>2. /\ pc' # "fill" /\ pc' \notin Opening
        /\ pc' \in {"runFinished", "exited"} => pc = "runFinished"
    BY <1>7 DEF Quiet, Opening
  <2>3. QED
    BY <1>2, <1>3, <2>1, <2>2 DEF StatusRows
<1>8. QED
  BY <1>4, <1>5, <1>6, <1>7

LEMMA AtTheDatabaseKeepsIInv == IInv /\ AtTheDatabase => IInv'
<1> SUFFICES ASSUME IInv, AtTheDatabase PROVE IInv'
  OBVIOUS
<1>1. Quiet /\ Statement
  BY DatabaseSteps
<1>2. QED
  BY <1>1, QuietPlace, QuietFiles, StatementType, StatementFirstTime, StatementRows,
     StatementStatus DEF IInv

-----------------------------------------------------------------------------
(* The steps of the process.                                               *)

LEMMA NoneIsNoNumber == NONE \notin Nat /\ NONE \notin DstFile
<1>1. NONE \notin Int /\ NONE \notin DstFile
  BY OutputAssumption, Zenon
<1>2. Nat \subseteq Int
  OBVIOUS
<1>3. QED
  BY <1>1, <1>2, Zenon

LEMMA StartKeepsIInv == IInv /\ Start => IInv'
<1> SUFFICES ASSUME IInv, Start PROVE IInv'
  OBVIOUS
<1>1. /\ pc \in {"down", "exited"} /\ pc' = "deleteStatus" /\ attempts < MAX_ATTEMPTS
      /\ attempts' = attempts + 1 /\ nEvt' = 0 /\ spill_id_pre' = NONE /\ current' = NONE
      /\ dstOut' = FALSE /\ outfilename' = NONE /\ UNCHANGED <<files, db, errors>>
  BY DEF Start
<1>2. attempts \in 0..MAX_ATTEMPTS /\ MAX_ATTEMPTS \in Nat /\ Len(EventSpills) \in Nat
  BY OutputAssumption DEF IInv, TypeOK
<1>3. TypeOK'
  <2>1. attempts' \in 0..MAX_ATTEMPTS /\ nEvt' \in 0..Len(EventSpills)
    BY <1>1, <1>2
  <2>2. QED
    BY <1>1, <2>1 DEF IInv, TypeOK
<1>4. Written' = 0 /\ Reached' = {}
  <2>1. Written' = 0
    BY <1>1 DEF Written, Handling, Beginning, Reporting, Uploading, Closing, Opening
  <2>2. QED
    BY <2>1 DEF Reached
<1>5. Place'
  BY <1>1, <1>4 DEF Place, Starting, Handling, Beginning, Reporting, Uploading, Closing, Opening
<1>6. FilesFollow'
  BY <1>1, <1>4 DEF FilesFollow
<1>7. FirstTime'
  <2>1. ASSUME attempts' <= 1 PROVE \A g \in Groups : files[g] = NONE /\ db.dst[g] = 0
    <3>1. attempts = 0
      BY <1>1, <1>2, <2>1
    <3>2. QED
      BY <3>1 DEF IInv, FirstTime
  <2>2. attempts' # 0
    BY <1>1, <1>2
  <2>3. QED
    BY <1>1, <2>1, <2>2 DEF FirstTime
<1>8. SpillsSeen'
  BY <1>1 DEF SpillsSeen
<1>9. errors' = 0 => DecoRow' /\ RunRow' /\ SpillRows'
  BY <1>1 DEF IInv, DecoRow, RunRow, SpillRows, Starting, Reporting
<1>10. StatusRows'
  BY <1>1, <1>4 DEF StatusRows
<1>11. QED
  BY <1>3, <1>5, <1>6, <1>7, <1>8, <1>9, <1>10 DEF IInv

LEMMA CrashKeepsIInv == IInv /\ Crash => IInv'
<1> SUFFICES ASSUME IInv, Crash PROVE IInv'
  OBVIOUS
<1>1. /\ pc \notin {"down", "exited"} /\ pc' = "down"
      /\ UNCHANGED <<nEvt, spill_id_pre, current, dstOut, outfilename, files, db, attempts, errors>>
  BY DEF Crash, processVars
<1>2. TypeOK'
  BY <1>1 DEF IInv, TypeOK
<1>3. Place'
  BY <1>1 DEF Place, Starting, Ending, Handling, Beginning, Reporting, Uploading, Closing, Opening
<1>4. FilesFollow'
  BY <1>1 DEF FilesFollow
<1>5. FirstTime'
  BY <1>1 DEF IInv, FirstTime
<1>6. SpillsSeen'
  <2>1. SpillsTo(nEvt - 1) \subseteq SpillsTo(nEvt)
    BY WrittenType DEF SpillsTo
  <2>2. QED
    BY <1>1, <2>1 DEF IInv, SpillsSeen, Beginning, Reporting
<1>7. errors' = 0 => DecoRow' /\ RunRow' /\ SpillRows'
  BY <1>1 DEF IInv, Place, DecoRow, RunRow, SpillRows, Starting, Reporting, Beginning
<1>8. StatusRows'
  BY <1>1 DEF StatusRows
<1>9. QED
  BY <1>2, <1>3, <1>4, <1>5, <1>6, <1>7, <1>8 DEF IInv

(* A step between two labels of a running process that leaves the files    *)
(* and the tables alone.                                                   *)
LEMMA FirstTimeKept ==
  ASSUME FirstTime, pc # "down", pc' # "down", Reached' = Reached,
         UNCHANGED <<dstOut, outfilename, files, db, attempts>>
  PROVE  FirstTime'
BY DEF FirstTime

LEMMA NextEventKeepsIInv == IInv /\ NextEvent => IInv'
<1> SUFFICES ASSUME IInv, NextEvent PROVE IInv'
  OBVIOUS
<1>1. /\ pc = "run" /\ nEvt < Len(EventSpills) /\ nEvt' = nEvt + 1
      /\ pc' = IF nEvt = 0 THEN "initRunDelete" ELSE "processEvent"
      /\ UNCHANGED <<spill_id_pre, current, dstOut, outfilename, files, db, attempts, errors>>
  BY DEF NextEvent
<1>2. nEvt \in 0..Len(EventSpills) /\ Len(EventSpills) \in Nat
  BY OutputAssumption DEF IInv, TypeOK
<1>3. nEvt' \in 0..Len(EventSpills) /\ nEvt' - 1 = nEvt /\ nEvt' >= 1
  BY <1>1, <1>2
<1>4. TypeOK'
  BY <1>1, <1>3 DEF IInv, TypeOK
<1>5. Written = nEvt /\ Written' = nEvt
  BY <1>1, <1>3 DEF Written, Handling, Beginning, Reporting, Uploading, Closing, Opening
<1>6. Reached' = Reached
  BY <1>5 DEF Reached
<1>7. Place'
  <2>1. IF Written = 0 THEN current = NONE /\ ~dstOut
        ELSE current = GroupAt(Written) /\ dstOut /\ outfilename = current
    BY <1>1 DEF IInv, Place
  <2>2. pc' \in Beginning => nEvt' = 1
    BY <1>1, <1>2 DEF Beginning
  <2>3. QED
    BY <1>1, <1>3, <1>5, <2>1, <2>2 DEF Place, Starting, Closing, Opening
<1>8. FilesFollow'
  BY <1>1, <1>5, <1>6 DEF IInv, FilesFollow
<1>9. FirstTime'
  BY <1>1, <1>6, FirstTimeKept DEF IInv
<1>10. SpillsSeen'
  BY <1>1, <1>3 DEF IInv, SpillsSeen, Beginning, Reporting
<1>11. errors' = 0 => DecoRow' /\ RunRow' /\ SpillRows'
  BY <1>1, <1>2, <1>3 DEF IInv, DecoRow, RunRow, SpillRows, Starting, Reporting, Beginning
<1>12. errors' = 0 /\ NoGroupLeftOut => StatusRows'
  BY <1>1, <1>6 DEF IInv, StatusRows, Opening
<1>13. QED
  BY <1>4, <1>7, <1>8, <1>9, <1>10, <1>11, <1>12 DEF IInv

LEMMA SpillChangedKeepsIInv == IInv /\ SpillChanged => IInv'
<1> SUFFICES ASSUME IInv, SpillChanged PROVE IInv'
  OBVIOUS
<1>1. /\ pc = "processSpill" /\ spill_id_pre' = EventSpills[nEvt]
      /\ pc' = IF EventSpills[nEvt] # spill_id_pre THEN "spillDelete" ELSE "write"
      /\ UNCHANGED <<nEvt, current, dstOut, outfilename, files, db, attempts, errors>>
  BY DEF SpillChanged
<1>2. nEvt \in Events /\ nEvt >= 1 /\ nEvt \in Nat
  BY <1>1, WrittenType DEF IInv, Place, Handling, Reporting
<1>3. EventSpills[nEvt] \in Spills /\ EventSpills[nEvt] \in Nat
  BY <1>2, GroupsInOrder, OutputAssumption DEF Events
<1>4. TypeOK'
  BY <1>1, <1>3 DEF IInv, TypeOK
<1>5. Written' = Written /\ Reached' = Reached
  BY <1>1, SameWritten DEF Handling, Reporting, Uploading
<1>6. Place'
  <2>1. IF Written = 0 THEN current = NONE /\ ~dstOut
        ELSE current = GroupAt(Written) /\ dstOut /\ outfilename = current
    BY <1>1 DEF IInv, Place, Reporting
  <2>2. QED
    BY <1>1, <1>2, <1>5, <2>1 DEF Place, Starting, Beginning, Closing, Opening
<1>7. FilesFollow'
  BY <1>1, <1>5 DEF IInv, FilesFollow
<1>8. FirstTime'
  BY <1>1, <1>5, FirstTimeKept DEF IInv
<1>9. EventSpills[nEvt] \in SpillsTo(nEvt) /\ SpillsTo(nEvt) = SpillsTo(nEvt - 1) \cup {EventSpills[nEvt]}
  BY <1>2 DEF SpillsTo
<1>10. SpillsSeen'
  BY <1>1, <1>9 DEF SpillsSeen, Beginning, Reporting
<1>11. errors' = 0 => DecoRow' /\ RunRow' /\ SpillRows'
  <2>1. ASSUME errors = 0 PROVE SpillRows'
    <3>1. db.spill = SpillsTo(nEvt - 1)
      BY <1>1, <2>1 DEF IInv, SpillRows, Reporting
    <3>2. ASSUME EventSpills[nEvt] = spill_id_pre PROVE SpillsTo(nEvt) = SpillsTo(nEvt - 1)
      <4>1. spill_id_pre # NONE
        BY <1>3, <3>2, NoneIsNoNumber
      <4>2. spill_id_pre \in SpillsTo(nEvt - 1)
        BY <1>1, <4>1 DEF IInv, SpillsSeen, Reporting
      <4>3. QED
        BY <1>9, <3>2, <4>2
    <3>3. QED
      BY <1>1, <3>1, <3>2 DEF SpillRows, Reporting
  <2>2. QED
    BY <1>1, <2>1 DEF IInv, DecoRow, RunRow, Starting
<1>12. errors' = 0 /\ NoGroupLeftOut => StatusRows'
  BY <1>1, <1>5 DEF IInv, StatusRows, Opening
<1>13. QED
  BY <1>4, <1>6, <1>7, <1>8, <1>10, <1>11, <1>12 DEF IInv

LEMMA WriteKeepsIInv == IInv /\ Write => IInv'
<1> SUFFICES ASSUME IInv, Write PROVE IInv'
  OBVIOUS
<1>1. /\ pc = "write" /\ current' = GroupAt(nEvt)
      /\ UNCHANGED <<nEvt, spill_id_pre, dstOut, outfilename, files, db, attempts, errors>>
  BY DEF Write, GroupAt, Event
<1>2. nEvt \in Events /\ nEvt >= 1 /\ nEvt \in Nat
  BY <1>1, WrittenType DEF IInv, Place, Handling, Uploading
<1>3. current' \in Groups /\ current' \in Nat
  BY <1>1, <1>2, GroupsInOrder
<1>4. IF Written = 0 THEN current = NONE /\ ~dstOut
      ELSE current = GroupAt(Written) /\ dstOut /\ outfilename = current
  BY <1>1 DEF IInv, Place, Uploading
<1>5. \/ pc' = "fill" /\ current' = current /\ dstOut
      \/ pc' = "closeEvents" /\ current' # current /\ dstOut
      \/ pc' = "openNew" /\ ~dstOut /\ Reached = {}
  <2>1. pc' = CASE current = current'            -> "fill"
                [] current # current' /\ dstOut  -> "closeEvents"
                [] current # current' /\ ~dstOut -> "openNew"
    BY DEF Write
  <2>2. CASE Written = 0
    <3>1. current # current' /\ ~dstOut
      BY <1>3, <1>4, <2>2, NoneIsNoNumber
    <3>2. Reached = {}
      BY <2>2 DEF Reached
    <3>3. QED
      BY <2>1, <3>1, <3>2
  <2>3. CASE Written # 0
    BY <1>4, <2>1, <2>3
  <2>4. QED
    BY <2>2, <2>3
<1>6. TypeOK'
  <2>1. pc' \in {"fill", "closeEvents", "openNew"}
    BY <1>5
  <2>2. QED
    BY <1>1, <1>3, <2>1 DEF IInv, TypeOK
<1>7. Written' = Written /\ Reached' = Reached /\ Written \in Nat
  BY <1>1, <1>5, SameWritten, WrittenType DEF Handling, Uploading, Closing, Opening
<1>8. Place'
  <2>1. CASE pc' = "fill"
    BY <1>1, <1>2, <1>4, <1>5, <1>7, <2>1
       DEF Place, Starting, Beginning, Reporting, Uploading, Closing, Opening, Ending
  <2>2. CASE pc' = "closeEvents"
    <3>1. Written >= 1 /\ outfilename = GroupAt(Written) /\ outfilename # current'
      BY <1>4, <1>5, <1>7, <2>2
    <3>2. dstOut = TRUE
      BY <1>5, <2>2 DEF IInv, TypeOK
    <3>3. QED
      BY <1>1, <1>2, <1>7, <2>2, <3>1, <3>2
         DEF Place, Starting, Beginning, Reporting, Uploading, Closing, Opening, Ending
  <2>3. CASE pc' = "openNew"
    <3>1. dstOut = FALSE
      BY <1>5, <2>3 DEF IInv, TypeOK
    <3>2. QED
      BY <1>1, <1>2, <1>5, <1>7, <2>3, <3>1
         DEF Place, Starting, Beginning, Reporting, Uploading, Closing, Opening, Ending
  <2>4. QED
    BY <1>5, <2>1, <2>2, <2>3
<1>9. pc' = "fill" => current \in Reached /\ outfilename = current
  BY <1>4, <1>5, <1>7 DEF Reached
<1>10. FilesFollow'
  BY <1>1, <1>5, <1>7, <1>9 DEF IInv, FilesFollow
<1>11. pc' \notin {"down", "run", "runFinished", "exited", "spillDelete", "spillInsert"} 
       /\ pc' \notin Starting \cup Beginning \cup Reporting \cup Ending
  BY <1>5 DEF Starting, Beginning, Reporting, Ending
<1>12. FirstTime'
  BY <1>1, <1>7, <1>11, FirstTimeKept DEF IInv
<1>13. SpillsSeen'
  BY <1>1, <1>11 DEF IInv, SpillsSeen, Beginning, Reporting
<1>14. errors' = 0 => DecoRow' /\ RunRow' /\ SpillRows'
  BY <1>1, <1>5, <1>11 DEF IInv, DecoRow, RunRow, SpillRows, Starting, Reporting, Beginning
<1>15. errors' = 0 /\ NoGroupLeftOut => StatusRows'
  <2>1. ASSUME errors = 0, NoGroupLeftOut PROVE StatusRows'
    <3>1. \A g \in Reached : db.dst[g] = 2 \/ (g = outfilename /\ db.dst[g] # 0)
      BY <1>1, <2>1 DEF IInv, StatusRows
    <3>2. QED
      BY <1>1, <1>5, <1>7, <1>9, <1>11, <3>1 DEF StatusRows, Opening
  <2>2. QED
    BY <1>1, <2>1
<1>16. QED
  BY <1>6, <1>8, <1>10, <1>12, <1>13, <1>14, <1>15 DEF IInv

LEMMA OpenFile ==
  ASSUME IInv, dstOut
  PROVE  outfilename \in Groups /\ files[outfilename] \in DstFile
BY DEF IInv, TypeOK

LEMMA CloseEventsKeepsIInv ==
  IInv /\ (CloseEvents("closeEvents", "writeRunTree") \/ CloseEvents("endClose", "endRunTree")) => IInv'
<1> SUFFICES ASSUME IInv,
             CloseEvents("closeEvents", "writeRunTree") \/ CloseEvents("endClose", "endRunTree")
             PROVE IInv'
  OBVIOUS
<1>1. /\ \/ pc = "closeEvents" /\ pc' = "writeRunTree"
         \/ pc = "endClose" /\ pc' = "endRunTree"
      /\ files' = IF dstOut THEN [files EXCEPT ![outfilename].state = "closed"] ELSE files
      /\ UNCHANGED <<nEvt, spill_id_pre, current, dstOut, outfilename, db, attempts, errors>>
  BY DEF CloseEvents, processVars
<1>2. files \in [Groups -> DstFile \cup {NONE}]
  BY DEF IInv, TypeOK
<1>3. dstOut => /\ files'[outfilename] \in DstFile
                /\ files'[outfilename].events = files[outfilename].events
                /\ files'[outfilename].state = "closed"
  BY <1>1, <1>2, OpenFile DEF DstFile
<1>4. \A g \in Groups : ~(dstOut /\ g = outfilename) => files'[g] = files[g]
  BY <1>1, <1>2
<1>5. TypeOK'
  <2>1. files' \in [Groups -> DstFile \cup {NONE}]
    BY <1>1, <1>2, OpenFile DEF DstFile
  <2>2. dstOut' => outfilename' # NONE /\ files'[outfilename'] # NONE
    BY <1>1, <1>3, NoneIsNoNumber DEF IInv, TypeOK
  <2>3. QED
    BY <1>1, <2>1, <2>2 DEF IInv, TypeOK
<1>6. Written' = Written /\ Reached' = Reached /\ Reached \subseteq Groups
  <2>1. Reached \subseteq Groups
    BY WrittenType, GroupsInOrder DEF Reached
  <2>2. QED
    BY <1>1, <2>1, SameWritten
       DEF Handling, Beginning, Reporting, Uploading, Closing, Opening
<1>7. Place'
  <2>1. CASE pc = "closeEvents"
    BY <1>1, <1>6, <2>1 DEF IInv, Place, Starting, Beginning, Reporting, Uploading, Closing,
       Opening, Handling, Ending
  <2>2. CASE pc = "endClose"
    BY <1>1, <1>6, <2>2 DEF IInv, Place, Starting, Beginning, Reporting, Uploading, Closing,
       Opening, Handling, Ending
  <2>3. QED
    BY <1>1, <2>1, <2>2
<1>8. FilesFollow'
  <2>1. ASSUME NEW g \in Reached
        PROVE  /\ Holds(files'[g], g, Written)
               /\ Closed(files'[g]) \/ (dstOut /\ g = outfilename)
    <3>1. Holds(files[g], g, Written) /\ (Closed(files[g]) \/ (dstOut /\ g = outfilename))
      BY <1>1 DEF IInv, FilesFollow
    <3>2. CASE dstOut /\ g = outfilename
      <4>1. files'[g] # NONE /\ files'[g].events = files[g].events
        BY <1>3, <3>2, NoneIsNoNumber
      <4>2. QED
        BY <3>1, <3>2, <4>1 DEF Holds
    <3>3. CASE ~(dstOut /\ g = outfilename)
      BY <1>4, <1>6, <3>1, <3>3
    <3>4. QED
      BY <3>2, <3>3
  <2>2. QED
    BY <1>1, <1>3, <1>6, <2>1 DEF FilesFollow
<1>9. FirstTime'
  <2>1. attempts # 0
    BY <1>1 DEF IInv, FirstTime
  <2>2. ASSUME attempts <= 1, NEW g \in Groups
        PROVE  /\ files'[g] # NONE => g \in Reached \/ (dstOut /\ g = outfilename)
               /\ db.dst[g] # 0 => files'[g] # NONE
               /\ db.dst[g] = 2 => Closed(files'[g]) /\ ~(dstOut /\ g = outfilename)
    <3>1. /\ files[g] # NONE => g \in Reached \/ (dstOut /\ g = outfilename)
          /\ db.dst[g] # 0 => files[g] # NONE
          /\ db.dst[g] = 2 => Closed(files[g]) /\ ~(dstOut /\ g = outfilename)
      BY <1>1, <2>2 DEF IInv, FirstTime
    <3>2. CASE dstOut /\ g = outfilename
      BY <1>3, <3>1, <3>2, NoneIsNoNumber
    <3>3. CASE ~(dstOut /\ g = outfilename)
      BY <1>4, <3>1, <3>3
    <3>4. QED
      BY <3>2, <3>3
  <2>3. QED
    BY <1>1, <1>6, <2>1, <2>2 DEF FirstTime
<1>10. SpillsSeen'
  BY <1>1 DEF IInv, SpillsSeen, Beginning, Reporting
<1>11. errors' = 0 => DecoRow' /\ RunRow' /\ SpillRows'
  BY <1>1 DEF IInv, DecoRow, RunRow, SpillRows, Starting, Reporting, Beginning
<1>12. errors' = 0 /\ NoGroupLeftOut => StatusRows'
  BY <1>1, <1>6 DEF IInv, StatusRows, Opening
<1>13. QED
  BY <1>5, <1>7, <1>8, <1>9, <1>10, <1>11, <1>12 DEF IInv

LEMMA WriteRunTreeKeepsIInv ==
  IInv /\ (\/ WriteRunTree("writeRunTree", "dstFinished")
           \/ WriteRunTree("endRunTree", IF current = NONE THEN "runFinished" ELSE "dstFinishedLast"))
    => IInv'
<1> SUFFICES ASSUME IInv,
             \/ WriteRunTree("writeRunTree", "dstFinished")
             \/ WriteRunTree("endRunTree", IF current = NONE THEN "runFinished" ELSE "dstFinishedLast")
             PROVE IInv'
  OBVIOUS
<1>1. /\ \/ pc = "writeRunTree" /\ pc' = "dstFinished"
         \/ pc = "endRunTree" /\ current = NONE /\ pc' = "runFinished"
         \/ pc = "endRunTree" /\ current # NONE /\ pc' = "dstFinishedLast"
      /\ files' = IF dstOut THEN [files EXCEPT ![outfilename].run = SpillMap] ELSE files
      /\ dstOut' = FALSE
      /\ UNCHANGED <<nEvt, spill_id_pre, current, outfilename, db, attempts, errors>>
  BY DEF WriteRunTree
<1>2. files \in [Groups -> DstFile \cup {NONE}] /\ SpillMap \subseteq Spills
  BY WrittenType DEF IInv, TypeOK, SpillMap, Spills, Events
<1>3. dstOut => /\ files'[outfilename] \in DstFile
                /\ files'[outfilename].events = files[outfilename].events
                /\ files'[outfilename].state = files[outfilename].state
                /\ files'[outfilename].run = SpillMap
  BY <1>1, <1>2, OpenFile DEF DstFile
<1>4. \A g \in Groups : ~(dstOut /\ g = outfilename) => files'[g] = files[g]
  BY <1>1, <1>2
<1>5. TypeOK'
  <2>1. files' \in [Groups -> DstFile \cup {NONE}]
    BY <1>1, <1>2, OpenFile DEF DstFile
  <2>2. pc' \in {"dstFinished", "runFinished", "dstFinishedLast"}
    BY <1>1
  <2>3. QED
    BY <1>1, <2>1, <2>2 DEF IInv, TypeOK
<1>6. Written' = Written /\ Reached' = Reached /\ Reached \subseteq Groups /\ Written \in Nat
  <2>1. Reached \subseteq Groups
    BY WrittenType, GroupsInOrder DEF Reached
  <2>2. QED
    BY <1>1, <2>1, SameWritten, WrittenType
       DEF Handling, Beginning, Reporting, Uploading, Closing, Opening
<1>7. pc = "endRunTree" => Written = nEvt /\ nEvt \in Nat /\ (current = NONE <=> nEvt = 0)
  <2>1. SUFFICES ASSUME pc = "endRunTree"
        PROVE  Written = nEvt /\ nEvt \in Nat /\ (current = NONE <=> nEvt = 0)
    OBVIOUS
  <2>2. Written = nEvt /\ nEvt \in Nat
    BY <2>1, WrittenType
       DEF Written, Handling, Beginning, Reporting, Uploading, Closing, Opening
  <2>3. IF Written = 0 THEN current = NONE /\ ~dstOut
        ELSE current = GroupAt(Written) /\ dstOut /\ outfilename = current
    BY <2>1 DEF IInv, Place, Ending
  <2>4. nEvt # 0 => GroupAt(nEvt) \in Nat
    BY <2>2, WrittenType, GroupsInOrder
  <2>5. QED
    BY <2>2, <2>3, <2>4, NoneIsNoNumber
<1>8. Place'
  <2>1. CASE pc = "writeRunTree"
    BY <1>1, <1>6, <2>1 DEF IInv, Place, Starting, Beginning, Reporting, Uploading, Closing,
       Opening, Handling, Ending
  <2>2. CASE pc = "endRunTree"
    <3>1. nEvt # 0 => nEvt >= 1 /\ current = GroupAt(nEvt) /\ outfilename = current
      BY <1>7, <2>2 DEF IInv, Place, Ending
    <3>2. QED
      BY <1>1, <1>6, <1>7, <2>2, <3>1 DEF Place, Starting, Beginning, Reporting, Uploading,
         Closing, Opening, Handling, Ending
  <2>3. QED
    BY <1>1, <2>1, <2>2
<1>9. FilesFollow'
  <2>1. ASSUME NEW g \in Reached
        PROVE  Holds(files'[g], g, Written) /\ Closed(files'[g])
    <3>1. Holds(files[g], g, Written) /\ (Closed(files[g]) \/ (dstOut /\ g = outfilename))
      BY <1>1 DEF IInv, FilesFollow
    <3>2. CASE dstOut /\ g = outfilename
      <4>1. files'[g] # NONE /\ files'[g].events = files[g].events /\ files'[g].run = SpillMap
        BY <1>3, <3>2, NoneIsNoNumber
      <4>2. files'[g].state = "closed"
        BY <1>1, <1>3, <3>2 DEF IInv, FilesFollow
      <4>3. \A i \in DOMAIN files[g].events : files[g].events[i] \in 1..Written
        BY <3>1 DEF Holds
      <4>4. \A i \in DOMAIN files[g].events : EventSpills[files[g].events[i]] \in SpillMap
        BY <4>3, WrittenType DEF SpillMap
      <4>5. Holds(files'[g], g, Written)
        BY <3>1, <4>1 DEF Holds
      <4>6. QED
        BY <4>1, <4>2, <4>4, <4>5 DEF Closed
    <3>3. CASE ~(dstOut /\ g = outfilename)
      BY <1>4, <1>6, <3>1, <3>3
    <3>4. QED
      BY <3>2, <3>3
  <2>2. QED
    BY <1>1, <1>6, <2>1 DEF FilesFollow
<1>10. FirstTime'
  <2>1. attempts # 0
    BY <1>1 DEF IInv, FirstTime
  <2>2. ASSUME attempts <= 1, NEW g \in Groups
        PROVE  /\ files'[g] # NONE => g \in Reached
               /\ db.dst[g] # 0 => files'[g] # NONE
               /\ db.dst[g] = 2 => Closed(files'[g])
    <3>1. /\ files[g] # NONE => g \in Reached \/ (dstOut /\ g = outfilename)
          /\ db.dst[g] # 0 => files[g] # NONE
          /\ db.dst[g] = 2 => Closed(files[g]) /\ ~(dstOut /\ g = outfilename)
      BY <1>1, <2>2 DEF IInv, FirstTime
    <3>2. CASE dstOut /\ g = outfilename
      <4>1. Written # 0 /\ outfilename = GroupAt(Written)
        <5>1. CASE pc = "writeRunTree"
          BY <1>6, <5>1 DEF IInv, Place, Closing
        <5>2. CASE pc = "endRunTree"
          BY <3>2, <5>2 DEF IInv, Place, Ending
        <5>3. QED
          BY <1>1, <5>1, <5>2
      <4>2. g \in Reached
        BY <1>6, <3>2, <4>1 DEF Reached
      <4>3. QED
        BY <1>3, <3>1, <3>2, <4>2, NoneIsNoNumber
    <3>3. CASE ~(dstOut /\ g = outfilename)
      BY <1>4, <3>1, <3>3
    <3>4. QED
      BY <3>2, <3>3
  <2>3. QED
    BY <1>1, <1>6, <2>1, <2>2 DEF FirstTime
<1>11. SpillsSeen'
  BY <1>1 DEF IInv, SpillsSeen, Beginning, Reporting
<1>12. errors' = 0 => DecoRow' /\ RunRow' /\ SpillRows'
  BY <1>1 DEF IInv, DecoRow, RunRow, SpillRows, Starting, Reporting, Beginning
<1>13. errors' = 0 /\ NoGroupLeftOut => StatusRows'
  <2>1. pc' = "runFinished" => Reached = {}
    BY <1>1, <1>7 DEF Reached
  <2>2. QED
    BY <1>1, <1>6, <2>1 DEF IInv, StatusRows, Opening
<1>14. QED
  BY <1>5, <1>8, <1>9, <1>10, <1>11, <1>12, <1>13 DEF IInv

LEMMA OpenNewKeepsIInv == IInv /\ OpenNew => IInv'
<1> SUFFICES ASSUME IInv, OpenNew PROVE IInv'
  OBVIOUS
<1>1. /\ pc = "openNew" /\ pc' = "dstStarted"
      /\ files' = [files EXCEPT ![current] = [events |-> <<>>, state |-> "open", run |-> {}]]
      /\ dstOut' = TRUE /\ outfilename' = current
      /\ UNCHANGED <<nEvt, spill_id_pre, current, db, attempts, errors>>
  BY DEF OpenNew
<1>2. nEvt \in Events /\ nEvt >= 1 /\ current = GroupAt(nEvt) /\ current \notin Reached /\ ~dstOut
  BY <1>1, WrittenType DEF IInv, Place, Handling, Opening
<1>3. current \in Groups /\ current # NONE
  BY <1>2, GroupsInOrder
<1>4. files \in [Groups -> DstFile \cup {NONE}]
  BY DEF IInv, TypeOK
<1>5. files'[current] = [events |-> <<>>, state |-> "open", run |-> {}]
  BY <1>1, <1>3, <1>4
<1>6. files'[current] \in DstFile /\ files'[current] # NONE
  <2>1. <<>> \in Seq(Events)
    OBVIOUS
  <2>2. files'[current] \in DstFile
    BY <1>5, <2>1 DEF DstFile
  <2>3. QED
    BY <2>2, NoneIsNoNumber
<1>7. \A g \in Groups : g # current => files'[g] = files[g]
  BY <1>1, <1>4
<1>8. TypeOK'
  <2>1. files' \in [Groups -> DstFile \cup {NONE}]
    BY <1>1, <1>4, <1>5, <1>6
  <2>2. QED
    BY <1>1, <1>3, <1>6, <2>1 DEF IInv, TypeOK
<1>9. Written' = Written /\ Reached' = Reached /\ Reached \subseteq Groups
  <2>1. Reached \subseteq Groups
    BY WrittenType, GroupsInOrder DEF Reached
  <2>2. QED
    BY <1>1, <2>1, SameWritten DEF Handling, Opening
<1>10. Place'
  BY <1>1, <1>2, <1>9 DEF Place, Starting, Beginning, Reporting, Uploading, Closing, Opening, Ending
<1>11. FilesFollow'
  <2>1. ASSUME NEW g \in Reached PROVE Holds(files'[g], g, Written) /\ Closed(files'[g])
    <3>1. Holds(files[g], g, Written) /\ Closed(files[g])
      BY <1>1, <1>2 DEF IInv, FilesFollow
    <3>2. QED
      BY <1>2, <1>7, <1>9, <3>1
  <2>2. Holds(files'[current], current, Written)
    <3>1. {i \in 1..Written : GroupOf(EventSpills[i]) = current} = {}
      BY <1>2 DEF Reached, GroupAt
    <3>2. files'[current].events = <<>>
      BY <1>5
    <3>3. QED
      BY <1>6, <3>1, <3>2 DEF Holds
  <2>3. QED
    BY <1>1, <1>9, <2>1, <2>2 DEF FilesFollow
<1>12. FirstTime'
  <2>1. attempts # 0
    BY <1>1 DEF IInv, FirstTime
  <2>2. ASSUME attempts <= 1, NEW g \in Groups
        PROVE  /\ files'[g] # NONE => g \in Reached \/ g = current
               /\ db.dst[g] # 0 => files'[g] # NONE
               /\ db.dst[g] = 2 => Closed(files'[g]) /\ g # current
    <3>1. /\ files[g] # NONE => g \in Reached
          /\ db.dst[g] # 0 => files[g] # NONE
          /\ db.dst[g] = 2 => Closed(files[g])
      BY <1>1, <1>2, <2>2 DEF IInv, FirstTime
    <3>2. CASE g = current
      BY <1>2, <1>6, <3>1, <3>2
    <3>3. CASE g # current
      BY <1>7, <3>1, <3>3
    <3>4. QED
      BY <3>2, <3>3
  <2>3. QED
    BY <1>1, <1>9, <2>1, <2>2 DEF FirstTime
<1>13. SpillsSeen'
  BY <1>1 DEF IInv, SpillsSeen, Beginning, Reporting
<1>14. errors' = 0 => DecoRow' /\ RunRow' /\ SpillRows'
  BY <1>1 DEF IInv, DecoRow, RunRow, SpillRows, Starting, Reporting, Beginning
<1>15. errors' = 0 /\ NoGroupLeftOut => StatusRows'
  BY <1>1, <1>9 DEF IInv, StatusRows, Opening
<1>16. QED
  BY <1>8, <1>10, <1>11, <1>12, <1>13, <1>14, <1>15 DEF IInv

LEMMA FillKeepsIInv == IInv /\ Fill => IInv'
<1> SUFFICES ASSUME IInv, Fill PROVE IInv'
  OBVIOUS
<1>1. /\ pc = "fill" /\ pc' \in {"run", "endDelete"}
      /\ files' = [files EXCEPT ![outfilename].events = Append(@, nEvt)]
      /\ UNCHANGED <<nEvt, spill_id_pre, current, dstOut, outfilename, db, attempts, errors>>
  BY DEF Fill, processVars
<1>2. /\ nEvt \in Events /\ nEvt >= 1 /\ current = GroupAt(nEvt) /\ outfilename = current /\ dstOut
      /\ nEvt \in Nat
  BY <1>1, WrittenType DEF IInv, Place, Handling
<1>3. current \in Groups /\ current # NONE /\ files[current] \in DstFile
  BY <1>2, GroupsInOrder, OpenFile
<1>4. files \in [Groups -> DstFile \cup {NONE}]
  BY DEF IInv, TypeOK
<1>5. /\ files'[current].events = Append(files[current].events, nEvt)
      /\ files'[current] \in DstFile
  <2>1. files[current].events \in Seq(Events)
    BY <1>3 DEF DstFile
  <2>2. Append(files[current].events, nEvt) \in Seq(Events)
    BY <1>2, <2>1
  <2>3. files'[current] = [files[current] EXCEPT !.events = Append(@, nEvt)]
    BY <1>1, <1>2, <1>3, <1>4
  <2>4. QED
    BY <1>3, <2>2, <2>3 DEF DstFile
<1>6. \A g \in Groups : g # current => files'[g] = files[g]
  BY <1>1, <1>2, <1>4
<1>7. TypeOK'
  <2>1. DOMAIN files' = Groups
    BY <1>1, <1>4
  <2>2. \A g \in Groups : files'[g] \in DstFile \cup {NONE}
    BY <1>4, <1>5, <1>6
  <2>3. files' = [g \in Groups |-> files'[g]]
    BY <1>1, <1>4
  <2>4. files' \in [Groups -> DstFile \cup {NONE}]
    BY <2>2, <2>3
  <2>5. files'[current] # NONE
    BY <1>5, NoneIsNoNumber
  <2>6. QED
    BY <1>1, <1>2, <2>4, <2>5 DEF IInv, TypeOK
<1>8. Written = nEvt - 1 /\ Written' = nEvt
  BY <1>1 DEF Written, Handling, Beginning, Reporting, Uploading, Closing, Opening
<1>9. Reached' = Reached \cup {current} /\ Reached \subseteq Groups
  <2>1. \A i : i \in 1..nEvt <=> i \in 1..(nEvt - 1) \/ i = nEvt
    BY <1>2
  <2>2. Reached' = {GroupAt(i) : i \in 1..nEvt} /\ Reached = {GroupAt(i) : i \in 1..(nEvt - 1)}
    BY <1>8 DEF Reached
  <2>3. Reached' = Reached \cup {current}
    BY <1>2, <2>1, <2>2
  <2>4. Reached \subseteq Groups
    BY WrittenType, GroupsInOrder DEF Reached
  <2>5. QED
    BY <2>3, <2>4
<1>10. Place'
  <2>1. nEvt # 0
    BY <1>2
  <2>2. pc' \notin Starting \cup Beginning \cup Closing \cup Opening
        /\ pc' \notin {"fill", "dstStarted", "dstFinishedLast", "runFinished", "exited"}
    BY <1>1 DEF Starting, Beginning, Closing, Opening
  <2>3. QED
    BY <1>1, <1>2, <1>8, <2>1, <2>2 DEF Place
<1>11. FilesFollow'
  <2>1. Holds(files'[current], current, nEvt)
    <3> DEFINE s == files[current].events
               t == files'[current].events
    <3>1. /\ s \in Seq(Events) /\ t = Append(s, nEvt)
          /\ \A i, j \in DOMAIN s : i < j => s[i] < s[j]
          /\ {s[i] : i \in DOMAIN s} = {i \in 1..(nEvt - 1) : GroupOf(EventSpills[i]) = current}
      BY <1>1, <1>3, <1>5, <1>8 DEF IInv, FilesFollow, Holds, DstFile
    <3> HIDE DEF s, t
    <3>2. /\ Len(s) \in Nat /\ DOMAIN s = 1..Len(s) /\ DOMAIN t = 1..(Len(s) + 1)
          /\ t[Len(s) + 1] = nEvt /\ \A i \in DOMAIN s : t[i] = s[i]
      BY <3>1
    <3>3. \A i \in DOMAIN s : s[i] \in 1..(nEvt - 1)
      BY <3>1
    <3>4. ASSUME NEW i \in DOMAIN t, NEW j \in DOMAIN t, i < j PROVE t[i] < t[j]
      <4>1. i \in DOMAIN s
        BY <3>2, <3>4
      <4>2. CASE j \in DOMAIN s
        BY <3>1, <3>2, <3>4, <4>1, <4>2
      <4>3. CASE j = Len(s) + 1
        BY <1>2, <3>2, <3>3, <4>1, <4>3
      <4>4. QED
        BY <3>2, <4>2, <4>3
    <3>5. {t[i] : i \in DOMAIN t} = {s[i] : i \in DOMAIN s} \cup {nEvt}
      <4>1. \A i : i \in DOMAIN t <=> i \in DOMAIN s \/ i = Len(s) + 1
        BY <3>2
      <4>2. QED
        BY <3>2, <4>1
    <3>6. {i \in 1..nEvt : GroupOf(EventSpills[i]) = current}
            = {i \in 1..(nEvt - 1) : GroupOf(EventSpills[i]) = current} \cup {nEvt}
      BY <1>2 DEF GroupAt
    <3>7. files'[current] # NONE
      BY <1>5, NoneIsNoNumber
    <3>8. QED
      BY <3>1, <3>4, <3>5, <3>6, <3>7 DEF Holds, t
  <2>2. ASSUME NEW g \in Reached, g # current
        PROVE  Holds(files'[g], g, nEvt) /\ Closed(files'[g])
    <3>1. Holds(files[g], g, nEvt - 1) /\ Closed(files[g])
      BY <1>1, <1>2, <1>8, <2>2 DEF IInv, FilesFollow
    <3>2. {i \in 1..nEvt : GroupOf(EventSpills[i]) = g}
            = {i \in 1..(nEvt - 1) : GroupOf(EventSpills[i]) = g}
      BY <1>2, <2>2 DEF GroupAt
    <3>3. files'[g] = files[g]
      BY <1>6, <1>9, <2>2
    <3>4. QED
      BY <3>1, <3>2, <3>3 DEF Holds
  <2>3. QED
    BY <1>1, <1>2, <1>8, <1>9, <2>1, <2>2 DEF FilesFollow
<1>12. FirstTime'
  <2>1. attempts # 0
    BY <1>1 DEF IInv, FirstTime
  <2>2. ASSUME attempts <= 1, NEW g \in Groups
        PROVE  /\ files'[g] # NONE => g \in Reached \cup {current}
               /\ db.dst[g] # 0 => files'[g] # NONE
               /\ db.dst[g] = 2 => Closed(files'[g]) /\ g # current
    <3>1. /\ files[g] # NONE => g \in Reached \cup {current}
          /\ db.dst[g] # 0 => files[g] # NONE
          /\ db.dst[g] = 2 => Closed(files[g]) /\ g # current
      BY <1>1, <1>2, <2>2 DEF IInv, FirstTime
    <3>2. CASE g = current
      BY <1>5, <3>1, <3>2, NoneIsNoNumber
    <3>3. CASE g # current
      BY <1>6, <3>1, <3>3
    <3>4. QED
      BY <3>2, <3>3
  <2>3. QED
    BY <1>1, <1>2, <1>9, <2>1, <2>2 DEF FirstTime
<1>13. SpillsSeen'
  BY <1>1 DEF IInv, SpillsSeen, Beginning, Reporting
<1>14. errors' = 0 => DecoRow' /\ RunRow' /\ SpillRows'
  BY <1>1 DEF IInv, DecoRow, RunRow, SpillRows, Starting, Reporting, Beginning
<1>15. errors' = 0 /\ NoGroupLeftOut => StatusRows'
  <2>1. ASSUME errors = 0, NoGroupLeftOut PROVE StatusRows'
    <3>1. /\ \A g \in Reached : db.dst[g] = 2 \/ (g = outfilename /\ db.dst[g] # 0)
          /\ db.dst[current] # 0
      BY <1>1, <2>1 DEF IInv, StatusRows
    <3>2. QED
      BY <1>1, <1>2, <1>9, <3>1 DEF StatusRows, Opening
  <2>2. QED
    BY <1>1, <2>1
<1>16. QED
  BY <1>7, <1>10, <1>11, <1>12, <1>13, <1>14, <1>15 DEF IInv

-----------------------------------------------------------------------------
(* The theorems.                                                           *)

LEMMA InitIInv == Init => IInv
<1> SUFFICES ASSUME Init PROVE IInv
  OBVIOUS
<1>1. TypeOK
  <2>1. MAX_ATTEMPTS \in Nat /\ MAX_DB_ERRORS \in Nat /\ Len(EventSpills) \in Nat
    BY OutputAssumption
  <2>2. 0 \in 0..MAX_ATTEMPTS /\ 0 \in 0..MAX_DB_ERRORS /\ 0 \in 0..Len(EventSpills)
    BY <2>1
  <2>3. files \in [Groups -> DstFile \cup {NONE}] /\ SpillMap = {}
    BY DEF Init, SpillMap
  <2>4. db \in [deco  : {NONE, "STARTED", "UPDATED", "FINISHED"},
                dst   : [Groups -> 0..2],
                run   : {NONE} \cup 0..Len(EventSpills),
                spill : SUBSET Spills]
    <3>1. [g \in Groups |-> 0] \in [Groups -> 0..2]
      OBVIOUS
    <3>2. QED
      BY <3>1 DEF Init, NoRows
  <2>5. QED
    BY <2>2, <2>3, <2>4 DEF Init, TypeOK
<1>2. Written = 0 /\ Reached = {}
  <2>1. Written = 0
    BY DEF Init, Written, Handling, Beginning, Reporting, Uploading, Closing, Opening
  <2>2. QED
    BY <2>1 DEF Reached
<1>3. Place
  BY DEF Init, Place, Starting, Handling, Beginning, Reporting, Uploading, Closing, Opening, Ending
<1>4. FilesFollow /\ FirstTime /\ SpillsSeen
  BY DEF Init, NoRows, FilesFollow, FirstTime, SpillsSeen
<1>5. DecoRow /\ RunRow /\ SpillRows /\ StatusRows
  BY DEF Init, NoRows, DecoRow, RunRow, SpillRows, StatusRows, Starting, Reporting, Beginning
<1>6. QED
  BY <1>1, <1>3, <1>4, <1>5 DEF IInv

LEMMA StutterKeepsIInv == IInv /\ UNCHANGED vars => IInv'
<1> SUFFICES ASSUME IInv, UNCHANGED vars PROVE IInv'
  OBVIOUS
<1>1. Written' = Written /\ Reached' = Reached
  BY SameWritten DEF vars
<1>2. TypeOK' /\ Place' /\ FilesFollow' /\ FirstTime' /\ SpillsSeen'
  BY <1>1 DEF IInv, vars, TypeOK, Place, FilesFollow, FirstTime, SpillsSeen
<1>3. (errors' = 0 => DecoRow' /\ RunRow' /\ SpillRows')
      /\ (errors' = 0 /\ NoGroupLeftOut => StatusRows')
  BY <1>1 DEF IInv, vars, DecoRow, RunRow, SpillRows, StatusRows
<1>4. QED
  BY <1>2, <1>3 DEF IInv

(* Every reachable state of the decoder, the files and the tables          *)
(* satisfies IInv, after any crashes, restarts and failed statements.      *)
THEOREM Invariance == Spec => []IInv
<1>1. IInv /\ [Next]_vars => IInv'
  <2> SUFFICES ASSUME IInv, [Next]_vars PROVE IInv'
    OBVIOUS
  <2>1. CASE Start
    BY <2>1, StartKeepsIInv
  <2>2. CASE Crash
    BY <2>2, CrashKeepsIInv
  <2>3. CASE Terminated \/ UNCHANGED vars
    BY <2>3, StutterKeepsIInv DEF Terminated
  <2>4. CASE AtTheDatabase
    BY <2>4, AtTheDatabaseKeepsIInv
  <2>5. CASE NextEvent \/ SpillChanged \/ Write \/ OpenNew \/ Fill
    BY <2>5, NextEventKeepsIInv, SpillChangedKeepsIInv, WriteKeepsIInv, OpenNewKeepsIInv,
       FillKeepsIInv
  <2>6. CASE \/ CloseEvents("closeEvents", "writeRunTree")
             \/ CloseEvents("endClose", "endRunTree")
    BY <2>6, CloseEventsKeepsIInv
  <2>7. CASE \/ WriteRunTree("writeRunTree", "dstFinished")
             \/ WriteRunTree("endRunTree", IF current = NONE THEN "runFinished" ELSE "dstFinishedLast")
    BY <2>7, WriteRunTreeKeepsIInv
  <2>8. QED
    BY <2>1, <2>2, <2>3, <2>4, <2>5, <2>6, <2>7 DEF Next, Step, WriteNode, End, AtTheDatabase
<1>2. QED
  BY <1>1, InitIInv, PTL DEF Spec

(* Type correctness of process, files and tables, however a decoding ends. *)
THEOREM TypeCorrect == Spec => []TypeOK
<1>1. IInv => TypeOK
  BY DEF IInv
<1>2. QED
  BY <1>1, Invariance, PTL

(* While a run is decoded for the first time, a spill file of status 2 can *)
(* be read: its events are on the disk and its RUN tree knows their        *)
(* spills.  For any run, and whatever statements fail and wherever the     *)
(* decoder dies.                                                           *)
THEOREM StatusTwoIsFinishedCorrect == Spec => []StatusTwoIsFinished
<1>1. IInv => StatusTwoIsFinished
  BY DEF IInv, FirstTime, StatusTwoIsFinished
<1>2. QED
  BY <1>1, Invariance, PTL

LEMMA DeliveredIsReached ==
  ASSUME IInv, pc = "exited"
  PROVE  Written = nEvt /\ Delivered = Reached
<1>1. Written = nEvt
  BY DEF Written, Handling, Beginning, Reporting, Uploading, Closing, Opening
<1>2. QED
  BY <1>1 DEF Delivered, Reached, SpillMap, GroupAt

(* A run that the tables list as FINISHED has all its files complete,      *)
(* although earlier decodings may have died at any step.                   *)
THEOREM RunFinishedIsCompleteCorrect == Spec => []RunFinishedIsComplete
<1>1. IInv => RunFinishedIsComplete
  <2> SUFFICES ASSUME IInv, errors = 0, db.deco = "FINISHED", NEW g \in Delivered
               PROVE  Complete(g)
    BY DEF RunFinishedIsComplete
  <2>1. pc = "exited"
    <3>1. nEvt # 0
      BY DEF Delivered, SpillMap
    <3>2. QED
      BY <3>1 DEF IInv, DecoRow
  <2>2. Written = nEvt /\ g \in Reached
    BY <2>1, DeliveredIsReached
  <2>3. ~dstOut
    BY <2>1 DEF IInv, Place
  <2>4. QED
    BY <2>1, <2>2, <2>3 DEF IInv, FilesFollow, Complete
<1>2. QED
  BY <1>1, Invariance, PTL

(* When the decoder has come to its end, deco_status, run and spill tell   *)
(* of this decoding alone, whatever rows earlier ones have left.           *)
THEOREM RowsMatchCorrect == Spec => []RowsMatch
<1>1. IInv => RowsMatch
  BY DEF IInv, DecoRow, RunRow, SpillRows, RowsMatch, SpillMap, SpillsTo, Beginning, Reporting
<1>2. QED
  BY <1>1, Invariance, PTL

(* Files and tables agree when the decoder has come to its end, if the     *)
(* groups of consecutive events follow each other: run output_gap shows    *)
(* that a file keeps status 1 when a group is left out.                    *)
THEOREM TablesMatchFilesCorrect ==
  ASSUME NoGroupLeftOut
  PROVE  Spec => []TablesMatchFiles
<1>1. IInv => FinishedIsStatusTwo
  BY DeliveredIsReached DEF IInv, StatusRows, FinishedIsStatusTwo
<1>2. FinishedIsStatusTwo /\ RunFinishedIsComplete /\ RowsMatch => TablesMatchFiles
  BY DEF TablesMatchFiles
<1>3. QED
  BY <1>1, <1>2, Invariance, RunFinishedIsCompleteCorrect, RowsMatchCorrect, PTL
=============================================================================

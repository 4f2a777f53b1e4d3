------------------------- MODULE CodaReader_proofs --------------------------
(***************************************************************************)
(* Theorems about CodaReader, for every run, every layout of the events in *)
(* the blocks of the file and every bound on the waits.                    *)
(***************************************************************************)
EXTENDS CodaReader, TLAPS

(* The inductive invariant *)

\* Outside a call, and whenever the end of the file is met, the reader stands
\* right behind the events that it has returned; within a jump the events that
\* are still to be read lead there, and one further.
Counting ==
  /\ pc \in {"idle", "endFile", "nextRun", "wait", "evOpen"} => m_event_count = returned
  /\ pc = "evRead" => toRead > 0 /\ m_event_count + toRead = returned + 1
  /\ pc \in {"endFile", "nextRun"} => toRead = 1
  /\ pc \in {"wait", "evOpen"} => toRead = IF caller = "opening" THEN 0 ELSE 1
  /\ m_event_count > 0 => event_count = m_event_count - 1
  /\ returned > 0 => EndBlock[returned - 1] * BLOCK <= file

\* Where the caller is when the reader is where it is.
Calling ==
  /\ caller \in {"start", "ended"} => pc = "idle"
  /\ caller = "opening" => pc \in {"idle", "wait", "evOpen"}
  /\ caller \in {"start", "opening"} => returned = 0 /\ depth = 0 /\ ~m_go_end

\* Every event that was in the file at the size seenAt has been returned.
AllSeen == \A e \in CodaEvents : EndBlock[e] * BLOCK <= seenAt => e < returned

Seen ==
  /\ m_go_end => AllSeen
  /\ pc \in {"endFile", "nextRun"} => AllSeen
  /\ pc \in {"wait", "evOpen"} /\ caller = "reading" => AllSeen

\* A level of the recursion has been paid for with a block each.
Nesting ==
  /\ m_file_size <= file
  /\ pc = "idle" => depth = 0
  /\ caller = "reading" => depth * BLOCK + BLOCK <= m_file_size
  /\ caller = "opening" /\ pc \in {"wait", "evOpen"} => file_size_min = BLOCK
  /\ caller = "opening" /\ pc = "idle" /\ ok => BLOCK <= m_file_size
  /\ caller = "reading" /\ pc \in {"wait", "evOpen"} => depth * BLOCK + 2 * BLOCK <= file_size_min
  /\ pc = "evOpen" => file_size_min <= m_file_size

IInv == TypeOK /\ Counting /\ Calling /\ Seen /\ Nesting

-----------------------------------------------------------------------------
(* Lemmas about the file *)

\* The file has blocks, and no event ends behind the last one.
LEMMA FileFacts ==
  /\ NCodaEvents \in Nat \ {0}
  /\ CodaEvents = 0..(NCodaEvents - 1)
  /\ NBlocks \in Nat \ {0}
  /\ \A e \in CodaEvents : EndBlock[e] \in Nat \ {0}
  /\ \A d, e \in CodaEvents : d <= e => EndBlock[d] <= EndBlock[e]
  /\ N_WAIT \in Nat
  /\ BLOCK = 2
BY CodaAssumption DEF CodaEvents, NBlocks, BLOCK

\* evRead() fails only behind the last event that was returned.
LEMMA MissedBehind ==
  ASSUME IInv, pc = "evRead", ~OnDisk(m_event_count)
  PROVE  /\ m_event_count = returned
         /\ toRead = 1
         /\ \A e \in CodaEvents : EndBlock[e] * BLOCK <= file => e < returned
<1>1. /\ m_event_count \in Nat /\ returned \in 0..NCodaEvents /\ toRead \in Nat /\ file \in Nat
      /\ toRead > 0 /\ m_event_count + toRead = returned + 1
  BY DEF IInv, TypeOK, CodaTypeOK, Counting
<1>2. returned > 0 => returned - 1 \in CodaEvents /\ EndBlock[returned - 1] * BLOCK <= file
  BY <1>1, FileFacts DEF IInv, Counting
<1>3. ASSUME m_event_count < returned
      PROVE  FALSE
  <2>1. m_event_count \in CodaEvents /\ m_event_count <= returned - 1 /\ returned > 0
    BY <1>1, <1>3, FileFacts
  <2>2. EndBlock[m_event_count] <= EndBlock[returned - 1]
    BY <1>2, <2>1, FileFacts
  <2>3. EndBlock[m_event_count] * BLOCK <= file
    BY <1>1, <1>2, <2>1, <2>2, FileFacts
  <2> QED BY <2>1, <2>3 DEF OnDisk
<1>4. m_event_count = returned /\ toRead = 1
  BY <1>1, <1>3
<1>5. ASSUME NEW e \in CodaEvents, EndBlock[e] * BLOCK <= file, ~(e < returned)
      PROVE  FALSE
  <2>1. returned \in CodaEvents /\ returned <= e
    BY <1>1, <1>5, FileFacts
  <2>2. EndBlock[returned] <= EndBlock[e]
    BY <1>5, <2>1, FileFacts
  <2>3. EndBlock[returned] * BLOCK <= file
    BY <1>1, <1>5, <2>1, <2>2, FileFacts
  <2> QED BY <1>4, <2>1, <2>3 DEF OnDisk
<1> QED BY <1>4, <1>5
-----------------------------------------------------------------------------
(* The steps *)

\* A step is one of the actions or changes nothing.
LEMMA Cases ==
  ASSUME [Next]_vars,
         NEW P,
         DaqStep /\ UNCHANGED <<caller, history>> => P,
         ReaderStep => P,
         CallerStep => P,
         UNCHANGED vars => P
  PROVE  P
BY DEF Next, Terminated

\* The variables keep their types.
LEMMA TypeStep == IInv /\ [Next]_vars => TypeOK'
<1> SUFFICES ASSUME IInv, [Next]_vars
             PROVE  TypeOK'
  OBVIOUS
<1> USE FileFacts DEF BLOCK, IInv, TypeOK, CodaTypeOK, daqVars, waitVars, modeVars, codaVars, history
<1>1. CASE DaqStep /\ UNCHANGED <<caller, history>>
  <2>1. CASE DaqWrite
    <3>1. file' \in 0..(NBlocks * BLOCK)
      BY <2>1 DEF DaqWrite
    <3> QED BY <1>1, <2>1, <3>1 DEF DaqWrite
  <2>2. CASE DaqEnd
    BY <1>1, <2>2 DEF DaqEnd
  <2>3. CASE DaqDie
    BY <1>1, <2>3 DEF DaqDie
  <2>4. CASE DaqNextRun
    BY <1>1, <2>4 DEF DaqNextRun
  <2> QED BY <1>1, <2>1, <2>2, <2>3, <2>4 DEF DaqStep
<1>2. CASE ReaderStep
  <2>1. CASE WaitBigEnough
    BY <1>2, <2>1 DEF ReaderStep, WaitBigEnough
  <2>2. CASE WaitAndSleep
    BY <1>2, <2>2 DEF ReaderStep, WaitAndSleep
  <2>3. CASE WaitTimeout
    BY <1>2, <2>3 DEF ReaderStep, WaitTimeout
  <2>4. CASE EvOpen
    <3>1. CASE toRead = 0
      BY <1>2, <2>4, <3>1 DEF ReaderStep, EvOpen
    <3>2. CASE toRead # 0
      <4>1. toRead' = (toRead - 1) + (m_event_count + 1) /\ toRead' \in Nat
        BY <2>4, <3>2 DEF EvOpen
      <4>2. m_event_count' = 0 /\ pc' = "evRead" /\ depth' = depth + 1 /\ depth' \in Nat
        BY <1>2, <2>4, <3>2 DEF ReaderStep, EvOpen
      <4> QED BY <1>2, <2>4, <3>2, <4>1, <4>2 DEF ReaderStep, EvOpen
    <3> QED BY <3>1, <3>2
  <2>5. CASE EvRead
    <3>1. m_event_count \in CodaEvents /\ toRead > 0 /\ m_event_count + toRead = returned + 1
      BY <2>5 DEF EvRead, OnDisk, Counting
    <3>2. m_event_count' \in 0..NCodaEvents /\ event_count' \in CodaEvents /\ toRead' \in Nat
      BY <2>5, <3>1 DEF EvRead
    <3>3. returned' \in 0..NCodaEvents /\ seenAt' = seenAt /\ depth' \in Nat
      BY <1>2, <2>5, <3>1 DEF ReaderStep, EvRead
    <3>4. pc' \in {"idle", "evRead"} /\ ok' \in BOOLEAN
      BY <2>5 DEF EvRead
    <3> QED BY <1>2, <2>5, <3>2, <3>3, <3>4 DEF ReaderStep, EvRead
  <2>6. CASE EvReadFails
    BY <1>2, <2>6 DEF ReaderStep, EvReadFails
  <2>7. CASE BadEnd
    BY <1>2, <2>7 DEF ReaderStep, BadEnd, ForceEnd
  <2>8. CASE EndFileExists
    BY <1>2, <2>8 DEF ReaderStep, EndFileExists, ForceEnd
  <2>9. CASE NoEndFile
    BY <1>2, <2>9 DEF ReaderStep, NoEndFile
  <2>10. CASE NextRunFileExists
    BY <1>2, <2>10 DEF ReaderStep, NextRunFileExists, ForceEnd
  <2>11. CASE Reopen
    BY <1>2, <2>11 DEF ReaderStep, Reopen
  <2> QED BY <1>2, <2>1, <2>2, <2>3, <2>4, <2>5, <2>6, <2>7, <2>8, <2>9, <2>10, <2>11 DEF ReaderStep, CodaStep
<1>3. CASE CallerStep
  <2>1. CASE Open
    BY <2>1 DEF Open, OpenFile
  <2>2. CASE Opened
    BY <2>2 DEF Opened
  <2>3. CASE SetRunNumber
    BY <2>3 DEF SetRunNumber
  <2>4. CASE Call
    BY <2>4 DEF Call, JumpCodaEvent
  <2>5. CASE GiveUp
    BY <2>5 DEF GiveUp
  <2> QED BY <1>3, <2>1, <2>2, <2>3, <2>4, <2>5 DEF CallerStep
<1>4. CASE UNCHANGED vars
  BY <1>4 DEF vars
<1> QED BY <1>1, <1>2, <1>3, <1>4, Cases
-----------------------------------------------------------------------------

\* The count of the events stays right.
LEMMA CountingStep == IInv /\ [Next]_vars => Counting'
<1> SUFFICES ASSUME IInv, [Next]_vars
             PROVE  Counting'
  OBVIOUS
<1> USE FileFacts DEF Counting, Calling, BLOCK, IInv, TypeOK, CodaTypeOK, daqVars, waitVars, modeVars, codaVars, history
<1>1. CASE DaqStep /\ UNCHANGED <<caller, history>>
  <2>1. CASE DaqWrite
    BY <1>1, <2>1 DEF DaqWrite
  <2>2. CASE DaqEnd
    BY <1>1, <2>2 DEF DaqEnd
  <2>3. CASE DaqDie
    BY <1>1, <2>3 DEF DaqDie
  <2>4. CASE DaqNextRun
    BY <1>1, <2>4 DEF DaqNextRun
  <2> QED BY <1>1, <2>1, <2>2, <2>3, <2>4 DEF DaqStep
<1>2. CASE ReaderStep
  <2>1. CASE WaitBigEnough
    BY <1>2, <2>1 DEF ReaderStep, WaitBigEnough
  <2>2. CASE WaitAndSleep
    BY <1>2, <2>2 DEF ReaderStep, WaitAndSleep
  <2>3. CASE WaitTimeout
    BY <1>2, <2>3 DEF ReaderStep, WaitTimeout
  <2>4. CASE EvOpen
    BY <1>2, <2>4 DEF ReaderStep, EvOpen
  <2>5. CASE EvRead
    BY <1>2, <2>5 DEF ReaderStep, EvRead, OnDisk
  <2>6. CASE EvReadFails
    BY <1>2, <2>6, MissedBehind DEF ReaderStep, EvReadFails
  <2>7. CASE BadEnd
    BY <1>2, <2>7, MissedBehind DEF ReaderStep, BadEnd, ForceEnd
  <2>8. CASE EndFileExists
    BY <1>2, <2>8 DEF ReaderStep, EndFileExists, ForceEnd
  <2>9. CASE NoEndFile
    BY <1>2, <2>9 DEF ReaderStep, NoEndFile
  <2>10. CASE NextRunFileExists
    BY <1>2, <2>10 DEF ReaderStep, NextRunFileExists, ForceEnd
  <2>11. CASE Reopen
    BY <1>2, <2>11 DEF ReaderStep, Reopen
  <2> QED BY <1>2, <2>1, <2>2, <2>3, <2>4, <2>5, <2>6, <2>7, <2>8, <2>9, <2>10, <2>11 DEF ReaderStep, CodaStep
<1>3. CASE CallerStep
  <2>1. CASE Open
    BY <2>1 DEF Open, OpenFile
  <2>2. CASE Opened
    BY <2>2 DEF Opened
  <2>3. CASE SetRunNumber
    BY <2>3 DEF SetRunNumber
  <2>4. CASE Call
    BY <2>4 DEF Call, JumpCodaEvent
  <2>5. CASE GiveUp
    BY <2>5 DEF GiveUp
  <2> QED BY <1>3, <2>1, <2>2, <2>3, <2>4, <2>5 DEF CallerStep
<1>4. CASE UNCHANGED vars
  BY <1>4 DEF vars
<1> QED BY <1>1, <1>2, <1>3, <1>4, Cases

\* The caller waits while the reader works.
LEMMA CallingStep == IInv /\ [Next]_vars => Calling'
<1> SUFFICES ASSUME IInv, [Next]_vars
             PROVE  Calling'
  OBVIOUS
<1> USE FileFacts DEF Calling, Counting, IInv, TypeOK, CodaTypeOK, daqVars, waitVars, modeVars, codaVars, history
<1>1. CASE DaqStep /\ UNCHANGED <<caller, history>>
  <2>1. CASE DaqWrite
    BY <1>1, <2>1 DEF DaqWrite
  <2>2. CASE DaqEnd
    BY <1>1, <2>2 DEF DaqEnd
  <2>3. CASE DaqDie
    BY <1>1, <2>3 DEF DaqDie
  <2>4. CASE DaqNextRun
    BY <1>1, <2>4 DEF DaqNextRun
  <2> QED BY <1>1, <2>1, <2>2, <2>3, <2>4 DEF DaqStep
<1>2. CASE ReaderStep
  <2>1. CASE WaitBigEnough
    BY <1>2, <2>1 DEF ReaderStep, WaitBigEnough
  <2>2. CASE WaitAndSleep
    BY <1>2, <2>2 DEF ReaderStep, WaitAndSleep
  <2>3. CASE WaitTimeout
    BY <1>2, <2>3 DEF ReaderStep, WaitTimeout
  <2>4. CASE EvOpen
    BY <1>2, <2>4 DEF ReaderStep, EvOpen
  <2>5. CASE EvRead
    BY <1>2, <2>5 DEF ReaderStep, EvRead, OnDisk
  <2>6. CASE EvReadFails
    BY <1>2, <2>6, MissedBehind DEF ReaderStep, EvReadFails
  <2>7. CASE BadEnd
    BY <1>2, <2>7, MissedBehind DEF ReaderStep, BadEnd, ForceEnd
  <2>8. CASE EndFileExists
    BY <1>2, <2>8 DEF ReaderStep, EndFileExists, ForceEnd
  <2>9. CASE NoEndFile
    BY <1>2, <2>9 DEF ReaderStep, NoEndFile
  <2>10. CASE NextRunFileExists
    BY <1>2, <2>10 DEF ReaderStep, NextRunFileExists, ForceEnd
  <2>11. CASE Reopen
    BY <1>2, <2>11 DEF ReaderStep, Reopen
  <2> QED BY <1>2, <2>1, <2>2, <2>3, <2>4, <2>5, <2>6, <2>7, <2>8, <2>9, <2>10, <2>11 DEF ReaderStep, CodaStep
<1>3. CASE CallerStep
  <2>1. CASE Open
    BY <2>1 DEF Open, OpenFile
  <2>2. CASE Opened
    BY <2>2 DEF Opened
  <2>3. CASE SetRunNumber
    BY <2>3 DEF SetRunNumber
  <2>4. CASE Call
    BY <2>4 DEF Call, JumpCodaEvent
  <2>5. CASE GiveUp
    BY <2>5 DEF GiveUp
  <2> QED BY <1>3, <2>1, <2>2, <2>3, <2>4, <2>5 DEF CallerStep
<1>4. CASE UNCHANGED vars
  BY <1>4 DEF vars
<1> QED BY <1>1, <1>2, <1>3, <1>4, Cases

\* What was in the file is not given up.
LEMMA SeenStep == IInv /\ [Next]_vars => Seen'
<1> SUFFICES ASSUME IInv, [Next]_vars
             PROVE  Seen'
  OBVIOUS
<1> USE FileFacts DEF Seen, AllSeen, Counting, Calling, IInv, TypeOK, CodaTypeOK, daqVars, waitVars, modeVars, codaVars, history
<1>1. CASE DaqStep /\ UNCHANGED <<caller, history>>
  <2>1. CASE DaqWrite
    BY <1>1, <2>1 DEF DaqWrite
  <2>2. CASE DaqEnd
    BY <1>1, <2>2 DEF DaqEnd
  <2>3. CASE DaqDie
    BY <1>1, <2>3 DEF DaqDie
  <2>4. CASE DaqNextRun
    BY <1>1, <2>4 DEF DaqNextRun
  <2> QED BY <1>1, <2>1, <2>2, <2>3, <2>4 DEF DaqStep
<1>2. CASE ReaderStep
  <2>1. CASE WaitBigEnough
    BY <1>2, <2>1 DEF ReaderStep, WaitBigEnough
  <2>2. CASE WaitAndSleep
    BY <1>2, <2>2 DEF ReaderStep, WaitAndSleep
  <2>3. CASE WaitTimeout
    BY <1>2, <2>3 DEF ReaderStep, WaitTimeout
  <2>4. CASE EvOpen
    BY <1>2, <2>4 DEF ReaderStep, EvOpen
  <2>5. CASE EvRead
    BY <1>2, <2>5 DEF ReaderStep, EvRead, OnDisk
  <2>6. CASE EvReadFails
    BY <1>2, <2>6, MissedBehind DEF ReaderStep, EvReadFails
  <2>7. CASE BadEnd
    BY <1>2, <2>7, MissedBehind DEF ReaderStep, BadEnd, ForceEnd
  <2>8. CASE EndFileExists
    BY <1>2, <2>8 DEF ReaderStep, EndFileExists, ForceEnd
  <2>9. CASE NoEndFile
    BY <1>2, <2>9 DEF ReaderStep, NoEndFile
  <2>10. CASE NextRunFileExists
    BY <1>2, <2>10 DEF ReaderStep, NextRunFileExists, ForceEnd
  <2>11. CASE Reopen
    BY <1>2, <2>11 DEF ReaderStep, Reopen
  <2> QED BY <1>2, <2>1, <2>2, <2>3, <2>4, <2>5, <2>6, <2>7, <2>8, <2>9, <2>10, <2>11 DEF ReaderStep, CodaStep
<1>3. CASE CallerStep
  <2>1. CASE Open
    BY <2>1 DEF Open, OpenFile
  <2>2. CASE Opened
    BY <2>2 DEF Opened
  <2>3. CASE SetRunNumber
    BY <2>3 DEF SetRunNumber
  <2>4. CASE Call
    BY <2>4 DEF Call, JumpCodaEvent
  <2>5. CASE GiveUp
    BY <2>5 DEF GiveUp
  <2> QED BY <1>3, <2>1, <2>2, <2>3, <2>4, <2>5 DEF CallerStep
<1>4. CASE UNCHANGED vars
  BY <1>4 DEF vars
<1> QED BY <1>1, <1>2, <1>3, <1>4, Cases

\* Every level of the recursion costs a block.
LEMMA NestingStep == IInv /\ [Next]_vars => Nesting'
<1> SUFFICES ASSUME IInv, [Next]_vars
             PROVE  Nesting'
  OBVIOUS
<1> USE FileFacts DEF Nesting, Counting, Calling, BLOCK, IInv, TypeOK, CodaTypeOK, daqVars, waitVars, modeVars, codaVars, history
<1>1. CASE DaqStep /\ UNCHANGED <<caller, history>>
  <2>1. CASE DaqWrite
    BY <1>1, <2>1 DEF DaqWrite
  <2>2. CASE DaqEnd
    BY <1>1, <2>2 DEF DaqEnd
  <2>3. CASE DaqDie
    BY <1>1, <2>3 DEF DaqDie
  <2>4. CASE DaqNextRun
    BY <1>1, <2>4 DEF DaqNextRun
  <2> QED BY <1>1, <2>1, <2>2, <2>3, <2>4 DEF DaqStep
<1>2. CASE ReaderStep
  <2>1. CASE WaitBigEnough
    BY <1>2, <2>1 DEF ReaderStep, WaitBigEnough
  <2>2. CASE WaitAndSleep
    BY <1>2, <2>2 DEF ReaderStep, WaitAndSleep
  <2>3. CASE WaitTimeout
    BY <1>2, <2>3 DEF ReaderStep, WaitTimeout
  <2>4. CASE EvOpen
    BY <1>2, <2>4 DEF ReaderStep, EvOpen
  <2>5. CASE EvRead
    BY <1>2, <2>5 DEF ReaderStep, EvRead, OnDisk
  <2>6. CASE EvReadFails
    BY <1>2, <2>6, MissedBehind DEF ReaderStep, EvReadFails
  <2>7. CASE BadEnd
    BY <1>2, <2>7, MissedBehind DEF ReaderStep, BadEnd, ForceEnd
  <2>8. CASE EndFileExists
    BY <1>2, <2>8 DEF ReaderStep, EndFileExists, ForceEnd
  <2>9. CASE NoEndFile
    BY <1>2, <2>9 DEF ReaderStep, NoEndFile
  <2>10. CASE NextRunFileExists
    BY <1>2, <2>10 DEF ReaderStep, NextRunFileExists, ForceEnd
  <2>11. CASE Reopen
    BY <1>2, <2>11 DEF ReaderStep, Reopen
  <2> QED BY <1>2, <2>1, <2>2, <2>3, <2>4, <2>5, <2>6, <2>7, <2>8, <2>9, <2>10, <2>11 DEF ReaderStep, CodaStep
<1>3. CASE CallerStep
  <2>1. CASE Open
    BY <2>1 DEF Open, OpenFile
  <2>2. CASE Opened
    BY <2>2 DEF Opened
  <2>3. CASE SetRunNumber
    BY <2>3 DEF SetRunNumber
  <2>4. CASE Call
    BY <2>4 DEF Call, JumpCodaEvent
  <2>5. CASE GiveUp
    BY <2>5 DEF GiveUp
  <2> QED BY <1>3, <2>1, <2>2, <2>3, <2>4, <2>5 DEF CallerStep
<1>4. CASE UNCHANGED vars
  BY <1>4 DEF vars
<1> QED BY <1>1, <1>2, <1>3, <1>4, Cases

-----------------------------------------------------------------------------
(* The theorems *)

\* The invariant holds before the file is opened.
LEMMA InitIInv == Init => IInv
<1> SUFFICES ASSUME Init
             PROVE  IInv
  OBVIOUS
<1> USE FileFacts DEF Init, CodaInit
<1>1. TypeOK
  <2>1. 0 \in 0..(NBlocks * BLOCK) /\ 0 \in 0..NCodaEvents /\ 0 \in CodaEvents
    OBVIOUS
  <2> QED BY <2>1 DEF TypeOK, CodaTypeOK
<1>2. Counting /\ Calling /\ Seen /\ Nesting
  BY DEF Counting, Calling, Seen, Nesting
<1> QED BY <1>1, <1>2 DEF IInv

\* The reader keeps count of the events, of what was in the file and of its
\* nesting, for every run, every layout of the events in the blocks of the file
\* and every bound on the waits, whatever the DAQ does.
THEOREM Invariance == Spec => []IInv
<1>1. IInv /\ [Next]_vars => IInv'
  BY TypeStep, CountingStep, CallingStep, SeenStep, NestingStep DEF IInv
<1> QED BY InitIInv, <1>1, PTL DEF Spec

\* The variables of the reader and of its caller have their types.
THEOREM TypeCorrect == Spec => []TypeOK
<1>1. IInv => TypeOK
  BY DEF IInv
<1> QED BY Invariance, <1>1, PTL

\* However often NextCodaEvent opens the file anew, it returns the events in
\* their order, each of them once.
THEOREM InOrderCorrect == Spec => []InOrder
<1>1. IInv => InOrder
  BY DEF IInv, InOrder, Counting, TypeOK, CodaTypeOK
<1> QED BY Invariance, <1>1, PTL

\* No event is given up that was in the file when the reader last met the end
\* of it.
THEOREM LossBoundedCorrect == Spec => []LossBounded
<1>1. IInv => LossBounded
  BY DEF IInv, LossBounded, Seen, AllSeen
<1> QED BY Invariance, <1>1, PTL

\* The mutual recursion of NextCodaEvent and JumpCodaEvent is never deeper than
\* the file has blocks.
THEOREM RecursionBoundedCorrect == Spec => []RecursionBounded
<1>1. IInv => RecursionBounded
  <2> SUFFICES ASSUME IInv
               PROVE  RecursionBounded
    OBVIOUS
  <2>1. depth \in Nat /\ m_file_size \in 0..(NBlocks * 2)
    BY DEF IInv, TypeOK, CodaTypeOK, BLOCK
  <2>2. CASE caller = "reading"
    <3>1. depth * 2 + 2 <= m_file_size
      BY <2>2 DEF IInv, Nesting, BLOCK
    <3> QED BY <2>1, <3>1, FileFacts DEF RecursionBounded, BLOCK
  <2>3. CASE caller # "reading"
    <3>1. depth = 0
      BY <2>3 DEF IInv, TypeOK, Calling, Nesting
    <3> QED BY <2>1, <3>1, FileFacts DEF RecursionBounded, BLOCK
  <2> QED BY <2>2, <2>3
<1> QED BY Invariance, <1>1, PTL

=============================================================================

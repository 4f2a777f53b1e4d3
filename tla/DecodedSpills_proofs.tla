------------------------ MODULE DecodedSpills_proofs ------------------------
(***************************************************************************)
(* Theorems about the decoder, for every file, every growth of it and      *)
(* every choice of the blank events.  The decoder may meet a blank event,  *)
(* open the file anew and go back by one event, or fail to open it and     *)
(* skip the blank event; the invariant says where the reader can stand     *)
(* relative to what the parser has processed, and what the records of the  *)
(* spills are made of.                                                     *)
(***************************************************************************)
EXTENDS DecodedSpills, SetLemmas

(* The inductive invariant *)

\* The next event is number p.  All events before it are processed, or they are
\* blank ones that were skipped; or it is the one before a blank event, which is
\* processed again.
Standing(p) ==
  /\ p + 1 >= processed
  /\ p + 1 = processed => ~IsBlank(p) /\ p + 1 \in Blanks
  /\ \A e \in processed..(p - 1) : e \in Blanks
  /\ retries = 0 => p = processed
  /\ spillID_local <= Spills(p) + retries

\* Blank event c has been met, and the file is opened anew.
Meeting(c) ==
  /\ c \in Blanks
  /\ c >= processed
  /\ \A e \in processed..(c - 1) : e \in Blanks
  /\ retries > 0
  /\ spillID_local + 1 <= Spills(c) + retries

\* What the call in progress does for its caller.
Calling ==
  /\ stage \in {"start", "parsing", "handing", "ended"} => pc = "idle"
  /\ stage \in {"opening", "reopening"} => pc \in {"idle", "wait", "evOpen"} /\ (pc # "idle" => toRead = 0)
  /\ stage \in {"reading", "jumping"} /\ pc # "idle" => toRead > 0
  /\ stage \in {"start", "opening"} => m_event_count = 0 /\ retries = 0 /\ spillID_local = 0 /\ processed = 0
  /\ stage = "jumping" /\ pc = "idle" /\ ~ok => m_go_end
  /\ stage = "reading" /\ pc = "idle" /\ ok => m_event_count = event_count + 1
  /\ stage = "reopening" => m_event_count = IF pc = "idle" /\ ok THEN 0 ELSE event_count + 1

Position ==
  /\ stage \in {"parsing", "handing"} /\ ~m_go_end => Standing(m_event_count)
  /\ stage = "reading" /\ pc # "idle" => Standing((m_event_count + toRead) - 1)
  /\ stage = "reading" /\ pc = "idle" /\ ok => Standing(event_count)
  /\ stage = "reopening" => Meeting(event_count)
  /\ stage = "jumping" /\ pc # "idle" =>
       m_event_count + toRead > NCodaEvents \/ Standing(m_event_count + toRead)
  /\ stage = "jumping" /\ pc = "idle" /\ ok => Standing(m_event_count)
  /\ processed > 0 => ~IsBlank(processed - 1)

\* The events of the spill that is read, and of the one that is handed out.
Buffers ==
  /\ spillID = spillID_local
  /\ \A id \in DOMAIN list_ed : list_ed[id].spillID = spillID
  /\ stage # "handing" => DOMAIN list_ed_now = {}
  /\ stage = "handing" =>
       /\ \A id \in DOMAIN list_ed_now : list_ed_now[id].spillID = sd_now
       /\ processed > 0 /\ CodaFile[processed - 1].type = "bos"
       /\ spillID = sd_now + 1
       /\ sd_now \in DOMAIN list_sd

\* The record of spill k has the BOS and EOS events of spill k that are processed.
Records ==
  retries = 0 \/ Harmless =>
    /\ spillID = Spills(processed)
    /\ \A k \in 0..UINT_MAX :
         /\ At(list_sd, k, NoRecord).bos = {b \in Of("bos") : b < processed /\ SpillOf[b] = k}
         /\ At(list_sd, k, NoRecord).eos = {e \in Of("eos") : e < processed /\ SpillOf[e] = k}

IInv == TypeOK /\ Calling /\ Position /\ Buffers /\ Records

-----------------------------------------------------------------------------
(* Lemmas about the file *)

\* The file has blocks and events, and its numbers are in their ranges.
LEMMA FileFacts ==
  /\ NCodaEvents \in Nat \ {0}
  /\ CodaEvents = 0..(NCodaEvents - 1)
  /\ NBlocks \in Nat \ {0}
  /\ \A e \in CodaEvents : EndBlock[e] \in Nat \ {0}
  /\ N_WAIT \in Nat
  /\ BLOCK = 2
  /\ Blanks \subseteq CodaEvents
  /\ MAX_RETRIES \in Nat
  /\ UINT_MAX \in Nat /\ UINT_MAX > NCodaEvents + MAX_RETRIES
BY CodaAssumption, ParserAssumption DEF CodaEvents, NBlocks, BLOCK

\* An event has a type, IDs of physics events and spill numbers in their range.
LEMMA EventFacts ==
  ASSUME NEW c \in CodaEvents
  PROVE  /\ CodaFile[c].type \in Types
         /\ CodaFile[c].ids \subseteq EventIDs
         /\ CodaFile[c].spillcount \subseteq 0..(UINT_MAX - 1)
<1>1. CodaFile[c] \in Written
  BY ParserAssumption
<1>2. CodaFile[c].ids \subseteq EventIDs
  BY DEF EventIDs
<1> QED BY <1>1, <1>2 DEF Written

\* There are finitely many BOS events.
LEMMA BosFinite ==
  /\ IsFiniteSet(Of("bos"))
  /\ Cardinality(Of("bos")) \in 0..NCodaEvents
<1>1. NCodaEvents - 1 \in Int
  BY FileFacts
<1>2. IsFiniteSet(0..(NCodaEvents - 1)) /\ Cardinality(0..(NCodaEvents - 1)) = NCodaEvents
  BY <1>1, FileFacts, FS_Interval
<1>3. Of("bos") \subseteq 0..(NCodaEvents - 1)
  BY FileFacts DEF Of
<1>4. IsFiniteSet(Of("bos")) /\ Cardinality(Of("bos")) <= NCodaEvents
  BY <1>2, <1>3, FS_Subset
<1> QED BY <1>4, FS_CardinalityType, FileFacts

\* The number of spills grows along the file.
LEMMA SpillsMonotone ==
  ASSUME NEW m \in Int, NEW n \in Int, m <= n
  PROVE  /\ Spills(m) \in Nat /\ Spills(n) \in Nat
         /\ Spills(m) <= Spills(n)
         /\ Spills(n) <= NCodaEvents
<1> DEFINE Bos(k) == {b \in Of("bos") : b < k}
<1>1. \A b \in Of("bos") : b \in Nat
  BY FileFacts DEF Of
<1>2. Bos(n) \subseteq Of("bos") /\ Bos(m) \subseteq Bos(n)
  BY <1>1
<1>3. IsFiniteSet(Bos(n)) /\ Cardinality(Bos(n)) <= Cardinality(Of("bos"))
  BY <1>2, BosFinite, FS_Subset
<1>4. IsFiniteSet(Bos(m)) /\ Cardinality(Bos(m)) <= Cardinality(Bos(n))
  BY <1>2, <1>3, FS_Subset
<1>5. Cardinality(Bos(n)) \in Nat /\ Cardinality(Bos(m)) \in Nat
  BY <1>3, <1>4, FS_CardinalityType
<1> QED BY <1>3, <1>4, <1>5, BosFinite, FileFacts DEF Spills

\* A BOS event begins a spill, and nothing else does.
LEMMA SpillsNext ==
  ASSUME NEW c \in CodaEvents
  PROVE  Spills(c + 1) = Spills(c) + (IF CodaFile[c].type = "bos" THEN 1 ELSE 0)
<1> DEFINE Bos(k) == {b \in Of("bos") : b < k}
<1>0. c \in Nat /\ \A b \in Of("bos") : b \in Nat
  BY FileFacts DEF Of
<1>1. IsFiniteSet(Bos(c)) /\ Cardinality(Bos(c)) \in Nat
  <2>1. Bos(c) \subseteq Of("bos")
    OBVIOUS
  <2>2. IsFiniteSet(Bos(c))
    BY <2>1, BosFinite, FS_Subset
  <2> QED BY <2>2, FS_CardinalityType
<1>2. CASE CodaFile[c].type = "bos"
  <2>1. c \in Of("bos") /\ c \notin Bos(c)
    BY <1>0, <1>2 DEF Of
  <2>2. Bos(c + 1) = Bos(c) \cup {c}
    <3>1. \A b \in Of("bos") : b < c + 1 <=> b < c \/ b = c
      BY <1>0
    <3> QED BY <2>1, <3>1
  <2>3. Cardinality(Bos(c) \cup {c}) = Cardinality(Bos(c)) + 1
    BY <1>1, <2>1, FS_AddElement
  <2> QED BY <1>2, <2>2, <2>3 DEF Spills
<1>3. CASE CodaFile[c].type # "bos"
  <2>1. c \notin Of("bos")
    BY <1>3 DEF Of
  <2>2. Bos(c + 1) = Bos(c)
    BY <1>0, <2>1
  <2> QED BY <1>1, <1>3, <2>2 DEF Spills
<1> QED BY <1>2, <1>3

\* The spill of an event, by the count of the BOS events up to it.
LEMMA SpillOfIs ==
  ASSUME NEW c \in CodaEvents
  PROVE  SpillOf[c] = Spills(c + 1)
BY DEF SpillOf

\* No spill begins within events that have no BOS.
LEMMA SpillsSame ==
  ASSUME NEW m \in Nat, NEW n \in Nat, m <= n,
         \A b \in Of("bos") : ~(m <= b /\ b < n)
  PROVE  Spills(m) = Spills(n)
<1>1. \A b \in Of("bos") : b \in Nat
  BY FileFacts DEF Of
<1>2. {b \in Of("bos") : b < m} = {b \in Of("bos") : b < n}
  BY <1>1
<1> QED BY <1>2 DEF Spills

-----------------------------------------------------------------------------
(* Where the reader stands *)

\* What the calls of the reader leave alone.
LEMMA ReaderFrame ==
  ASSUME CodaStep
  PROVE  /\ UNCHANGED <<daqVars, modeVars>>
         /\ pc # "idle"
BY DEF CodaStep, WaitBigEnough, WaitAndSleep, WaitTimeout, EvOpen, EvRead, EvReadFails, BadEnd,
       EndFileExists, NoEndFile, NextRunFileExists, Reopen, ForceEnd, daqVars, waitVars, modeVars

\* The types of the reader's variables are kept by a step of the reader.
LEMMA ReaderTypes ==
  ASSUME CodaTypeOK, CodaStep, pc = "evRead" => toRead > 0
  PROVE  CodaTypeOK'
<1> USE FileFacts DEF CodaTypeOK, daqVars, waitVars, modeVars
<1>1. CASE WaitBigEnough
  BY <1>1 DEF WaitBigEnough
<1>2. CASE WaitAndSleep
  BY <1>2 DEF WaitAndSleep
<1>3. CASE WaitTimeout
  BY <1>3 DEF WaitTimeout
<1>4. CASE EvOpen
  <2>1. toRead' \in Nat /\ m_event_count' = 0
    BY <1>4 DEF EvOpen
  <2>2. pc' \in {"idle", "evRead"} /\ ok' \in BOOLEAN
    BY <1>4 DEF EvOpen
  <2> QED BY <1>4, <2>1, <2>2 DEF EvOpen
<1>5. CASE EvRead
  <2>1. m_event_count \in CodaEvents /\ toRead > 0
    BY <1>5 DEF EvRead, OnDisk
  <2>2. m_event_count' \in 0..NCodaEvents /\ event_count' \in CodaEvents /\ toRead' \in Nat
    BY <1>5, <2>1 DEF EvRead
  <2>3. pc' \in {"idle", "evRead"} /\ ok' \in BOOLEAN
    BY <1>5 DEF EvRead
  <2> QED BY <1>5, <2>2, <2>3 DEF EvRead
<1>6. CASE EvReadFails
  BY <1>6 DEF EvReadFails
<1>7. CASE BadEnd
  BY <1>7 DEF BadEnd, ForceEnd
<1>8. CASE EndFileExists
  BY <1>8 DEF EndFileExists, ForceEnd
<1>9. CASE NoEndFile
  BY <1>9 DEF NoEndFile
<1>10. CASE NextRunFileExists
  BY <1>10 DEF NextRunFileExists, ForceEnd
<1>11. CASE Reopen
  BY <1>11 DEF Reopen
<1> QED BY <1>1, <1>2, <1>3, <1>4, <1>5, <1>6, <1>7, <1>8, <1>9, <1>10, <1>11 DEF CodaStep

\* The types of the reader's variables are kept by the DAQ.
LEMMA DaqTypes ==
  ASSUME CodaTypeOK, DaqStep
  PROVE  CodaTypeOK'
<1> USE FileFacts DEF CodaTypeOK, codaVars
<1>1. CASE DaqWrite
  <2>1. file' \in 0..(NBlocks * BLOCK)
    BY <1>1 DEF DaqWrite
  <2> QED BY <1>1, <2>1 DEF DaqWrite
<1>2. CASE DaqEnd
  BY <1>2 DEF DaqEnd
<1>3. CASE DaqDie
  BY <1>3 DEF DaqDie
<1>4. CASE DaqNextRun
  BY <1>4 DEF DaqNextRun
<1> QED BY <1>1, <1>2, <1>3, <1>4 DEF DaqStep

\* A call that is in progress goes on, with the same aim, or it ends: with the
\* event that it aims at, or without one.
LEMMA ReaderStepIs ==
  ASSUME CodaTypeOK, CodaStep, pc \in {"evRead", "endFile", "nextRun"} => toRead > 0
  PROVE  \/ /\ pc' # "idle" /\ m_event_count' + toRead' = m_event_count + toRead
            /\ toRead > 0 => toRead' > 0
            /\ toRead = 0 => toRead' = 0 /\ pc' \in {"wait", "evOpen"} /\ UNCHANGED <<m_event_count, event_count, ok, m_go_end>>
         \/ /\ pc' = "idle" /\ toRead > 0 /\ ok'
            /\ m_event_count' = m_event_count + toRead /\ event_count' = m_event_count' - 1
         \/ /\ pc' = "idle" /\ toRead > 0 /\ ~ok' /\ m_go_end'
         \/ /\ pc' = "idle" /\ toRead = 0 /\ ok' /\ m_event_count' = 0 /\ UNCHANGED <<event_count, m_go_end>>
         \/ /\ pc' = "idle" /\ toRead = 0 /\ ~ok' /\ UNCHANGED <<m_event_count, event_count, m_go_end>>
<1> USE FileFacts DEF CodaTypeOK, daqVars, waitVars, modeVars
<1>1. CASE WaitBigEnough
  BY <1>1 DEF WaitBigEnough
<1>2. CASE WaitAndSleep
  BY <1>2 DEF WaitAndSleep
<1>3. CASE WaitTimeout
  <2>1. m_go_end \in BOOLEAN /\ (m_go_end' = (m_go_end \/ toRead > 0))
    BY <1>3 DEF WaitTimeout
  <2>2. (toRead > 0 => m_go_end') /\ (~(toRead > 0) => UNCHANGED m_go_end)
    BY <2>1, Zenon
  <2> QED BY <1>3, <2>2 DEF WaitTimeout
<1>4. CASE EvOpen
  BY <1>4 DEF EvOpen
<1>5. CASE EvRead
  BY <1>5 DEF EvRead, OnDisk
<1>6. CASE EvReadFails
  BY <1>6 DEF EvReadFails
<1>7. CASE BadEnd
  BY <1>7 DEF BadEnd, ForceEnd
<1>8. CASE EndFileExists
  BY <1>8 DEF EndFileExists, ForceEnd
<1>9. CASE NoEndFile
  BY <1>9 DEF NoEndFile
<1>10. CASE NextRunFileExists
  BY <1>10 DEF NextRunFileExists, ForceEnd
<1>11. CASE Reopen
  BY <1>11 DEF Reopen
<1> QED BY <1>1, <1>2, <1>3, <1>4, <1>5, <1>6, <1>7, <1>8, <1>9, <1>10, <1>11 DEF CodaStep

\* The reader keeps its aim, so that it returns the event that is next.
LEMMA ReaderPosition ==
  ASSUME TypeOK, Calling, Position, ReaderStep
  PROVE  Calling' /\ Position'
<1>0. /\ CodaTypeOK /\ CodaStep /\ pc # "idle"
      /\ UNCHANGED <<stage, filled, retries, processed, spillID_local>>
      /\ CodaTypeOK'
  <2>1. CodaTypeOK /\ CodaStep /\ UNCHANGED <<stage, filled, retries, processed, spillID_local>>
    BY DEF TypeOK, ReaderStep, blankVars, parserVars
  <2>2. pc # "idle"
    BY <2>1, ReaderFrame
  <2>3. pc = "evRead" => toRead > 0
    BY DEF Calling, TypeOK
  <2> QED BY <2>1, <2>2, <2>3, ReaderTypes
<1>1. stage \in {"opening", "reopening", "reading", "jumping"}
  BY <1>0 DEF Calling, TypeOK
<1>2. pc \in {"evRead", "endFile", "nextRun"} => toRead > 0
  BY <1>0, <1>1 DEF Calling
<1>3. \A p : Standing(p) => Standing(p)'
  BY <1>0 DEF Standing, IsBlank
<1> HIDE DEF Standing
<1>4. /\ m_event_count \in Nat /\ toRead \in Nat /\ m_event_count' \in Nat /\ toRead' \in Nat
      /\ event_count' \in Nat /\ m_event_count' <= NCodaEvents
  BY <1>0, FileFacts DEF CodaTypeOK
<1>5. processed' > 0 => ~IsBlank(processed - 1)'
  BY <1>0 DEF Position, IsBlank
<1>10. ASSUME toRead > 0
       PROVE  \/ pc' # "idle" /\ toRead' > 0 /\ m_event_count' + toRead' = m_event_count + toRead
              \/ /\ pc' = "idle" /\ (ok' = TRUE) /\ m_event_count' = m_event_count + toRead
                 /\ event_count' = m_event_count' - 1
              \/ pc' = "idle" /\ (ok' = FALSE) /\ (m_go_end' = TRUE)
  <2>1. ok' \in BOOLEAN /\ m_go_end' \in BOOLEAN
    BY <1>0 DEF CodaTypeOK
  <2>2. ~(toRead = 0)
    BY <1>4, <1>10
  <2> QED BY <1>0, <1>2, <1>10, <2>1, <2>2, ReaderStepIs
<1>6. CASE stage = "opening"
  <2>1. toRead = 0
    BY <1>0, <1>6 DEF Calling
  <2>2. m_event_count' = 0 /\ pc' \in {"idle", "wait", "evOpen"} /\ (pc' # "idle" => toRead' = 0)
    BY <1>0, <1>2, <1>6, <2>1, ReaderStepIs DEF Calling
  <2> QED BY <1>0, <1>5, <1>6, <2>2 DEF Calling, Position
<1>7. CASE stage = "reopening"
  <2>1. toRead = 0 /\ m_event_count = event_count + 1
    BY <1>0, <1>7 DEF Calling
  <2>2. /\ pc' \in {"idle", "wait", "evOpen"} /\ (pc' # "idle" => toRead' = 0)
        /\ event_count' = event_count
        /\ m_event_count' = IF pc' = "idle" /\ ok' THEN 0 ELSE event_count + 1
    BY <1>0, <1>2, <2>1, ReaderStepIs
  <2>3. Meeting(event_count)'
    BY <1>0, <1>7, <2>2 DEF Position, Meeting
  <2> QED BY <1>0, <1>5, <1>7, <2>2, <2>3 DEF Calling, Position
<1>8. CASE stage = "reading"
  <2>1. toRead > 0 /\ Standing((m_event_count + toRead) - 1)
    BY <1>0, <1>8 DEF Calling, Position
  <2>2. \/ pc' # "idle" /\ toRead' > 0 /\ (m_event_count' + toRead') - 1 = (m_event_count + toRead) - 1
        \/ pc' = "idle" /\ ok' /\ m_event_count' = event_count' + 1 /\ event_count' = (m_event_count + toRead) - 1
        \/ pc' = "idle" /\ ~ok'
    <3>1. CASE pc' # "idle" /\ toRead' > 0 /\ m_event_count' + toRead' = m_event_count + toRead
      <4>1. (m_event_count' + toRead') - 1 = (m_event_count + toRead) - 1
        BY <1>4, <3>1
      <4> QED BY <3>1, <4>1
    <3>2. CASE /\ pc' = "idle" /\ (ok' = TRUE) /\ m_event_count' = m_event_count + toRead
               /\ event_count' = m_event_count' - 1
      BY <1>4, <3>2
    <3>3. CASE pc' = "idle" /\ (ok' = FALSE) /\ (m_go_end' = TRUE)
      BY <3>3
    <3> QED BY <1>10, <2>1, <3>1, <3>2, <3>3
  <2>3. Calling'
    BY <1>0, <1>8, <2>2 DEF Calling
  <2>4. pc' # "idle" => Standing((m_event_count + toRead) - 1)'
    <3>1. ASSUME pc' # "idle"
          PROVE  (m_event_count' + toRead') - 1 = (m_event_count + toRead) - 1
      BY <2>2, <3>1
    <3> QED BY <1>3, <2>1, <3>1, <1>0 DEF Standing, IsBlank
  <2>5. pc' = "idle" /\ ok' => Standing(event_count)'
    <3>1. ASSUME pc' = "idle", ok'
          PROVE  event_count' = (m_event_count + toRead) - 1
      BY <2>2, <3>1
    <3> QED BY <1>3, <2>1, <3>1, <1>0 DEF Standing, IsBlank
  <2> QED BY <1>0, <1>5, <1>8, <2>3, <2>4, <2>5 DEF Position
<1>9. CASE stage = "jumping"
  <2>1. toRead > 0 /\ (m_event_count + toRead > NCodaEvents \/ Standing(m_event_count + toRead))
    BY <1>0, <1>9 DEF Calling, Position
  <2>2. \/ pc' # "idle" /\ toRead' > 0 /\ m_event_count' + toRead' = m_event_count + toRead
        \/ pc' = "idle" /\ ok' /\ m_event_count' = m_event_count + toRead
        \/ pc' = "idle" /\ ~ok' /\ m_go_end'
    BY <1>4, <1>10, <2>1
  <2>3. Calling'
    BY <1>0, <1>9, <2>2 DEF Calling
  <2>4. pc' # "idle" => m_event_count' + toRead' > NCodaEvents \/ Standing(m_event_count + toRead)'
    <3>1. ASSUME pc' # "idle"
          PROVE  m_event_count' + toRead' = m_event_count + toRead
      BY <2>2, <3>1
    <3> QED BY <1>3, <2>1, <3>1, <1>0 DEF Standing, IsBlank
  <2>5. pc' = "idle" /\ ok' => Standing(m_event_count)'
    <3>1. ASSUME pc' = "idle", ok'
          PROVE  m_event_count' = m_event_count + toRead /\ ~(m_event_count' > NCodaEvents)
      BY <1>4, <2>2, <3>1, FileFacts
    <3> QED BY <1>3, <2>1, <3>1, <1>0, FileFacts DEF Standing, IsBlank
  <2> QED BY <1>0, <1>5, <1>9, <2>3, <2>4, <2>5 DEF Position
<1> QED BY <1>1, <1>6, <1>7, <1>8, <1>9

\* The event that is handled is the next one, and the reader then stands behind it.
LEMMA HandledPosition ==
  ASSUME TypeOK, Calling, Position,
         stage = "reading", pc = "idle", ok, ~IsBlank(event_count),
         processed' = event_count + 1, stage' \in {"parsing", "handing"},
         pc' = "idle", UNCHANGED <<filled, retries, m_event_count>>,
         spillID_local' = spillID_local + (IF CodaFile[event_count].type = "bos" THEN 1 ELSE 0)
  PROVE  Calling' /\ Position'
<1>0. /\ event_count \in CodaEvents /\ event_count \in Nat
      /\ retries \in Nat /\ spillID_local \in Nat
  BY FileFacts DEF TypeOK, CodaTypeOK, SpillIDs
<1>1. m_event_count = event_count + 1 /\ Standing(event_count)
  BY DEF Calling, Position
<1>2. spillID_local' <= Spills(event_count + 1) + retries
  <2>1. spillID_local <= Spills(event_count) + retries
    BY <1>1 DEF Standing
  <2>2. Spills(event_count) \in Nat
    BY <1>0, SpillsMonotone
  <2> QED BY <1>0, <2>1, <2>2, SpillsNext
<1>3. Standing(m_event_count)'
  BY <1>0, <1>1, <1>2 DEF Standing, Spills, Of
<1>4. ~IsBlank(processed - 1)'
  BY <1>0 DEF IsBlank
<1> QED BY <1>3, <1>4 DEF Calling, Position

\* Where the reader can stand does not depend on which blank events are filled.
LEMMA PositionKept ==
  ASSUME Calling, Position, filled \subseteq filled',
         UNCHANGED <<pc, m_go_end, m_event_count, toRead, event_count, ok, stage, retries,
                     processed, spillID_local>>
  PROVE  Calling' /\ Position'
<1>1. \A p : ~IsBlank(p) => ~IsBlank(p)'
  BY DEF IsBlank
<1>2. \A p : Standing(p) => Standing(p)'
  BY <1>1 DEF Standing
<1>3. \A p : Meeting(p) => Meeting(p)'
  BY DEF Meeting
<1> HIDE DEF Standing, Meeting, IsBlank
<1>4. Calling'
  BY DEF Calling
<1>5. /\ Standing(m_event_count) => Standing(m_event_count)'
      /\ Standing((m_event_count + toRead) - 1) => Standing((m_event_count + toRead) - 1)'
      /\ Standing(m_event_count + toRead) => Standing(m_event_count + toRead)'
      /\ Standing(event_count) => Standing(event_count)'
      /\ Meeting(event_count) => Meeting(event_count)'
  BY DEF Standing, Meeting, IsBlank
<1>6. ~IsBlank(processed - 1) => ~IsBlank(processed - 1)'
  BY DEF IsBlank
<1> QED BY <1>4, <1>5, <1>6 DEF Position

\* NextPhysicsEvent and ParseOneSpill, without the handlers, keep track of the reader.
LEMMA ParserPosition ==
  ASSUME TypeOK, Calling, Position,
         \/ OpenCodaFile \/ Opened \/ NextCodaEvent \/ NoCodaEvent
         \/ Blank \/ JumpBack \/ Retried \/ HandOut \/ ParseNext
  PROVE  Calling' /\ Position'
<1> USE DEF parserVars, blankVars
<1>0. /\ m_event_count \in Nat /\ m_event_count <= NCodaEvents /\ toRead \in Nat
      /\ event_count \in CodaEvents /\ event_count \in Nat /\ ok \in BOOLEAN
      /\ processed \in Nat /\ retries \in Nat /\ spillID_local \in Nat
  BY FileFacts DEF TypeOK, CodaTypeOK, SpillIDs
<1>a. UNCHANGED <<filled, processed>> => (processed > 0 => ~IsBlank(processed - 1))'
  BY DEF Position, IsBlank
<1>1. CASE OpenCodaFile
  <2>1. /\ stage = "start" /\ pc' = "wait" /\ toRead' = 0 /\ stage' = "opening"
        /\ UNCHANGED <<m_event_count, retries, spillID_local, processed, filled>>
    BY <1>1 DEF OpenCodaFile, OpenFile
  <2> QED BY <1>a, <2>1 DEF Calling, Position
<1>2. CASE Opened
  <2>1. /\ stage = "opening" /\ pc = "idle" /\ pc' = "idle" /\ stage' \in {"parsing", "ended"}
        /\ UNCHANGED <<m_event_count, retries, spillID_local, processed, filled>>
    BY <1>2 DEF Opened, codaVars
  <2>2. m_event_count' = 0 /\ retries' = 0 /\ spillID_local' = 0 /\ processed' = 0
    BY <2>1 DEF Calling
  <2>3. Standing(m_event_count)'
    <3>1. Cardinality({b \in Of("bos") : b < 0}) \in Nat
      BY SpillsMonotone DEF Spills
    <3> QED BY <2>2, <3>1 DEF Standing, Spills, Of
  <2> QED BY <1>a, <2>1, <2>3 DEF Calling, Position
<1>3. CASE NextCodaEvent
  <2>1. /\ stage = "parsing" /\ stage' = "reading" /\ toRead' = 1
        /\ \/ pc' = "evRead" /\ ~m_go_end
           \/ pc' = "idle" /\ ~ok' /\ m_go_end
        /\ UNCHANGED <<m_event_count, m_go_end, retries, spillID_local, processed, filled>>
    <3>1. /\ stage = "parsing" /\ stage' = "reading" /\ toRead' = 1
          /\ UNCHANGED <<m_event_count, m_go_end, retries, spillID_local, processed, filled>>
      BY <1>3 DEF NextCodaEvent, JumpCodaEvent
    <3>2. CASE m_go_end
      <4>1. pc' = "idle" /\ (ok' = (1 = 0))
        BY <1>3, <3>2 DEF NextCodaEvent, JumpCodaEvent
      <4>2. ~(1 = 0)
        OBVIOUS
      <4>3. ~ok'
        BY <4>1, <4>2, Zenon
      <4> QED BY <3>1, <3>2, <4>1, <4>3
    <3>3. CASE ~m_go_end
      BY <1>3, <3>1, <3>3 DEF NextCodaEvent, JumpCodaEvent
    <3> QED BY <3>2, <3>3
  <2>2. ~m_go_end => Standing((m_event_count + toRead) - 1)'
    <3>1. (m_event_count + 1) - 1 = m_event_count
      BY <1>0
    <3>2. ~m_go_end => Standing(m_event_count)
      BY <2>1 DEF Position
    <3> QED BY <2>1, <3>1, <3>2 DEF Standing, IsBlank
  <2> QED BY <1>a, <2>1, <2>2 DEF Calling, Position
<1>4. CASE NoCodaEvent
  BY <1>4, <1>a DEF NoCodaEvent, codaVars, Calling, Position
<1>5. CASE Blank
  <2>1. /\ stage = "reading" /\ stage' = "reopening" /\ pc = "idle" /\ pc' = "wait" /\ toRead' = 0
        /\ ok /\ IsBlank(event_count) /\ retries' = retries + 1
        /\ UNCHANGED <<m_event_count, event_count, spillID_local, processed, filled>>
    BY <1>5 DEF Blank, OpenFile
  <2>2. Standing(event_count) /\ m_event_count = event_count + 1
    BY <2>1 DEF Position, Calling
  <2>3. event_count \in Blanks /\ event_count >= processed
    BY <1>0, <2>1, <2>2 DEF Standing, IsBlank
  <2>4. Spills(event_count) \in Nat
    BY <1>0, SpillsMonotone
  <2>5. Meeting(event_count)'
    BY <1>0, <2>1, <2>2, <2>3, <2>4 DEF Standing, Meeting, Spills, Of
  <2> QED BY <1>a, <2>1, <2>2, <2>5 DEF Calling, Position
<1>6. CASE JumpBack
  <2> DEFINE n == (event_count + UINT_MAX) % (UINT_MAX + 1)
  <2>1. /\ stage = "reopening" /\ stage' = "jumping" /\ pc = "idle" /\ ok /\ toRead' = n
        /\ \/ n = 0 /\ pc' = "idle" /\ (ok' = TRUE)
           \/ n # 0 /\ m_go_end /\ pc' = "idle" /\ (ok' = FALSE)
           \/ n # 0 /\ pc' = "evRead"
        /\ UNCHANGED <<m_event_count, m_go_end, event_count, retries, spillID_local, processed, filled>>
    BY <1>6, <1>0 DEF JumpBack, JumpCodaEvent
  <2>2. m_event_count = 0 /\ Meeting(event_count)
    BY <2>1 DEF Calling, Position
  <2>3. n = IF event_count = 0 THEN UINT_MAX ELSE event_count - 1
    BY <1>0, FileFacts
  <2>4. n \in Nat /\ (event_count = 0 => n > NCodaEvents)
    BY <1>0, <2>3, FileFacts
  <2>5. event_count > 0 => Standing(n)
    <3> SUFFICES ASSUME event_count > 0
                 PROVE  Standing(n)
      OBVIOUS
    <3> HIDE DEF n
    <3>1. n = event_count - 1 /\ n \in CodaEvents /\ n + 1 = event_count
      BY <1>0, <2>3, FileFacts
    <3>2. spillID_local <= Spills(n) + retries
      <4>1. Spills(event_count) <= Spills(n) + 1 /\ Spills(event_count) \in Nat /\ Spills(n) \in Nat
        BY <1>0, <3>1, SpillsNext, SpillsMonotone
      <4>2. spillID_local + 1 <= Spills(event_count) + retries
        BY <2>2 DEF Meeting
      <4> QED BY <1>0, <4>1, <4>2
    <3>3. /\ event_count >= processed /\ event_count \in Blanks /\ retries > 0
          /\ \A e \in processed..(event_count - 1) : e \in Blanks
      BY <2>2 DEF Meeting
    <3>4. n + 1 = processed => ~IsBlank(n)
      BY <1>0, <3>1 DEF Position
    <3>5. \A e \in processed..(n - 1) : e \in Blanks
      BY <1>0, <3>1, <3>3
    <3> QED BY <1>0, <3>1, <3>2, <3>3, <3>4, <3>5 DEF Standing
  <2> HIDE DEF n
  <2>6. m_event_count' + toRead' = n
    BY <2>1, <2>2, <2>4
  <2>7. pc' # "idle" => m_event_count' + toRead' > NCodaEvents \/ Standing(m_event_count + toRead)'
    BY <1>0, <2>1, <2>4, <2>5, <2>6 DEF Standing, IsBlank
  <2>8. pc' = "idle" /\ ok' => Standing(m_event_count)'
    <3>1. pc' = "idle" /\ ok' => n = 0 /\ event_count > 0 /\ m_event_count' = n
      BY <1>0, <2>1, <2>2, <2>4, FileFacts
    <3> QED BY <2>1, <2>5, <3>1 DEF Standing, IsBlank
  <2>9. Calling'
    BY <2>1, <2>4 DEF Calling
  <2> QED BY <1>a, <2>1, <2>7, <2>8, <2>9 DEF Position
<1>7. CASE Retried
  <2>1. /\ pc = "idle" /\ pc' = "idle" /\ stage' = "parsing"
        /\ (stage = "reopening" /\ ~ok) \/ stage = "jumping"
        /\ UNCHANGED <<m_event_count, m_go_end, ok, event_count, retries, spillID_local, processed, filled>>
    BY <1>7 DEF Retried, codaVars
  <2>2. ~m_go_end => Standing(m_event_count)
    <3>1. CASE stage = "jumping"
      BY <2>1, <3>1 DEF Calling, Position
    <3>2. CASE stage = "reopening" /\ ~ok
      <4>1. m_event_count = event_count + 1 /\ Meeting(event_count)
        BY <2>1, <3>2 DEF Calling, Position
      <4>2. Spills(event_count) <= Spills(m_event_count) /\ Spills(event_count) \in Nat /\ Spills(m_event_count) \in Nat
        BY <1>0, <4>1, SpillsMonotone
      <4> QED BY <1>0, <4>1, <4>2 DEF Standing, Meeting
    <3> QED BY <2>1, <3>1, <3>2
  <2> QED BY <1>a, <2>1, <2>2 DEF Calling, Position, Standing, IsBlank
<1>8. CASE HandOut
  <2>1. UNCHANGED <<pc, m_go_end, m_event_count, toRead, event_count, ok, stage, retries,
                    processed, spillID_local, filled>>
    BY <1>8 DEF HandOut, codaVars
  <2> QED BY <2>1, PositionKept
<1>9. CASE ParseNext
  <2>1. /\ stage = "handing" /\ stage' = "parsing"
        /\ UNCHANGED <<pc, m_go_end, m_event_count, retries, spillID_local, processed, filled>>
    BY <1>9 DEF ParseNext, codaVars
  <2> QED BY <1>a, <2>1 DEF Calling, Position, Standing, IsBlank
<1> QED BY <1>1, <1>2, <1>3, <1>4, <1>5, <1>6, <1>7, <1>8, <1>9

-----------------------------------------------------------------------------
(* The handlers *)

Handler == \/ ProcessCodaPrestart \/ ProcessCodaEnd \/ ProcessOther \/ ProcessPhysFlush
           \/ ProcessPhysSlow \/ ProcessPhysSpillCounter \/ ProcessPhysBOS \/ ProcessPhysEOS

\* Which event a handler handles, and what it does for the reader.
LEMMA HandlerIs ==
  ASSUME Handler
  PROVE  /\ stage = "reading" /\ pc = "idle" /\ ok /\ ~IsBlank(event_count)
         /\ processed' = event_count + 1 /\ pc' = "idle"
         /\ UNCHANGED <<filled, retries, m_event_count, event_count>>
         /\ \/ /\ CodaFile[event_count].type # "bos" /\ stage' = "parsing"
               /\ UNCHANGED <<spillID, spillID_local, list_ed_now, rest, sd_now>>
            \/ /\ ProcessPhysBOS /\ CodaFile[event_count].type = "bos" /\ stage' \in {"parsing", "handing"}
               /\ spillID_local' = spillID_local + 1
<1> USE DEF Returned, blankVars, codaVars, waitVars
<1>1. CASE ProcessCodaPrestart
  BY <1>1 DEF ProcessCodaPrestart
<1>2. CASE ProcessCodaEnd
  BY <1>2 DEF ProcessCodaEnd, ForceEnd
<1>3. CASE ProcessOther
  BY <1>3 DEF ProcessOther
<1>4. CASE ProcessPhysFlush
  BY <1>4 DEF ProcessPhysFlush
<1>5. CASE ProcessPhysSlow
  BY <1>5 DEF ProcessPhysSlow
<1>6. CASE ProcessPhysSpillCounter
  BY <1>6 DEF ProcessPhysSpillCounter
<1>7. CASE ProcessPhysBOS
  BY <1>7 DEF ProcessPhysBOS, PackOneSpillData
<1>8. CASE ProcessPhysEOS
  BY <1>8 DEF ProcessPhysEOS
<1> QED BY <1>1, <1>2, <1>3, <1>4, <1>5, <1>6, <1>7, <1>8 DEF Handler

\* A handler leaves the reader behind the event.
LEMMA HandlerPosition ==
  ASSUME TypeOK, Calling, Position, Handler
  PROVE  Calling' /\ Position'
<1>1. spillID_local' = spillID_local + (IF CodaFile[event_count].type = "bos" THEN 1 ELSE 0)
  <2>1. spillID_local \in Nat
    BY FileFacts DEF TypeOK, SpillIDs
  <2> QED BY <2>1, HandlerIs
<1>2. /\ stage = "reading" /\ pc = "idle" /\ ok /\ ~IsBlank(event_count)
      /\ processed' = event_count + 1 /\ stage' \in {"parsing", "handing"}
      /\ pc' = "idle" /\ UNCHANGED <<filled, retries, m_event_count>>
  BY HandlerIs
<1> QED BY <1>1, <1>2, HandledPosition

SpillMap(map) == DOMAIN map \subseteq 0..UINT_MAX /\ \A k \in DOMAIN map : map[k] \in SpillData

\* Putting a record keeps the list of records one.
LEMMA PutKeepsType ==
  ASSUME NEW map, SpillMap(map), NEW key \in 0..UINT_MAX, NEW value \in SpillData
  PROVE  SpillMap(Put(map, key, value))
BY DEF SpillMap, Put

\* A record keeps its type when an event is put into it.
LEMMA RecordAt ==
  ASSUME NEW map, SpillMap(map), NEW k, NEW c \in CodaEvents, NEW n \in 0..UINT_MAX
  PROVE  LET sd == At(map, k, NoRecord)
         IN  /\ sd \in SpillData
             /\ [sd EXCEPT !.slow = @ \cup {c}] \in SpillData
             /\ [sd EXCEPT !.target = @ \cup {c}] \in SpillData
             /\ [sd EXCEPT !.eos = @ \cup {c}] \in SpillData
             /\ [sd EXCEPT !.spill_id_slow = n, !.bos = @ \cup {c}] \in SpillData
<1> DEFINE sd == At(map, k, NoRecord)
<1>1. NoRecord \in SpillData
  BY FileFacts DEF NoRecord, SpillData
<1>2. sd \in SpillData
  BY <1>1 DEF At, SpillMap
<1> HIDE DEF sd
<1>3. /\ [sd EXCEPT !.slow = @ \cup {c}] \in SpillData
      /\ [sd EXCEPT !.target = @ \cup {c}] \in SpillData
      /\ [sd EXCEPT !.eos = @ \cup {c}] \in SpillData
      /\ [sd EXCEPT !.spill_id_slow = n, !.bos = @ \cup {c}] \in SpillData
  BY <1>2 DEF SpillData
<1> QED BY <1>2, <1>3 DEF sd

\* The BOS and EOS events in the record of spill k.
BosAt(map, k) == At(map, k, NoRecord).bos
EosAt(map, k) == At(map, k, NoRecord).eos

\* The number of the spill is in its range.
LEMMA Ranges ==
  ASSUME TypeOK
  PROVE  /\ SpillMap(list_sd) /\ spillID \in 0..UINT_MAX /\ spillID_slow \in 0..UINT_MAX
         /\ event_count \in CodaEvents
BY FileFacts DEF TypeOK, CodaTypeOK, SpillIDs, SpillMap

\* A slow-control event says nothing of the begin and the end of a spill.
LEMMA SlowRecord ==
  ASSUME TypeOK, ProcessPhysSlow
  PROVE  /\ SpillMap(list_sd') /\ DOMAIN list_sd \subseteq DOMAIN list_sd'
         /\ spillID_slow' \in 0..UINT_MAX
         /\ \A k : BosAt(list_sd', k) = BosAt(list_sd, k) /\ EosAt(list_sd', k) = EosAt(list_sd, k)
<1> DEFINE c          == event_count
           before(n)  == (n + UINT_MAX) % (UINT_MAX + 1)
           sdb(n)     == At(list_sd, before(n), NoRecord)
           sdbNew(n)  == [sdb(n) EXCEPT !.slow = @ \cup {c}]
           sd1(n)     == Put(list_sd, before(n), sdbNew(n))
           sdn(n)     == At(sd1(n), n, NoRecord)
           sdnNew(n)  == [sdn(n) EXCEPT !.target = @ \cup {c}]
<1>1. PICK n \in IF CodaFile[c].spillcount = {} THEN {spillID_slow}
                 ELSE {m + 1 : m \in CodaFile[c].spillcount} :
         spillID_slow' = n /\ list_sd' = Put(sd1(n), n, sdnNew(n))
  BY DEF ProcessPhysSlow
<1>2. SpillMap(list_sd) /\ c \in CodaEvents /\ spillID_slow \in 0..UINT_MAX
  BY Ranges
<1>3. n \in 0..UINT_MAX /\ before(n) \in 0..UINT_MAX
  <2>1. n \in 0..UINT_MAX
    <3>1. CASE CodaFile[c].spillcount = {}
      BY <1>1, <1>2, <3>1
    <3>2. CASE CodaFile[c].spillcount # {}
      <4>1. PICK m \in CodaFile[c].spillcount : n = m + 1
        BY <1>1, <3>2
      <4> QED BY <1>2, <4>1, EventFacts, FileFacts
    <3> QED BY <3>1, <3>2
  <2> QED BY <2>1, FileFacts
<1>4. sdb(n) \in SpillData /\ sdbNew(n) \in SpillData
  BY <1>2, <1>3, RecordAt
<1>5. SpillMap(sd1(n))
  <2> HIDE DEF sdbNew, before
  <2> QED BY <1>2, <1>3, <1>4, PutKeepsType
<1>6. sdn(n) \in SpillData /\ sdnNew(n) \in SpillData
  <2> HIDE DEF sd1
  <2> QED BY <1>2, <1>3, <1>5, RecordAt
<1>7. SpillMap(list_sd')
  <2> HIDE DEF sd1, sdnNew
  <2> QED BY <1>1, <1>3, <1>5, <1>6, PutKeepsType
<1>8. sdbNew(n).bos = sdb(n).bos /\ sdbNew(n).eos = sdb(n).eos
  <2> HIDE DEF sdb
  <2> QED BY <1>4 DEF SpillData
<1>9. sdnNew(n).bos = sdn(n).bos /\ sdnNew(n).eos = sdn(n).eos
  <2> HIDE DEF sdn
  <2> QED BY <1>6 DEF SpillData
<1>10. \A k : BosAt(sd1(n), k) = BosAt(list_sd, k) /\ EosAt(sd1(n), k) = EosAt(list_sd, k)
  <2> HIDE DEF sdbNew, before
  <2>1. \A k : At(sd1(n), k, NoRecord) = IF k = before(n) THEN sdbNew(n) ELSE At(list_sd, k, NoRecord)
    BY DEF Put, At
  <2> HIDE DEF sd1
  <2> QED BY <1>8, <2>1 DEF BosAt, EosAt
<1>11. \A k : BosAt(list_sd', k) = BosAt(sd1(n), k) /\ EosAt(list_sd', k) = EosAt(sd1(n), k)
  <2> HIDE DEF sd1, sdnNew
  <2>1. \A k : At(list_sd', k, NoRecord) = IF k = n THEN sdnNew(n) ELSE At(sd1(n), k, NoRecord)
    BY <1>1 DEF Put, At
  <2> QED BY <1>9, <2>1 DEF BosAt, EosAt
<1>12. DOMAIN list_sd \subseteq DOMAIN list_sd'
  <2> HIDE DEF sdbNew, sdnNew, before
  <2>1. DOMAIN sd1(n) = DOMAIN list_sd \cup {before(n)}
    BY DEF Put, At
  <2> HIDE DEF sd1
  <2> QED BY <1>1, <2>1 DEF Put
<1> QED BY <1>1, <1>3, <1>7, <1>10, <1>11, <1>12

\* An EOS event is put into the record of the spill.
LEMMA EosRecord ==
  ASSUME TypeOK, ProcessPhysEOS
  PROVE  /\ SpillMap(list_sd') /\ DOMAIN list_sd \subseteq DOMAIN list_sd'
         /\ \A k : /\ BosAt(list_sd', k) = BosAt(list_sd, k)
                   /\ EosAt(list_sd', k) =
                        EosAt(list_sd, k) \cup (IF k = spillID THEN {event_count} ELSE {})
<1> DEFINE sd    == At(list_sd, spillID, NoRecord)
           sdNew == [sd EXCEPT !.eos = @ \cup {event_count}]
<1>1. list_sd' = Put(list_sd, spillID, sdNew)
  BY DEF ProcessPhysEOS
<1>2. SpillMap(list_sd) /\ event_count \in CodaEvents /\ spillID \in 0..UINT_MAX
  BY Ranges
<1>3. sd \in SpillData /\ sdNew \in SpillData
  BY <1>2, RecordAt
<1>4. sdNew.bos = sd.bos /\ sdNew.eos = sd.eos \cup {event_count}
  <2> HIDE DEF sd
  <2> QED BY <1>3 DEF SpillData
<1> HIDE DEF sdNew
<1>5. \A k : At(list_sd', k, NoRecord) = IF k = spillID THEN sdNew ELSE At(list_sd, k, NoRecord)
  BY <1>1 DEF Put, At
<1>6. SpillMap(list_sd') /\ DOMAIN list_sd \subseteq DOMAIN list_sd'
  <2>1. SpillMap(list_sd')
    BY <1>1, <1>2, <1>3, PutKeepsType
  <2>2. DOMAIN list_sd \subseteq DOMAIN list_sd'
    BY <1>1 DEF Put
  <2> QED BY <2>1, <2>2
<1> QED BY <1>4, <1>5, <1>6 DEF BosAt, EosAt

\* A BOS event makes the record of a new spill.
LEMMA BosRecord ==
  ASSUME TypeOK, ProcessPhysBOS, spillID' \in 0..UINT_MAX
  PROVE  /\ SpillMap(list_sd') /\ DOMAIN list_sd \cup {spillID, spillID'} \subseteq DOMAIN list_sd'
         /\ \A k : /\ BosAt(list_sd', k) =
                        BosAt(list_sd, k) \cup (IF k = spillID' THEN {event_count} ELSE {})
                   /\ EosAt(list_sd', k) = EosAt(list_sd, k)
<1> DEFINE sdOld == At(list_sd, spillID, NoRecord)
           sd0   == Put(list_sd, spillID, sdOld)
           sd    == At(sd0, spillID', NoRecord)
           sdNew == [sd EXCEPT !.spill_id_slow = spillID_slow, !.bos = @ \cup {event_count}]
<1>1. list_sd' = Put(sd0, spillID', sdNew)
  BY DEF ProcessPhysBOS
<1>2. /\ SpillMap(list_sd) /\ event_count \in CodaEvents /\ spillID \in 0..UINT_MAX
      /\ spillID_slow \in 0..UINT_MAX
  BY Ranges
<1>3. sdOld \in SpillData
  BY <1>2, RecordAt
<1> HIDE DEF sdOld
<1>4. /\ SpillMap(sd0) /\ DOMAIN sd0 = DOMAIN list_sd \cup {spillID}
      /\ \A k : At(sd0, k, NoRecord) = IF k = spillID THEN sdOld ELSE At(list_sd, k, NoRecord)
  <2>1. SpillMap(sd0)
    BY <1>2, <1>3, PutKeepsType
  <2>2. DOMAIN sd0 = DOMAIN list_sd \cup {spillID}
    BY DEF Put
  <2>3. \A k : At(sd0, k, NoRecord) = IF k = spillID THEN sdOld ELSE At(list_sd, k, NoRecord)
    BY DEF Put, At
  <2> QED BY <2>1, <2>2, <2>3
<1>5. \A k : At(sd0, k, NoRecord) = At(list_sd, k, NoRecord)
  BY <1>4 DEF sdOld
<1> HIDE DEF sd0
<1>6. sd \in SpillData /\ sdNew \in SpillData
  BY <1>2, <1>4, RecordAt
<1>7. sdNew.bos = sd.bos \cup {event_count} /\ sdNew.eos = sd.eos
  <2> HIDE DEF sd
  <2> QED BY <1>6 DEF SpillData
<1>8. sd = At(list_sd, spillID', NoRecord)
  BY <1>5
<1> HIDE DEF sd, sdNew
<1>9. \A k : At(list_sd', k, NoRecord) = IF k = spillID' THEN sdNew ELSE At(list_sd, k, NoRecord)
  BY <1>1, <1>5 DEF Put, At
<1>10. SpillMap(list_sd') /\ DOMAIN list_sd' = DOMAIN sd0 \cup {spillID'}
  <2>1. SpillMap(list_sd')
    BY <1>1, <1>4, <1>6, PutKeepsType
  <2>2. DOMAIN list_sd' = DOMAIN sd0 \cup {spillID'}
    BY <1>1 DEF Put
  <2> QED BY <2>1, <2>2
<1> QED BY <1>4, <1>7, <1>8, <1>9, <1>10 DEF BosAt, EosAt

\* The reader's variables keep their types.
LEMMA HandlerCodaTypes ==
  ASSUME TypeOK, Handler
  PROVE  CodaTypeOK'
<1>0. CodaTypeOK
  BY DEF TypeOK
<1>1. CASE ProcessCodaPrestart
  BY <1>0, <1>1 DEF ProcessCodaPrestart, CodaTypeOK, daqVars, waitVars
<1>2. CASE ProcessCodaEnd
  BY <1>0, <1>2 DEF ProcessCodaEnd, ForceEnd, CodaTypeOK, daqVars, modeVars, waitVars
<1>3. CASE UNCHANGED <<daqVars, codaVars>>
  BY <1>0, <1>3 DEF CodaTypeOK, daqVars, codaVars
<1>4. CASE ProcessOther \/ ProcessPhysFlush \/ ProcessPhysSlow \/ ProcessPhysSpillCounter
             \/ ProcessPhysBOS \/ ProcessPhysEOS
  BY <1>3, <1>4 DEF ProcessOther, ProcessPhysFlush, ProcessPhysSlow, ProcessPhysSpillCounter,
                    ProcessPhysBOS, ProcessPhysEOS
<1> QED BY <1>1, <1>2, <1>4 DEF Handler

EventMap(map) == DOMAIN map \subseteq EventIDs /\ \A id \in DOMAIN map : map[id] \in EventData

\* The data of a flush event are added to physics events.
LEMMA FlushData ==
  ASSUME TypeOK, ProcessPhysFlush
  PROVE  /\ EventMap(list_ed') /\ turn_late' \in BOOLEAN
         /\ (\A id \in DOMAIN list_ed : list_ed[id].spillID = spillID)
              => \A id \in DOMAIN list_ed' : list_ed'[id].spillID = spillID
<1>1. /\ EventMap(list_ed) /\ event_count \in CodaEvents /\ spillID \in SpillIDs /\ turn_late \in BOOLEAN
      /\ CodaFile[event_count].late \in BOOLEAN
  <2>1. event_count \in CodaEvents
    BY DEF TypeOK, CodaTypeOK
  <2>2. CodaFile[event_count].late \in BOOLEAN
    BY <2>1, ParserAssumption DEF Written
  <2> QED BY <2>1, <2>2 DEF TypeOK, EventMap
<1>2. CASE has_1st_bos
  <2>1. /\ list_ed' = [id \in DOMAIN list_ed \cup CodaFile[event_count].ids |->
                         IF id \in CodaFile[event_count].ids THEN AddData(id) ELSE list_ed[id]]
        /\ turn_late' = (turn_late \/ CodaFile[event_count].late)
    BY <1>2 DEF ProcessPhysFlush
  <2>2. \A id : AddData(id) \in EventData /\ AddData(id).spillID = spillID
    <3> SUFFICES ASSUME NEW id
                 PROVE  AddData(id) \in EventData /\ AddData(id).spillID = spillID
      OBVIOUS
    <3> DEFINE d == At(list_ed, id, NoData)
    <3>1. d \in EventData
      <4>1. NoData \in EventData
        BY FileFacts DEF NoData, EventData, SpillIDs
      <4> QED BY <1>1, <4>1 DEF At, EventMap
    <3> HIDE DEF d
    <3>2. d.hits \in Seq(CodaEvents) /\ d.nim3 \in BOOLEAN /\ d.onset \in BOOLEAN
      BY <3>1 DEF EventData
    <3>3. Append(d.hits, event_count) \in Seq(CodaEvents)
      BY <1>1, <3>2
    <3> DEFINE n == IF id \in CodaFile[event_count].trig
                      THEN id \in CodaFile[event_count].nim3 ELSE d.nim3
               o == IF id \in CodaFile[event_count].qie
                      THEN id \in CodaFile[event_count].onset ELSE d.onset
    <3>4. n \in BOOLEAN /\ o \in BOOLEAN
      <4>1. \A P, Q : (P \in Q) \in BOOLEAN
        OBVIOUS
      <4>2. n \in BOOLEAN
        BY <3>2, <4>1
      <4>3. o \in BOOLEAN
        BY <3>2, <4>1
      <4> QED BY <4>2, <4>3
    <3>5. AddData(id) = [spillID |-> spillID, hits |-> Append(d.hits, event_count),
                         nim3 |-> n, onset |-> o]
      BY DEF AddData, NIM3With, OnsetWith, d
    <3> HIDE DEF n, o
    <3> QED BY <1>1, <3>3, <3>4, <3>5 DEF EventData
  <2>3. CodaFile[event_count].ids \subseteq EventIDs
    BY <1>1, EventFacts
  <2>4. EventMap(list_ed')
    BY <1>1, <2>1, <2>2, <2>3 DEF EventMap
  <2>5. turn_late' \in BOOLEAN
    BY <2>1, Zenon
  <2>6. (\A id \in DOMAIN list_ed : list_ed[id].spillID = spillID)
              => \A id \in DOMAIN list_ed' : list_ed'[id].spillID = spillID
    BY <2>1, <2>2
  <2> QED BY <2>4, <2>5, <2>6
<1>3. CASE ~has_1st_bos
  <2>1. list_ed' = list_ed /\ turn_late' = turn_late
    BY <1>3 DEF ProcessPhysFlush
  <2> QED BY <1>1, <2>1
<1> QED BY <1>2, <1>3

\* A BOS event ends one spill and begins the next.
LEMMA BosData ==
  ASSUME TypeOK, Position, Calling, Buffers, ProcessPhysBOS
  PROVE  /\ EventMap(list_ed') /\ EventMap(list_ed_now') /\ rest' \subseteq DOMAIN list_ed_now'
         /\ spillID' = spillID + 1 /\ spillID_local' = spillID' /\ spillID' \in SpillIDs
         /\ sd_now' = spillID
         /\ DOMAIN list_ed' = {}
         /\ \A id \in DOMAIN list_ed_now' : list_ed_now'[id].spillID = spillID
         /\ stage' # "handing" => DOMAIN list_ed_now' = {}
<1>1. /\ EventMap(list_ed) /\ EventMap(list_ed_now)
      /\ spillID = spillID_local /\ spillID_local \in Nat /\ retries \in 0..MAX_RETRIES
      /\ stage = "reading" /\ pc = "idle" /\ ok /\ event_count \in CodaEvents
      /\ CodaFile[event_count].type = "bos"
  BY FileFacts DEF ProcessPhysBOS, Returned, TypeOK, CodaTypeOK, Buffers, EventMap, SpillIDs
<1>2. DOMAIN list_ed_now = {} /\ \A id \in DOMAIN list_ed : list_ed[id].spillID = spillID
  BY <1>1 DEF Buffers
<1> DEFINE kept == {id \in DOMAIN list_ed : ~Dropped(id)}
<1>3. /\ list_ed_now' = [id \in kept |-> list_ed[id]] /\ list_ed' = list_ed_now
      /\ rest' = kept /\ sd_now' = spillID
      /\ stage' = IF kept = {} THEN "parsing" ELSE "handing"
      /\ spillID_local' = spillID_local + 1 /\ spillID' = spillID_local'
  BY DEF ProcessPhysBOS, PackOneSpillData
<1>4. kept \subseteq DOMAIN list_ed
  OBVIOUS
<1> HIDE DEF kept
<1>5. spillID' \in SpillIDs
  <2>1. spillID_local <= Spills(event_count) + retries
    BY <1>1 DEF Position, Standing
  <2>2. event_count \in Nat /\ Spills(event_count + 1) = Spills(event_count) + 1
    BY <1>1, SpillsNext, FileFacts
  <2>3. Spills(event_count + 1) <= NCodaEvents /\ Spills(event_count) \in Nat
    BY <2>2, SpillsMonotone
  <2> QED BY <1>1, <1>3, <2>1, <2>2, <2>3, FileFacts DEF SpillIDs
<1>6. EventMap(list_ed_now') /\ EventMap(list_ed')
  BY <1>1, <1>3, <1>4 DEF EventMap
<1> QED BY <1>1, <1>2, <1>3, <1>4, <1>5, <1>6

\* The lists of events and records keep their types, and the buffers hold what
\* belongs to their spills.
LEMMA HandlerData ==
  ASSUME TypeOK, Position, Calling, Buffers, Handler
  PROVE  TypeOK' /\ Buffers'
<1>0. /\ EventMap(list_ed) /\ EventMap(list_ed_now) /\ SpillMap(list_sd) /\ rest \subseteq DOMAIN list_ed_now
      /\ sd_now \in {0} \cup DOMAIN list_sd /\ has_1st_bos \in BOOLEAN /\ turn_late \in BOOLEAN
      /\ spillID \in SpillIDs /\ spillID_local \in SpillIDs
      /\ spillID_cntr \in 0..UINT_MAX /\ spillID_slow \in 0..UINT_MAX
      /\ spillID = spillID_local /\ \A id \in DOMAIN list_ed : list_ed[id].spillID = spillID
  BY DEF TypeOK, EventMap, SpillMap, Buffers
<1>1. /\ stage = "reading" /\ pc = "idle" /\ ok /\ processed' = event_count + 1
      /\ UNCHANGED <<filled, retries, event_count>> /\ stage' \in {"parsing", "handing"}
      /\ event_count \in CodaEvents
  BY HandlerIs DEF TypeOK, CodaTypeOK
<1>2. DOMAIN list_ed_now = {}
  BY <1>1 DEF Buffers
<1>3. /\ CodaTypeOK' /\ filled' \subseteq Blanks /\ retries' \in 0..MAX_RETRIES
      /\ processed' \in 0..NCodaEvents
      /\ stage' \in {"start", "opening", "parsing", "reading", "reopening", "jumping", "handing", "ended"}
  BY <1>1, HandlerCodaTypes, FileFacts DEF TypeOK
<1>4. SUFFICES /\ EventMap(list_ed') /\ EventMap(list_ed_now') /\ SpillMap(list_sd')
               /\ rest' \subseteq DOMAIN list_ed_now'
               /\ sd_now' \in {0} \cup DOMAIN list_sd' /\ has_1st_bos' \in BOOLEAN /\ turn_late' \in BOOLEAN
               /\ spillID' \in SpillIDs /\ spillID_local' \in SpillIDs
               /\ spillID_cntr' \in 0..UINT_MAX /\ spillID_slow' \in 0..UINT_MAX
               /\ Buffers'
  BY <1>3 DEF TypeOK, EventMap, SpillMap
<1>5. CASE /\ UNCHANGED <<list_ed, list_ed_now, rest, list_sd, sd_now, has_1st_bos, spillID, spillID_local,
                          spillID_slow, turn_late>>
           /\ spillID_cntr' \in 0..UINT_MAX /\ stage' = "parsing"
  BY <1>0, <1>2, <1>5 DEF Buffers
<1>6. CASE ProcessCodaPrestart \/ ProcessCodaEnd \/ ProcessOther
  BY <1>0, <1>5, <1>6 DEF ProcessCodaPrestart, ProcessCodaEnd, ProcessOther, blankVars
<1>7. CASE ProcessPhysFlush
  <2>1. /\ UNCHANGED <<list_ed_now, rest, list_sd, sd_now, has_1st_bos, spillID, spillID_local,
                       spillID_cntr, spillID_slow>>
        /\ stage' = "parsing"
    BY <1>7 DEF ProcessPhysFlush
  <2> QED BY <1>0, <1>2, <1>7, <2>1, FlushData DEF Buffers
<1>8. CASE ProcessPhysSlow
  <2>1. /\ UNCHANGED <<list_ed, list_ed_now, rest, sd_now, has_1st_bos, spillID, spillID_local,
                       spillID_cntr, turn_late>>
        /\ stage' = "parsing"
    BY <1>8 DEF ProcessPhysSlow
  <2>2. SpillMap(list_sd') /\ DOMAIN list_sd \subseteq DOMAIN list_sd' /\ spillID_slow' \in 0..UINT_MAX
    BY <1>8, SlowRecord
  <2> QED BY <1>0, <1>2, <2>1, <2>2 DEF Buffers
<1>9. CASE ProcessPhysSpillCounter
  <2>1. PICK n \in CodaFile[event_count].spillcount : spillID_cntr' = n + 1
    BY <1>9 DEF ProcessPhysSpillCounter
  <2>2. spillID_cntr' \in 0..UINT_MAX
    BY <1>1, <2>1, EventFacts, FileFacts
  <2> QED BY <1>5, <1>9, <2>2 DEF ProcessPhysSpillCounter
<1>10. CASE ProcessPhysBOS
  <2>1. has_1st_bos' = TRUE /\ spillID_cntr' = 0 /\ spillID_slow' = 0 /\ turn_late' = FALSE
    BY <1>10 DEF ProcessPhysBOS
  <2>2. /\ EventMap(list_ed') /\ EventMap(list_ed_now') /\ rest' \subseteq DOMAIN list_ed_now'
        /\ spillID' = spillID + 1 /\ spillID_local' = spillID' /\ spillID' \in SpillIDs
        /\ sd_now' = spillID
        /\ DOMAIN list_ed' = {}
        /\ \A id \in DOMAIN list_ed_now' : list_ed_now'[id].spillID = spillID
        /\ stage' # "handing" => DOMAIN list_ed_now' = {}
    BY <1>10, BosData
  <2>3. spillID' \in 0..UINT_MAX
    BY <2>2, FileFacts DEF SpillIDs
  <2>4. SpillMap(list_sd') /\ DOMAIN list_sd \cup {spillID, spillID'} \subseteq DOMAIN list_sd'
    BY <1>10, <2>3, BosRecord
  <2>5. CodaFile[event_count].type = "bos" /\ processed' > 0 /\ processed' - 1 = event_count
    BY <1>1, <1>10, FileFacts DEF ProcessPhysBOS, Returned
  <2>6. Buffers'
    BY <2>2, <2>4, <2>5 DEF Buffers
  <2>7. has_1st_bos' \in BOOLEAN /\ turn_late' \in BOOLEAN
    BY <2>1
  <2>8. spillID_cntr' \in 0..UINT_MAX /\ spillID_slow' \in 0..UINT_MAX
    BY <2>1, FileFacts
  <2>9. sd_now' \in {0} \cup DOMAIN list_sd'
    BY <2>2, <2>4
  <2>10. spillID_local' \in SpillIDs
    BY <2>2
  <2> QED BY <2>2, <2>4, <2>6, <2>7, <2>8, <2>9, <2>10
<1>11. CASE ProcessPhysEOS
  <2>1. /\ UNCHANGED <<list_ed, list_ed_now, rest, sd_now, has_1st_bos, spillID, spillID_local,
                       spillID_cntr, spillID_slow, turn_late>>
        /\ stage' = "parsing"
    BY <1>11 DEF ProcessPhysEOS
  <2>2. SpillMap(list_sd')
    BY <1>11, EosRecord
  <2>3. DOMAIN list_sd \subseteq DOMAIN list_sd'
    BY <1>11, EosRecord
  <2> QED BY <1>0, <1>2, <2>1, <2>2, <2>3 DEF Buffers
<1> QED BY <1>6, <1>7, <1>8, <1>9, <1>10, <1>11 DEF Handler

\* The events of one type before event p + 1 are those that are processed and
\* event p itself, if it has this type.
LEMMA OneMore ==
  ASSUME NEW p \in CodaEvents, Standing(p), ~IsBlank(p), processed \in Nat, retries = 0 \/ Harmless,
         NEW type \in {"bos", "eos"}
  PROVE  \A b \in Of(type) : b < p + 1 <=> (b < processed \/ b = p)
<1> SUFFICES ASSUME NEW b \in Of(type)
             PROVE  b < p + 1 <=> (b < processed \/ b = p)
  OBVIOUS
<1>1. p \in Nat /\ b \in Nat /\ CodaFile[b].type = type
  BY FileFacts DEF Of
<1>2. retries = 0 => p = processed
  BY DEF Standing
<1>3. processed - 1 <= p /\ \A e \in processed..(p - 1) : e \in Blanks
  BY <1>1 DEF Standing
<1>4. CASE p = processed
  BY <1>1, <1>4
<1>5. CASE p # processed
  <2>1. Harmless
    BY <1>2, <1>5
  <2>2. b \notin Blanks
    BY <1>1, <2>1 DEF Harmless
  <2>3. ~(b \in processed..(p - 1))
    BY <1>3, <2>2
  <2> QED BY <1>1, <1>3, <2>3
<1> QED BY <1>4, <1>5

\* The spills are counted right.
LEMMA SpillsHandled ==
  ASSUME NEW p \in CodaEvents, Standing(p), ~IsBlank(p), processed \in Nat, retries = 0 \/ Harmless
  PROVE  Spills(p + 1) = Spills(processed) + (IF CodaFile[p].type = "bos" THEN 1 ELSE 0)
<1>1. p \in Nat
  BY FileFacts
<1>2. retries = 0 => p = processed
  BY DEF Standing
<1>3. processed - 1 <= p /\ \A e \in processed..(p - 1) : e \in Blanks
  BY <1>1 DEF Standing
<1>4. CASE p = processed
  BY <1>4, SpillsNext
<1>5. CASE p + 1 = processed
  <2>1. p + 1 \in Blanks /\ p + 1 > 0 /\ (p + 1) - 1 = p
    BY <1>1, <1>5 DEF Standing
  <2>2. Harmless
    BY <1>1, <1>2, <1>5
  <2>3. CodaFile[p].type # "bos"
    BY <2>1, <2>2 DEF Harmless
  <2>4. Spills(processed) \in Nat
    BY SpillsMonotone
  <2> QED BY <1>5, <2>3, <2>4
<1>6. CASE processed < p
  <2>1. Harmless
    BY <1>2, <1>6
  <2>2. \A b \in Of("bos") : ~(processed <= b /\ b < p)
    <3> SUFFICES ASSUME NEW b \in Of("bos"), processed <= b, b < p
                 PROVE  FALSE
      OBVIOUS
    <3>1. b \in Nat /\ CodaFile[b].type = "bos"
      BY FileFacts DEF Of
    <3>2. b \in Blanks
      BY <1>1, <1>3, <3>1
    <3> QED BY <2>1, <3>1, <3>2 DEF Harmless
  <2>3. Spills(processed) = Spills(p)
    BY <1>1, <1>6, <2>2, SpillsSame
  <2> QED BY <2>3, SpillsNext
<1> QED BY <1>1, <1>3, <1>4, <1>5, <1>6

\* The events of type t of spill k that are processed.
Done(t, k) == {b \in Of(t) : b < processed /\ SpillOf[b] = k}

\* A handler puts its event into the record to which it belongs.
LEMMA HandlerRecords ==
  ASSUME TypeOK, Position, Calling, Buffers, Records, Handler
  PROVE  Records'
<1> DEFINE p       == event_count
           Good    == retries = 0 \/ Harmless
           Is(t)   == CodaFile[p].type = t
           New(t, k) == IF Is(t) /\ SpillOf[p] = k THEN {p} ELSE {}
<1>1. /\ stage = "reading" /\ pc = "idle" /\ ok /\ ~IsBlank(p)
      /\ processed' = p + 1 /\ retries' = retries
      /\ \/ CodaFile[p].type # "bos" /\ UNCHANGED <<spillID, spillID_local>>
         \/ ProcessPhysBOS /\ CodaFile[p].type = "bos" /\ spillID_local' = spillID_local + 1
  BY HandlerIs
<1>2. p \in CodaEvents /\ p \in Nat /\ Standing(p) /\ processed \in Nat
  BY <1>1, FileFacts DEF TypeOK, CodaTypeOK, Position
<1> SUFFICES ASSUME Good
             PROVE  /\ spillID' = Spills(p + 1)
                    /\ \A k \in 0..UINT_MAX :
                         /\ BosAt(list_sd', k) = {b \in Of("bos") : b < p + 1 /\ SpillOf[b] = k}
                         /\ EosAt(list_sd', k) = {e \in Of("eos") : e < p + 1 /\ SpillOf[e] = k}
  BY <1>1 DEF Records, BosAt, EosAt
<1>3. /\ spillID = Spills(processed)
      /\ \A k \in 0..UINT_MAX : BosAt(list_sd, k) = Done("bos", k) /\ EosAt(list_sd, k) = Done("eos", k)
  BY DEF Records, BosAt, EosAt, Done
<1>4. Spills(p + 1) = Spills(processed) + (IF CodaFile[p].type = "bos" THEN 1 ELSE 0)
  BY <1>1, <1>2, SpillsHandled
<1>5. spillID' = Spills(p + 1)
  <2>1. CASE CodaFile[p].type # "bos"
    <3>1. Spills(processed) \in Nat
      BY <1>2, SpillsMonotone
    <3> QED BY <1>1, <1>3, <1>4, <2>1, <3>1
  <2>2. CASE ProcessPhysBOS /\ CodaFile[p].type = "bos"
    <3>1. spillID' = spillID + 1
      BY <2>2, BosData
    <3> QED BY <1>3, <1>4, <2>2, <3>1
  <2> QED BY <1>1, <2>1, <2>2
<1>6. SpillOf[p] = spillID' /\ spillID' \in 0..UINT_MAX
  <2>1. SpillOf[p] = Spills(p + 1)
    BY <1>2, SpillOfIs
  <2>2. Spills(p + 1) \in Nat /\ Spills(p + 1) <= NCodaEvents
    BY <1>2, SpillsMonotone
  <2> QED BY <1>5, <2>1, <2>2, FileFacts
<1>7. ASSUME NEW t \in {"bos", "eos"}, NEW k
      PROVE  {b \in Of(t) : b < p + 1 /\ SpillOf[b] = k} = Done(t, k) \cup New(t, k)
  <2>1. \A b \in Of(t) : b < p + 1 <=> (b < processed \/ b = p)
    BY <1>1, <1>2, OneMore
  <2>2. Is(t) <=> p \in Of(t)
    BY <1>2 DEF Of
  <2> QED BY <2>1, <2>2 DEF Done
<1>8. /\ \A k \in 0..UINT_MAX : BosAt(list_sd', k) = BosAt(list_sd, k) \cup New("bos", k)
      /\ \A k \in 0..UINT_MAX : EosAt(list_sd', k) = EosAt(list_sd, k) \cup New("eos", k)
  <2>1. CASE ProcessPhysBOS
    <3>1. Is("bos") /\ ~Is("eos")
      BY <2>1 DEF ProcessPhysBOS, Returned
    <3>2. \A k : /\ BosAt(list_sd', k) = BosAt(list_sd, k) \cup (IF k = spillID' THEN {p} ELSE {})
                 /\ EosAt(list_sd', k) = EosAt(list_sd, k)
      BY <1>6, <2>1, BosRecord
    <3> QED BY <1>6, <3>1, <3>2
  <2>2. CASE ProcessPhysEOS
    <3>1. Is("eos") /\ ~Is("bos") /\ spillID' = spillID
      BY <2>2 DEF ProcessPhysEOS, Returned
    <3>2. \A k : /\ BosAt(list_sd', k) = BosAt(list_sd, k)
                 /\ EosAt(list_sd', k) = EosAt(list_sd, k) \cup (IF k = spillID THEN {p} ELSE {})
      BY <2>2, EosRecord
    <3> QED BY <1>6, <3>1, <3>2
  <2>3. CASE ProcessPhysSlow
    <3>1. ~Is("eos") /\ ~Is("bos")
      BY <2>3 DEF ProcessPhysSlow, Returned
    <3>2. \A k : BosAt(list_sd', k) = BosAt(list_sd, k) /\ EosAt(list_sd', k) = EosAt(list_sd, k)
      BY <2>3, SlowRecord
    <3> QED BY <3>1, <3>2
  <2>4. CASE ProcessCodaPrestart \/ ProcessCodaEnd \/ ProcessOther \/ ProcessPhysFlush \/ ProcessPhysSpillCounter
    <3>1. ~Is("eos") /\ ~Is("bos") /\ list_sd' = list_sd
      BY <2>4 DEF ProcessCodaPrestart, ProcessCodaEnd, ProcessOther, ProcessPhysFlush,
                  ProcessPhysSpillCounter, Returned
    <3> QED BY <3>1
  <2> QED BY <2>1, <2>2, <2>3, <2>4 DEF Handler
<1> HIDE DEF New
<1>9. ASSUME NEW k \in 0..UINT_MAX
      PROVE  /\ BosAt(list_sd', k) = {b \in Of("bos") : b < p + 1 /\ SpillOf[b] = k}
             /\ EosAt(list_sd', k) = {e \in Of("eos") : e < p + 1 /\ SpillOf[e] = k}
  <2>1. BosAt(list_sd', k) = Done("bos", k) \cup New("bos", k)
    BY <1>3, <1>8
  <2>2. EosAt(list_sd', k) = Done("eos", k) \cup New("eos", k)
    BY <1>3, <1>8
  <2>3. {b \in Of("bos") : b < p + 1 /\ SpillOf[b] = k} = Done("bos", k) \cup New("bos", k)
    BY <1>7
  <2>4. {b \in Of("eos") : b < p + 1 /\ SpillOf[b] = k} = Done("eos", k) \cup New("eos", k)
    BY <1>7
  <2> QED BY <2>1, <2>2, <2>3, <2>4
<1> QED BY <1>5, <1>9

-----------------------------------------------------------------------------
(* The other steps *)

\* What the parser keeps of the spills is not touched when the file is read.
LEMMA DataKept ==
  ASSUME TypeOK, Buffers, Records, UNCHANGED parserVars, CodaTypeOK',
         filled' \subseteq Blanks, retries' \in 0..MAX_RETRIES, retries' = 0 => retries = 0,
         stage' \in {"start", "opening", "parsing", "reading", "reopening", "jumping", "handing", "ended"},
         (stage' = "handing") <=> (stage = "handing")
  PROVE  TypeOK' /\ Buffers' /\ Records'
<1> USE DEF parserVars
<1>1. TypeOK'
  BY DEF TypeOK
<1>2. Buffers'
  BY DEF Buffers
<1>3. Records'
  BY DEF Records
<1> QED BY <1>1, <1>2, <1>3

\* The calls of the reader keep its types.
LEMMA ParserCodaTypes ==
  ASSUME TypeOK,
         \/ OpenCodaFile \/ Opened \/ NextCodaEvent \/ NoCodaEvent
         \/ Blank \/ JumpBack \/ Retried \/ HandOut \/ ParseNext
  PROVE  CodaTypeOK'
<1>0. CodaTypeOK
  BY DEF TypeOK
<1>1. CASE UNCHANGED <<daqVars, codaVars>>
  BY <1>0, <1>1 DEF CodaTypeOK, daqVars, codaVars
<1>2. CASE OpenFile(BLOCK, N_WAIT)
  BY <1>0, <1>2, FileFacts DEF OpenFile, CodaTypeOK, daqVars, modeVars
<1>3. ASSUME NEW n \in Nat, JumpCodaEvent(n)
      PROVE  CodaTypeOK'
  <2>1. ok' \in BOOLEAN /\ pc' \in {"idle", "evRead"}
    <3>1. CASE n = 0 \/ m_go_end
      <4>1. (ok' = (n = 0)) /\ pc' = "idle"
        BY <1>3, <3>1 DEF JumpCodaEvent
      <4> QED BY <4>1, Zenon
    <3>2. CASE ~(n = 0 \/ m_go_end)
      BY <1>0, <1>3, <3>2 DEF JumpCodaEvent, CodaTypeOK
    <3> QED BY <3>1, <3>2
  <2> QED BY <1>0, <1>3, <2>1 DEF JumpCodaEvent, CodaTypeOK, daqVars, modeVars, waitVars
<1>4. (event_count + UINT_MAX) % (UINT_MAX + 1) \in Nat
  BY <1>0, FileFacts DEF CodaTypeOK
<1>5. CASE OpenCodaFile \/ Blank
  BY <1>2, <1>5 DEF OpenCodaFile, Blank
<1>6. CASE NextCodaEvent
  BY <1>3, <1>6 DEF NextCodaEvent
<1>7. CASE JumpBack
  BY <1>3, <1>4, <1>7 DEF JumpBack
<1>8. CASE Opened \/ NoCodaEvent \/ Retried \/ HandOut \/ ParseNext
  BY <1>1, <1>8 DEF Opened, NoCodaEvent, Retried, HandOut, ParseNext
<1> QED BY <1>5, <1>6, <1>7, <1>8

\* NextPhysicsEvent and ParseOneSpill, without the handlers, keep what the parser has.
LEMMA ParserData ==
  ASSUME TypeOK, Calling, Buffers, Records,
         \/ OpenCodaFile \/ Opened \/ NextCodaEvent \/ NoCodaEvent
         \/ Blank \/ JumpBack \/ Retried \/ HandOut \/ ParseNext
  PROVE  TypeOK' /\ Buffers' /\ Records'
<1>1. CodaTypeOK'
  BY ParserCodaTypes
<1>2. filled \subseteq Blanks /\ retries \in 0..MAX_RETRIES
  BY DEF TypeOK
<1>3. CASE OpenCodaFile \/ Opened \/ NextCodaEvent \/ NoCodaEvent \/ JumpBack \/ Retried
  <2>1. /\ UNCHANGED <<parserVars, filled, retries>> /\ stage # "handing"
        /\ stage' \in {"opening", "parsing", "reading", "jumping", "ended"}
    BY <1>3 DEF OpenCodaFile, Opened, NextCodaEvent, NoCodaEvent, JumpBack, Retried, blankVars
  <2>2. UNCHANGED parserVars
    BY <2>1
  <2> QED BY <1>1, <1>2, <2>1, <2>2, DataKept
<1>4. CASE Blank
  <2>1. /\ UNCHANGED parserVars /\ filled' = filled /\ retries' = retries + 1 /\ retries < MAX_RETRIES
        /\ stage = "reading" /\ stage' = "reopening"
    BY <1>4 DEF Blank
  <2>2. retries' \in 0..MAX_RETRIES /\ retries' # 0
    BY <1>2, <2>1, FileFacts
  <2> QED BY <1>1, <1>2, <2>1, <2>2, DataKept
<1>5. CASE HandOut
  <2>1. /\ UNCHANGED <<stage, filled, retries, list_ed, list_ed_now, list_sd, sd_now, has_1st_bos, spillID,
                       spillID_local, spillID_cntr, spillID_slow, turn_late, processed>>
        /\ rest' \subseteq rest
    BY <1>5 DEF HandOut, blankVars
  <2>2. TypeOK'
    BY <1>1, <2>1 DEF TypeOK
  <2>3. Buffers'
    BY <2>1 DEF Buffers
  <2>4. Records'
    BY <2>1 DEF Records
  <2> QED BY <2>2, <2>3, <2>4
<1>6. CASE ParseNext
  <2>1. /\ UNCHANGED <<filled, retries, list_ed, rest, list_sd, sd_now, has_1st_bos, spillID,
                       spillID_local, spillID_cntr, spillID_slow, turn_late, processed>>
        /\ list_ed_now' = NoMap /\ stage' = "parsing" /\ rest = {}
    BY <1>6 DEF ParseNext, blankVars
  <2>2. DOMAIN list_ed_now' = {}
    BY <2>1 DEF NoMap
  <2>3. TypeOK'
    BY <1>1, <2>1, <2>2 DEF TypeOK
  <2>4. Buffers'
    BY <2>1, <2>2 DEF Buffers
  <2>5. Records'
    BY <2>1 DEF Records
  <2> QED BY <2>3, <2>4, <2>5
<1> QED BY <1>3, <1>4, <1>5, <1>6

\* The invariant is kept by every step.
LEMMA IInvStep == IInv /\ [Next]_vars => IInv'
<1> SUFFICES ASSUME IInv, [Next]_vars
             PROVE  IInv'
  OBVIOUS
<1> USE DEF IInv
<1>0. filled \subseteq Blanks /\ retries \in 0..MAX_RETRIES /\ CodaTypeOK
      /\ stage \in {"start", "opening", "parsing", "reading", "reopening", "jumping", "handing", "ended"}
  BY DEF TypeOK
<1>1. CASE DaqStep /\ UNCHANGED <<stage, blankVars, parserVars>>
  <2>1. UNCHANGED codaVars
    BY <1>1 DEF DaqStep, DaqWrite, DaqEnd, DaqDie, DaqNextRun
  <2>2. UNCHANGED parserVars /\ UNCHANGED <<stage, filled, retries>> /\ CodaTypeOK'
    BY <1>0, <1>1, DaqTypes DEF blankVars
  <2>3. TypeOK' /\ Buffers' /\ Records'
    BY <1>0, <2>2, DataKept
  <2>4. Calling' /\ Position'
    <3>1. UNCHANGED <<pc, m_go_end, m_event_count, toRead, event_count, ok, stage, retries,
                      processed, spillID_local>>
      BY <2>1, <2>2 DEF codaVars, parserVars
    <3> QED BY <2>2, <3>1, PositionKept
  <2> QED BY <2>3, <2>4
<1>2. CASE DaqFill
  <2>1. /\ UNCHANGED <<daqVars, codaVars, stage, retries, parserVars>> /\ filled \subseteq filled'
        /\ filled' \subseteq Blanks
    BY <1>0, <1>2 DEF DaqFill
  <2>2. UNCHANGED parserVars /\ CodaTypeOK'
    BY <1>0, <2>1 DEF CodaTypeOK, daqVars, codaVars
  <2>3. TypeOK' /\ Buffers' /\ Records'
    BY <1>0, <2>1, <2>2, DataKept
  <2>4. Calling' /\ Position'
    <3>1. UNCHANGED <<pc, m_go_end, m_event_count, toRead, event_count, ok, stage, retries,
                      processed, spillID_local>>
      BY <2>1 DEF codaVars, parserVars
    <3> QED BY <2>1, <3>1, PositionKept
  <2> QED BY <2>3, <2>4
<1>3. CASE ReaderStep
  <2>1. CodaStep /\ UNCHANGED parserVars /\ UNCHANGED <<stage, filled, retries>>
    BY <1>3 DEF ReaderStep, blankVars
  <2>2. pc = "evRead" => toRead > 0
    BY <1>0 DEF Calling
  <2>3. CodaTypeOK'
    BY <1>0, <2>1, <2>2, ReaderTypes
  <2> QED BY <1>0, <1>3, <2>1, <2>3, ReaderPosition, DataKept
<1>4. CASE ParserStep
  <2>1. CASE Handler
    BY <2>1, HandlerPosition, HandlerData, HandlerRecords
  <2>2. CASE \/ OpenCodaFile \/ Opened \/ NextCodaEvent \/ NoCodaEvent
             \/ Blank \/ JumpBack \/ Retried \/ HandOut \/ ParseNext
    BY <2>2, ParserPosition, ParserData
  <2> QED BY <1>4, <2>1, <2>2 DEF ParserStep, Handler
<1>5. CASE UNCHANGED vars
  <2>1. UNCHANGED parserVars /\ UNCHANGED <<daqVars, codaVars, stage, blankVars>>
    BY <1>5 DEF vars
  <2>2. CodaTypeOK' /\ filled' = filled /\ retries' = retries
    BY <1>0, <2>1 DEF CodaTypeOK, daqVars, codaVars, blankVars
  <2>3. TypeOK' /\ Buffers' /\ Records'
    BY <1>0, <2>1, <2>2, DataKept
  <2>4. Calling' /\ Position'
    <3>1. UNCHANGED <<pc, m_go_end, m_event_count, toRead, event_count, ok, stage, retries,
                      processed, spillID_local>>
      BY <2>1 DEF codaVars, parserVars, blankVars
    <3> QED BY <2>2, <3>1, PositionKept
  <2> QED BY <2>3, <2>4
<1> QED BY <1>1, <1>2, <1>3, <1>4, <1>5 DEF Next, Terminated

\* The invariant holds before the file is opened.
LEMMA InitIInv == Init => IInv
<1> SUFFICES ASSUME Init
             PROVE  IInv
  OBVIOUS
<1> USE DEF Init
<1>1. CodaTypeOK
  <2>1. 0 \in 0..(NBlocks * BLOCK) /\ 0 \in 0..NCodaEvents /\ 0 \in CodaEvents
    BY FileFacts
  <2> QED BY <2>1 DEF CodaInit, CodaTypeOK
<1>2. DOMAIN NoMap = {}
  BY DEF NoMap
<1>3. TypeOK
  <2>1. 0 \in 0..NCodaEvents /\ 0 \in 0..MAX_RETRIES /\ 0 \in 0..UINT_MAX /\ 0 \in SpillIDs
    BY FileFacts DEF SpillIDs
  <2> QED BY <1>1, <1>2, <2>1 DEF TypeOK
<1>4. Calling /\ Position
  BY DEF CodaInit, Calling, Position
<1>5. Buffers
  BY <1>2 DEF Buffers
<1>6. Records
  <2>1. \A t : \A b \in Of(t) : ~(b < 0)
    BY FileFacts DEF Of
  <2>2. Spills(0) = 0
    <3>1. {b \in Of("bos") : b < 0} = {}
      BY <2>1
    <3> QED BY <3>1, FS_EmptySet DEF Spills
  <2>3. \A k : At(list_sd, k, NoRecord) = NoRecord
    BY <1>2 DEF At
  <2> QED BY <2>1, <2>2, <2>3 DEF Records, NoRecord
<1> QED BY <1>3, <1>4, <1>5, <1>6 DEF IInv

-----------------------------------------------------------------------------
(* The theorems *)

\* Where the reader stands, what the buffers hold and what the records are made
\* of, for every file, every growth of it, every end of the run and every choice
\* of the blank events.
THEOREM Invariance == Spec => []IInv
BY InitIInv, IInvStep, PTL DEF Spec

\* The variables of the decoder have their types: no index is out of the range of
\* the unsigned int, whatever the slow control says and however often a retry
\* repeats a BOS.
THEOREM TypeCorrect == Spec => []TypeOK
<1>1. IInv => TypeOK
  BY DEF IInv
<1> QED BY Invariance, <1>1, PTL

\* A record of a spill that is handed out is complete.
LEMMA RecordComplete ==
  ASSUME IInv, stage = "handing", retries = 0 \/ Harmless, NEW t \in {"bos", "eos"}
  PROVE  {b \in Of(t) : b < processed /\ SpillOf[b] = sd_now} = {b \in Of(t) : SpillOf[b] = sd_now}
<1>1. spillID = sd_now + 1 /\ spillID = Spills(processed) /\ processed \in Nat /\ spillID \in Nat
      /\ sd_now \in 0..UINT_MAX
  BY FileFacts DEF IInv, Buffers, Records, TypeOK, SpillIDs
<1>2. ASSUME NEW b \in Of(t), SpillOf[b] = sd_now
      PROVE  b < processed
  <2>1. b \in CodaEvents /\ b \in Nat
    BY FileFacts DEF Of
  <2>2. Spills(b + 1) = sd_now
    BY <1>2, <2>1, SpillOfIs
  <2>3. CASE processed <= b + 1
    <3>1. Spills(processed) <= Spills(b + 1)
      BY <1>1, <2>1, <2>3, SpillsMonotone
    <3> QED BY <1>1, <2>2, <3>1, FileFacts
  <2>4. CASE ~(processed <= b + 1)
    BY <1>1, <2>1, <2>4
  <2> QED BY <2>3, <2>4
<1> QED BY <1>2

\* As long as no blank event was met, and at any time if no retry counts a BOS
\* twice and no BOS or EOS is blank, an event is handed out with the record of its
\* own spill, which has the BOS and the EOS of that spill and no other.
THEOREM RecordMatchesUnlessRetried == Spec => [](retries = 0 \/ Harmless => RecordMatches)
<1>1. IInv => (retries = 0 \/ Harmless => RecordMatches)
  <2> SUFFICES ASSUME IInv, retries = 0 \/ Harmless, stage = "handing"
               PROVE  \A id \in DOMAIN list_ed_now :
                        /\ list_ed_now[id].spillID = sd_now
                        /\ list_sd[sd_now].bos = {b \in Of("bos") : SpillOf[b] = sd_now}
                        /\ list_sd[sd_now].eos = {e \in Of("eos") : SpillOf[e] = sd_now}
    BY DEF RecordMatches
  <2>1. /\ \A id \in DOMAIN list_ed_now : list_ed_now[id].spillID = sd_now
        /\ sd_now \in DOMAIN list_sd
    BY DEF IInv, Buffers
  <2>2. sd_now \in 0..UINT_MAX /\ At(list_sd, sd_now, NoRecord) = list_sd[sd_now]
    BY <2>1 DEF IInv, TypeOK, At
  <2>3. /\ list_sd[sd_now].bos = {b \in Of("bos") : b < processed /\ SpillOf[b] = sd_now}
        /\ list_sd[sd_now].eos = {e \in Of("eos") : e < processed /\ SpillOf[e] = sd_now}
    BY <2>2 DEF IInv, Records
  <2>4. /\ {b \in Of("bos") : b < processed /\ SpillOf[b] = sd_now} = {b \in Of("bos") : SpillOf[b] = sd_now}
        /\ {b \in Of("eos") : b < processed /\ SpillOf[b] = sd_now} = {b \in Of("eos") : SpillOf[b] = sd_now}
    BY RecordComplete
  <2> QED BY <2>1, <2>3, <2>4
<1> QED BY Invariance, <1>1, PTL

\* If no retry counts a BOS twice and no BOS or EOS is blank, an event is always
\* handed out with the complete record of its own spill.
THEOREM RecordMatchesCorrect == ASSUME Harmless PROVE Spec => []RecordMatches
<1>1. (retries = 0 \/ Harmless => RecordMatches) => RecordMatches
  OBVIOUS
<1> QED BY RecordMatchesUnlessRetried, <1>1, PTL

-----------------------------------------------------------------------------
(* What is handed out *)

\* The flush events whose data are in list_ed.
Collecting(skipped) ==
  IF spillID = 0 THEN {} ELSE {c \in FlushOf(spillID, skipped) : c < processed}

\* The map has what is in the flush events of S.
Collected(map, S) ==
  /\ DOMAIN map = UNION {CodaFile[c].ids : c \in S}
  /\ \A id \in DOMAIN map :
       /\ Range(map[id].hits) = {c \in S : id \in CodaFile[c].ids}
       /\ map[id].nim3 <=> LastNim3(S, id)
       /\ map[id].onset <=> LastOnset(S, id)

Collects(skipped) ==
  /\ has_1st_bos <=> spillID > 0
  /\ Collected(list_ed, Collecting(skipped))
  /\ turn_late <=> \E c \in Collecting(skipped) : CodaFile[c].late

\* The events that are handed out are those of spill sd_now.
Hands(skipped) ==
  stage = "handing" =>
    /\ sd_now > 0
    /\ DOMAIN list_ed_now = IDsOf(sd_now, skipped)
    /\ \A id \in DOMAIN list_ed_now : Range(list_ed_now[id].hits) = HitsOf(sd_now, id, skipped)

\* The keys of the events that are still to be handed out.
Pending == IF stage = "handing" THEN {[spillID |-> sd_now, id |-> id] : id \in rest} ELSE {}

HandedOut(skipped) ==
  /\ {Key(out[i]) : i \in DOMAIN out} = Keys(processed, skipped) \ Pending
  /\ \A i \in DOMAIN out : Range(out[i].hits) = HitsOf(out[i].spillID, out[i].id, skipped)
  /\ \A i, j \in DOMAIN out : i < j => Precedes(out[i], out[j])
  /\ \A i \in DOMAIN out : \A d \in Pending : Precedes(out[i], d)

Content(skipped) ==
  /\ \A s \in skipped : s + 1 < processed
  /\ Collects(skipped) /\ Hands(skipped) /\ HandedOut(skipped)

\* Without a blank event the hits are collected in order.
Rising(hits)   == \A j, k \in DOMAIN hits : j < k => hits[j] < hits[k]
RisingIn(map)  == \A id \in DOMAIN map : Rising(map[id].hits)
HitsCollected  ==
  retries = 0 => RisingIn(list_ed) /\ RisingIn(list_ed_now) /\ \A i \in DOMAIN out : Rising(out[i].hits)

OutData == [id : EventIDs, spillID : SpillIDs, hits : Seq(CodaEvents)]

\* Some of the blank events were skipped, and the rest of the file is in the output.
DInv ==
  /\ out \in Seq(OutData)
  /\ retries = 0 \/ Harmless =>
       \E skipped \in SUBSET Blanks : (retries = 0 => skipped = {}) /\ Content(skipped)
  /\ HitsCollected

\* Every physics event has a natural number.
LEMMA EventIDsAreNats == EventIDs \subseteq Nat
<1>1. \A c \in CodaEvents : CodaFile[c].ids \subseteq Nat
  BY ParserAssumption DEF Written
<1> QED BY <1>1 DEF EventIDs

\* When event p is handled, the blank events that were passed over are skipped.
Skipped(skipped, p) == skipped \cup processed..(p - 1)

\* What is known when event p is handled.
Handling(skipped, p) ==
  /\ p \in CodaEvents /\ p \in Nat /\ Standing(p) /\ ~IsBlank(p) /\ processed \in Nat
  /\ retries = 0 \/ Harmless
  /\ spillID = Spills(processed) /\ spillID \in Nat
  /\ skipped \in SUBSET Blanks /\ (retries = 0 => skipped = {})
  /\ \A s \in skipped : s + 1 < processed

\* The events that are skipped are blank and lie behind the spills that are over.
LEMMA SkippedIs ==
  ASSUME NEW skipped, NEW p, Handling(skipped, p)
  PROVE  /\ Skipped(skipped, p) \in SUBSET Blanks
         /\ retries = 0 => Skipped(skipped, p) = {}
         /\ \A s \in Skipped(skipped, p) : s + 1 < p + 1
         /\ \A c \in Of("flush") : (c \notin Skipped(skipped, p) /\ c < p + 1)
                                     <=> ((c \notin skipped /\ c < processed) \/ c = p)
<1>1. /\ p \in Nat /\ processed \in Nat /\ processed - 1 <= p /\ \A e \in processed..(p - 1) : e \in Blanks
      /\ \A s \in skipped : s \in Nat /\ s + 1 < processed
      /\ retries = 0 => p = processed
  BY FileFacts DEF Handling, Standing
<1>2. Skipped(skipped, p) \in SUBSET Blanks
  BY <1>1 DEF Skipped, Handling
<1>3. retries = 0 => Skipped(skipped, p) = {}
  BY <1>1 DEF Skipped, Handling
<1>4. \A s \in Skipped(skipped, p) : s + 1 < p + 1
  BY <1>1 DEF Skipped
<1>5. ASSUME NEW c \in Of("flush")
      PROVE  (c \notin Skipped(skipped, p) /\ c < p + 1) <=> ((c \notin skipped /\ c < processed) \/ c = p)
  <2>1. c \in Nat
    BY FileFacts DEF Of
  <2>2. c \in Skipped(skipped, p) <=> c \in skipped \/ (processed <= c /\ c < p)
    BY <1>1, <2>1 DEF Skipped
  <2>3. c \in skipped => c + 1 < processed
    BY <1>1
  <2> QED BY <1>1, <2>1, <2>2, <2>3
<1> QED BY <1>2, <1>3, <1>4, <1>5

\* The spills that are over have no event behind the last one that is processed.
LEMMA OverBehind ==
  ASSUME NEW n \in Nat, NEW c \in CodaEvents, SpillOf[c] < Spills(n)
  PROVE  c < n
<1>1. c \in Nat /\ SpillOf[c] = Spills(c + 1)
  BY SpillOfIs, FileFacts
<1>2. CASE n <= c + 1
  BY <1>1, <1>2, SpillsMonotone
<1>3. CASE ~(n <= c + 1)
  BY <1>1, <1>3
<1> QED BY <1>2, <1>3

\* The skipped events do not change the spills that are over.
LEMMA OverKept ==
  ASSUME NEW skipped, NEW p, Handling(skipped, p), NEW k \in Nat, k < spillID
  PROVE  /\ FlushOf(k, Skipped(skipped, p)) = FlushOf(k, skipped)
         /\ IDsOf(k, Skipped(skipped, p)) = IDsOf(k, skipped)
         /\ \A id : HitsOf(k, id, Skipped(skipped, p)) = HitsOf(k, id, skipped)
<1>1. ASSUME NEW c \in Of("flush"), SpillOf[c] = k
      PROVE  c \in Skipped(skipped, p) <=> c \in skipped
  <2>1. c \in CodaEvents /\ c \in Nat /\ c < processed
    BY <1>1, OverBehind, FileFacts DEF Of, Handling
  <2> QED BY <2>1 DEF Skipped, Handling
<1>2. FlushOf(k, Skipped(skipped, p)) = FlushOf(k, skipped)
  BY <1>1 DEF FlushOf
<1> QED BY <1>2 DEF IDsOf, HitsOf, LeftOut

\* The keys of the spills that are over, with those of the spill that ends.
LEMMA KeysHandled ==
  ASSUME NEW skipped, NEW p, Handling(skipped, p)
  PROVE  Keys(p + 1, Skipped(skipped, p)) =
           Keys(processed, skipped)
             \cup (IF CodaFile[p].type = "bos" /\ spillID > 0
                   THEN {[spillID |-> spillID, id |-> id] : id \in IDsOf(spillID, Skipped(skipped, p))}
                   ELSE {})
<1> DEFINE X         == Skipped(skipped, p)
           Of1(k, S) == {[spillID |-> k, id |-> id] : id \in IDsOf(k, S)}
<1>1. Spills(p + 1) = spillID + (IF CodaFile[p].type = "bos" THEN 1 ELSE 0)
  BY SpillsHandled DEF Handling
<1>2. spillID = Spills(processed) /\ spillID \in Nat
  BY DEF Handling
<1>3. ASSUME NEW k \in 1..(spillID - 1)
      PROVE  Of1(k, X) = Of1(k, skipped)
  <2>1. k \in Nat /\ k < spillID
    BY <1>2
  <2>2. IDsOf(k, X) = IDsOf(k, skipped)
    BY <2>1, OverKept
  <2> QED BY <2>2
<1>4. Keys(processed, skipped) = UNION {Of1(k, skipped) : k \in 1..(spillID - 1)}
  BY <1>2 DEF Keys
<1>5. Keys(p + 1, X) = UNION {Of1(k, X) : k \in 1..(Spills(p + 1) - 1)}
  BY DEF Keys
<1> HIDE DEF Of1, X
<1>6. UNION {Of1(k, X) : k \in 1..(spillID - 1)} = UNION {Of1(k, skipped) : k \in 1..(spillID - 1)}
  BY <1>3
<1>7. CASE CodaFile[p].type = "bos" /\ spillID > 0
  <2>1. 1..(Spills(p + 1) - 1) = 1..(spillID - 1) \cup {spillID}
    BY <1>1, <1>2, <1>7
  <2>2. \A d : d \in Keys(p + 1, X) <=> d \in Keys(processed, skipped) \/ d \in Of1(spillID, X)
    <3>1. \A d : d \in Keys(p + 1, X) <=> \E k \in 1..(spillID - 1) \cup {spillID} : d \in Of1(k, X)
      BY <1>5, <2>1
    <3>2. \A d : d \in Keys(processed, skipped) <=> \E k \in 1..(spillID - 1) : d \in Of1(k, X)
      BY <1>3, <1>4
    <3> QED BY <3>1, <3>2
  <2>3. Keys(p + 1, X) = Keys(processed, skipped) \cup Of1(spillID, X)
    BY <2>2
  <2>4. Of1(spillID, X) = {[spillID |-> spillID, id |-> id] : id \in IDsOf(spillID, X)}
    BY DEF Of1
  <2> QED BY <1>7, <2>3, <2>4 DEF X
<1>8. CASE ~(CodaFile[p].type = "bos" /\ spillID > 0)
  <2>1. 1..(Spills(p + 1) - 1) = 1..(spillID - 1)
    BY <1>1, <1>2, <1>8
  <2>2. Keys(p + 1, X) = Keys(processed, skipped)
    BY <1>4, <1>5, <1>6, <2>1
  <2> QED BY <1>8, <2>2 DEF X
<1> QED BY <1>7, <1>8

\* What is a key.
LEMMA KeyIn ==
  ASSUME NEW n, NEW skipped, NEW d
  PROVE  d \in Keys(n, skipped) <=>
           \E k \in 1..(Spills(n) - 1) : \E id \in IDsOf(k, skipped) : d = [spillID |-> k, id |-> id]
BY DEF Keys

\* The range of a sequence that gets longer.
LEMMA RangeAppend ==
  ASSUME NEW T, NEW s \in Seq(T), NEW x
  PROVE  Range(Append(s, x)) = Range(s) \cup {x}
<1>1. \A y : y \in Range(s) <=> \E i \in 1..Len(s) : y = s[i]
  BY DEF Range
<1>2. \A y : y \in Range(Append(s, x)) <=> \E i \in 1..(Len(s) + 1) : y = Append(s, x)[i]
  BY DEF Range
<1>3. \A i \in 1..Len(s) : Append(s, x)[i] = s[i]
  OBVIOUS
<1>4. Append(s, x)[Len(s) + 1] = x /\ 1..(Len(s) + 1) = 1..Len(s) \cup {Len(s) + 1}
  BY Len(s) \in Nat
<1>5. \A y : y \in Range(Append(s, x)) <=> y \in Range(s) \/ y = x
  BY <1>1, <1>2, <1>3, <1>4
<1> QED BY <1>5

\* Hits that rise go on to rise with one that is behind them all.
LEMMA RisingAppend ==
  ASSUME NEW s \in Seq(CodaEvents), Rising(s), NEW c \in CodaEvents, \A h \in Range(s) : h < c
  PROVE  Rising(Append(s, c))
<1>1. \A i \in 1..Len(s) : s[i] < c
  BY DEF Range
<1>2. \A j, k \in 1..Len(s) : j < k => s[j] < s[k]
  BY DEF Rising
<1>3. DOMAIN Append(s, c) = 1..(Len(s) + 1) /\ Len(s) \in Nat
  OBVIOUS
<1>4. ASSUME NEW j \in 1..(Len(s) + 1), NEW k \in 1..(Len(s) + 1), j < k
      PROVE  Append(s, c)[j] < Append(s, c)[k]
  <2>1. j \in 1..Len(s) /\ Append(s, c)[j] = s[j]
    BY <1>3, <1>4
  <2>2. CASE k = Len(s) + 1
    BY <1>1, <2>1, <2>2
  <2>3. CASE k # Len(s) + 1
    <3>1. k \in 1..Len(s) /\ Append(s, c)[k] = s[k]
      BY <1>3, <2>3
    <3> QED BY <1>2, <1>4, <2>1, <3>1
  <2> QED BY <2>2, <2>3
<1> QED BY <1>3, <1>4 DEF Rising

\* The trigger bits and the QIE record of a flush event behind the others, if it has
\* them, are the last ones.
LEMMA LastOfAll ==
  ASSUME NEW S \in SUBSET CodaEvents, NEW c \in CodaEvents, \A b \in S : b <= c, NEW id
  PROVE  /\ LastNim3(S \cup {c}, id)
              <=> IF id \in CodaFile[c].trig THEN id \in CodaFile[c].nim3 ELSE LastNim3(S, id)
         /\ LastOnset(S \cup {c}, id)
              <=> IF id \in CodaFile[c].qie THEN id \in CodaFile[c].onset ELSE LastOnset(S, id)
<1>1. /\ \A b \in S : b \in Nat
      /\ c \in Nat
      /\ \A b \in CodaEvents : id \in CodaFile[b].nim3 => id \in CodaFile[b].trig
      /\ \A b \in CodaEvents : id \in CodaFile[b].onset => id \in CodaFile[b].qie
  BY FileFacts, ParserAssumption
<1>2. /\ \A b \in S \cup {c} : ~(b > c)
      /\ \A b \in S : b = c \/ c > b
  BY <1>1
<1>3. LastNim3(S \cup {c}, id)
        <=> IF id \in CodaFile[c].trig THEN id \in CodaFile[c].nim3 ELSE LastNim3(S, id)
  BY <1>1, <1>2 DEF LastNim3
<1>4. LastOnset(S \cup {c}, id)
        <=> IF id \in CodaFile[c].qie THEN id \in CodaFile[c].onset ELSE LastOnset(S, id)
  BY <1>1, <1>2 DEF LastOnset
<1> QED BY <1>3, <1>4

\* What the map has of a physics event, whether it is in the map or not.
LEMMA CollectedAt ==
  ASSUME NEW map, NEW S \in SUBSET CodaEvents, Collected(map, S), NEW id
  PROVE  /\ Range(At(map, id, NoData).hits) = {c \in S : id \in CodaFile[c].ids}
         /\ At(map, id, NoData).nim3 <=> LastNim3(S, id)
         /\ At(map, id, NoData).onset <=> LastOnset(S, id)
<1>1. CASE id \in DOMAIN map
  BY <1>1 DEF At, Collected
<1>2. CASE id \notin DOMAIN map
  <2>1. At(map, id, NoData) = NoData
    BY <1>2 DEF At
  <2>2. \A c \in S : id \notin CodaFile[c].ids
    BY <1>2 DEF Collected
  <2>3. ~LastNim3(S, id) /\ ~LastOnset(S, id)
    BY <2>2, ParserAssumption DEF LastNim3, LastOnset
  <2>4. Range(<<>>) = {}
    BY DEF Range
  <2> QED BY <2>1, <2>2, <2>3, <2>4 DEF NoData
<1> QED BY <1>1, <1>2

\* A flush event adds its own data, and nothing else, to what is collected.
LEMMA FlushCollects ==
  ASSUME EventMap(list_ed), event_count \in CodaEvents,
         NEW S \in SUBSET CodaEvents, Collected(list_ed, S), \A b \in S : b <= event_count,
         NEW new, new = [id \in DOMAIN list_ed \cup CodaFile[event_count].ids |->
                           IF id \in CodaFile[event_count].ids THEN AddData(id) ELSE list_ed[id]]
  PROVE  Collected(new, S \cup {event_count})
<1> DEFINE c == event_count
           d(id) == At(list_ed, id, NoData)
<1>1. DOMAIN new = UNION {CodaFile[b].ids : b \in S \cup {c}}
  <2>1. DOMAIN new = DOMAIN list_ed \cup CodaFile[c].ids
    OBVIOUS
  <2>2. \A id : id \in DOMAIN list_ed <=> \E b \in S : id \in CodaFile[b].ids
    BY DEF Collected
  <2>3. \A id : id \in DOMAIN new <=> \E b \in S \cup {c} : id \in CodaFile[b].ids
    BY <2>1, <2>2
  <2> QED BY <2>3
<1>2. ASSUME NEW id \in DOMAIN new
      PROVE  /\ Range(new[id].hits) = {b \in S \cup {c} : id \in CodaFile[b].ids}
             /\ new[id].nim3 <=> LastNim3(S \cup {c}, id)
             /\ new[id].onset <=> LastOnset(S \cup {c}, id)
  <2>1. /\ Range(d(id).hits) = {b \in S : id \in CodaFile[b].ids}
        /\ d(id).nim3 <=> LastNim3(S, id)
        /\ d(id).onset <=> LastOnset(S, id)
    BY CollectedAt
  <2>5. /\ LastNim3(S \cup {c}, id)
             <=> IF id \in CodaFile[c].trig THEN id \in CodaFile[c].nim3 ELSE LastNim3(S, id)
        /\ LastOnset(S \cup {c}, id)
             <=> IF id \in CodaFile[c].qie THEN id \in CodaFile[c].onset ELSE LastOnset(S, id)
    BY LastOfAll
  <2>2. d(id).hits \in Seq(CodaEvents)
    <3>1. CASE id \in DOMAIN list_ed
      <4>1. d(id) = list_ed[id] /\ list_ed[id] \in EventData
        BY <3>1 DEF At, EventMap
      <4> QED BY <4>1 DEF EventData
    <3>2. CASE id \notin DOMAIN list_ed
      <4>1. d(id).hits = <<>>
        BY <3>2 DEF At, NoData
      <4> QED BY <4>1
    <3> QED BY <3>1, <3>2
  <2>3. CASE id \in CodaFile[c].ids
    <3>1. new[id] = AddData(id)
      BY <2>3
    <3>2. /\ new[id].hits = Append(d(id).hits, c)
          /\ new[id].nim3 = (IF id \in CodaFile[c].trig THEN id \in CodaFile[c].nim3 ELSE d(id).nim3)
          /\ new[id].onset = (IF id \in CodaFile[c].qie THEN id \in CodaFile[c].onset ELSE d(id).onset)
      BY <3>1 DEF AddData, NIM3With, OnsetWith
    <3>3. Range(new[id].hits) = Range(d(id).hits) \cup {c}
      BY <2>2, <3>2, RangeAppend
    <3> HIDE DEF d
    <3>4. Range(new[id].hits) = {b \in S \cup {c} : id \in CodaFile[b].ids}
      BY <2>1, <2>3, <3>3
    <3>5. new[id].nim3 <=> LastNim3(S \cup {c}, id)
      BY <2>1, <2>5, <3>2, Zenon
    <3>6. new[id].onset <=> LastOnset(S \cup {c}, id)
      BY <2>1, <2>5, <3>2, Zenon
    <3> QED BY <3>4, <3>5, <3>6
  <2>4. CASE id \notin CodaFile[c].ids
    <3>1. new[id] = list_ed[id] /\ id \in DOMAIN list_ed
      BY <2>4
    <3>2. id \notin CodaFile[c].trig /\ id \notin CodaFile[c].qie
      BY <2>4, ParserAssumption
    <3>3. /\ LastNim3(S \cup {c}, id) <=> LastNim3(S, id)
          /\ LastOnset(S \cup {c}, id) <=> LastOnset(S, id)
      BY <2>5, <3>2, Zenon
    <3> QED BY <2>4, <3>1, <3>3 DEF Collected
  <2> QED BY <2>3, <2>4
<1> QED BY <1>1, <1>2 DEF Collected

\* The handlers, but that of BOS, leave alone what is handed out; but that of flush
\* events, they leave alone what is collected.
LEMMA HandlerKeeps ==
  ASSUME Handler
  PROVE  /\ out' = out
         /\ CodaFile[event_count].type # "bos" => UNCHANGED <<has_1st_bos, spillID, list_ed_now, rest>>
         /\ CodaFile[event_count].type \notin {"bos", "flush"} => UNCHANGED <<list_ed, turn_late>>
         /\ CodaFile[event_count].type = "flush" => ProcessPhysFlush
<1> USE DEF Returned, blankVars
<1>1. CASE ProcessCodaPrestart
  BY <1>1 DEF ProcessCodaPrestart
<1>2. CASE ProcessCodaEnd
  BY <1>2 DEF ProcessCodaEnd
<1>3. CASE ProcessOther
  BY <1>3 DEF ProcessOther
<1>4. CASE ProcessPhysFlush
  <2>1. UNCHANGED <<out, has_1st_bos, spillID, list_ed_now, rest>> /\ CodaFile[event_count].type = "flush"
    BY <1>4 DEF ProcessPhysFlush
  <2> QED BY <1>4, <2>1
<1>5. CASE ProcessPhysSlow
  BY <1>5 DEF ProcessPhysSlow
<1>6. CASE ProcessPhysSpillCounter
  BY <1>6 DEF ProcessPhysSpillCounter
<1>7. CASE ProcessPhysBOS
  BY <1>7 DEF ProcessPhysBOS
<1>8. CASE ProcessPhysEOS
  BY <1>8 DEF ProcessPhysEOS
<1> QED BY <1>1, <1>2, <1>3, <1>4, <1>5, <1>6, <1>7, <1>8 DEF Handler

\* The events that are collected belong to the file.
LEMMA CollectingType ==
  ASSUME NEW skipped
  PROVE  Collecting(skipped) \in SUBSET CodaEvents
BY DEF Collecting, FlushOf, Of

\* While a spill goes on, its flush event is one more to be collected.
LEMMA CollectingHandled ==
  ASSUME NEW skipped, NEW p, Handling(skipped, p), NEW Y, Y = Skipped(skipped, p),
         processed' = p + 1, spillID' = spillID, CodaFile[p].type # "bos"
  PROVE  Collecting(Y)' = Collecting(skipped)
                            \cup (IF CodaFile[p].type = "flush" /\ spillID > 0 THEN {p} ELSE {})
<1>1. \A c \in Of("flush") : (c \notin Y /\ c < p + 1) <=> ((c \notin skipped /\ c < processed) \/ c = p)
  BY SkippedIs
<1>2. p \in CodaEvents /\ p \in Nat /\ spillID \in Nat
  BY DEF Handling
<1>3. SpillOf[p] = spillID
  <2>1. Spills(p + 1) = spillID
    BY SpillsHandled DEF Handling
  <2> QED BY <1>2, <2>1, SpillOfIs
<1>4. Collecting(Y)' = IF spillID = 0 THEN {} ELSE {c \in FlushOf(spillID, Y) : c < p + 1}
  BY DEF Collecting
<1>5. CASE spillID = 0
  BY <1>4, <1>5 DEF Collecting
<1>6. CASE spillID # 0
  <2>1. {c \in FlushOf(spillID, Y) : c < p + 1}
          = {c \in Of("flush") : SpillOf[c] = spillID /\ ((c \notin skipped /\ c < processed) \/ c = p)}
    BY <1>1 DEF FlushOf
  <2>2. p \in Of("flush") <=> CodaFile[p].type = "flush"
    BY <1>2 DEF Of
  <2>3. Collecting(skipped) = {c \in Of("flush") : SpillOf[c] = spillID /\ c \notin skipped /\ c < processed}
    BY <1>6 DEF Collecting, FlushOf
  <2>4. {c \in Of("flush") : SpillOf[c] = spillID /\ ((c \notin skipped /\ c < processed) \/ c = p)}
          = Collecting(skipped) \cup (IF CodaFile[p].type = "flush" THEN {p} ELSE {})
    BY <1>3, <2>2, <2>3
  <2> QED BY <1>2, <1>4, <1>6, <2>1, <2>4
<1> QED BY <1>5, <1>6

\* While a spill goes on, what is in its flush events is collected.
LEMMA HandlerCollects ==
  ASSUME TypeOK, Handler, CodaFile[event_count].type # "bos", NEW skipped, NEW p, p = event_count,
         Handling(skipped, p), NEW Y, Y = Skipped(skipped, p), Collects(skipped)
  PROVE  Collects(Y)'
<1>1. /\ UNCHANGED <<has_1st_bos, spillID>> /\ processed' = p + 1
      /\ CodaFile[p].type # "flush" => UNCHANGED <<list_ed, turn_late>>
      /\ CodaFile[p].type = "flush" => ProcessPhysFlush
  BY HandlerKeeps, HandlerIs
<1>2. Collecting(Y)' = Collecting(skipped)
                         \cup (IF CodaFile[p].type = "flush" /\ spillID > 0 THEN {p} ELSE {})
  BY <1>1, CollectingHandled
<1>3. /\ has_1st_bos <=> spillID > 0
      /\ Collected(list_ed, Collecting(skipped))
      /\ turn_late <=> \E c \in Collecting(skipped) : CodaFile[c].late
  BY DEF Collects
<1>4. (has_1st_bos <=> spillID > 0)'
  BY <1>1, <1>3
<1>5. CASE CodaFile[p].type = "flush" /\ has_1st_bos
  <2>1. /\ list_ed' = [id \in DOMAIN list_ed \cup CodaFile[event_count].ids |->
                         IF id \in CodaFile[event_count].ids THEN AddData(id) ELSE list_ed[id]]
        /\ turn_late' = (turn_late \/ CodaFile[event_count].late)
    BY <1>1, <1>5 DEF ProcessPhysFlush
  <2>2. Collecting(Y)' = Collecting(skipped) \cup {event_count}
    BY <1>2, <1>3, <1>5
  <2>3. EventMap(list_ed) /\ event_count \in CodaEvents
    BY DEF TypeOK, CodaTypeOK, EventMap
  <2>8. \A c \in Collecting(skipped) : c <= event_count
    <3>1. processed - 1 <= p /\ p \in Nat /\ processed \in Nat
      BY DEF Handling, Standing
    <3>2. \A c \in Collecting(skipped) : c \in Nat /\ c < processed
      BY FileFacts DEF Collecting, FlushOf, Of
    <3> QED BY <3>1, <3>2
  <2>4. Collected(list_ed', Collecting(skipped) \cup {event_count})
    BY <1>3, <2>1, <2>3, <2>8, CollectingType, FlushCollects
  <2>5. turn_late' <=> \E c \in Collecting(skipped) \cup {event_count} : CodaFile[c].late
    BY <1>3, <2>1, Zenon
  <2>6. Collected(list_ed, Collecting(Y))'
    BY <2>2, <2>4 DEF Collected
  <2>7. (turn_late <=> \E c \in Collecting(Y) : CodaFile[c].late)'
    BY <2>2, <2>5
  <2> QED BY <1>4, <2>6, <2>7 DEF Collects
<1>6. CASE ~(CodaFile[p].type = "flush" /\ has_1st_bos)
  <2>1. UNCHANGED <<list_ed, turn_late>>
    BY <1>1, <1>6 DEF ProcessPhysFlush
  <2>2. Collecting(Y)' = Collecting(skipped)
    BY <1>2, <1>3, <1>6
  <2>3. Collected(list_ed, Collecting(Y))'
    BY <1>3, <2>1, <2>2 DEF Collected
  <2>4. (turn_late <=> \E c \in Collecting(Y) : CodaFile[c].late)'
    BY <1>3, <2>1, <2>2
  <2> QED BY <1>4, <2>3, <2>4 DEF Collects
<1> QED BY <1>5, <1>6

\* What a BOS event does with the two buffers.
LEMMA BosSwaps ==
  ASSUME ProcessPhysBOS
  PROVE  LET kept == {id \in DOMAIN list_ed : ~Dropped(id)}
         IN  /\ list_ed_now' = [id \in kept |-> list_ed[id]]
             /\ list_ed' = list_ed_now /\ rest' = kept /\ sd_now' = spillID
             /\ stage' = (IF kept = {} THEN "parsing" ELSE "handing")
             /\ has_1st_bos' = TRUE /\ turn_late' = FALSE
BY DEF ProcessPhysBOS, PackOneSpillData

\* At its end, the flush events of a spill are all collected.
LEMMA SpillCollected ==
  ASSUME NEW skipped, NEW p, Handling(skipped, p), NEW Y, Y = Skipped(skipped, p),
         CodaFile[p].type = "bos", spillID > 0
  PROVE  Collecting(skipped) = FlushOf(spillID, Y)
<1>1. \A c \in Of("flush") : (c \notin Y /\ c < p + 1) <=> ((c \notin skipped /\ c < processed) \/ c = p)
  BY SkippedIs
<1>2. p \in Nat /\ spillID \in Nat /\ Spills(p + 1) = spillID + 1
  BY SpillsHandled DEF Handling
<1>3. \A c \in Of("flush") : c # p /\ c \in CodaEvents
  BY DEF Of
<1>4. \A c \in Of("flush") : SpillOf[c] = spillID => c < p + 1
  BY <1>2, <1>3, OverBehind
<1>5. \A c \in Of("flush") : SpillOf[c] = spillID => (c \notin Y <=> (c \notin skipped /\ c < processed))
  BY <1>1, <1>3, <1>4
<1> QED BY <1>5 DEF Collecting, FlushOf

\* The events that are kept are those that are not to be left out.
LEMMA KeptIs ==
  ASSUME NEW skipped, NEW p, Handling(skipped, p), NEW Y, Y = Skipped(skipped, p),
         CodaFile[p].type = "bos", Collects(skipped)
  PROVE  {id \in DOMAIN list_ed : ~Dropped(id)} = IF spillID = 0 THEN {} ELSE IDsOf(spillID, Y)
<1>1. /\ DOMAIN list_ed = UNION {CodaFile[c].ids : c \in Collecting(skipped)}
      /\ turn_late <=> \E c \in Collecting(skipped) : CodaFile[c].late
      /\ \A id \in DOMAIN list_ed :
           /\ list_ed[id].nim3 <=> LastNim3(Collecting(skipped), id)
           /\ list_ed[id].onset <=> LastOnset(Collecting(skipped), id)
  BY DEF Collects, Collected
<1>2. CASE spillID = 0
  <2>1. Collecting(skipped) = {}
    BY <1>2 DEF Collecting
  <2>2. DOMAIN list_ed = {}
    BY <1>1, <2>1
  <2> QED BY <1>2, <2>2
<1>3. CASE spillID # 0
  <2>1. Collecting(skipped) = FlushOf(spillID, Y)
    BY <1>3, SpillCollected DEF Handling
  <2>2. \A id \in DOMAIN list_ed : Dropped(id) <=> LeftOut(spillID, id, Y)
    BY <1>1, <2>1 DEF Dropped, LeftOut
  <2>3. DOMAIN list_ed = UNION {CodaFile[c].ids : c \in FlushOf(spillID, Y)}
    BY <1>1, <2>1
  <2> QED BY <1>3, <2>2, <2>3 DEF IDsOf
<1> QED BY <1>2, <1>3

\* A new spill has no flush event before its BOS.
LEMMA NewSpill ==
  ASSUME NEW skipped, NEW p, Handling(skipped, p), NEW Y, Y = Skipped(skipped, p),
         CodaFile[p].type = "bos"
  PROVE  {c \in FlushOf(spillID + 1, Y) : c < p + 1} = {}
<1>1. p \in Nat /\ p \in CodaEvents /\ spillID \in Nat /\ Spills(p + 1) = spillID + 1
  BY SpillsHandled DEF Handling
<1>2. Spills(p) = spillID
  <2>1. Spills(p) \in Nat /\ Spills(p + 1) = Spills(p) + 1
    BY <1>1, SpillsMonotone, SpillsNext
  <2> QED BY <1>1, <2>1
<1>3. ASSUME NEW c \in Of("flush"), c < p + 1
      PROVE  SpillOf[c] # spillID + 1
  <2>1. c # p /\ c \in CodaEvents /\ c \in Nat
    BY FileFacts DEF Of
  <2>2. c + 1 <= p /\ SpillOf[c] = Spills(c + 1)
    BY <1>1, <1>3, <2>1, SpillOfIs
  <2>3. Spills(c + 1) <= Spills(p) /\ Spills(c + 1) \in Nat
    BY <1>1, <2>1, <2>2, SpillsMonotone
  <2> QED BY <1>1, <1>2, <2>2, <2>3
<1> QED BY <1>3 DEF FlushOf

\* With the BOS, the next spill begins to be collected, and the last one is handed
\* out, all of it.
LEMMA BosCollects ==
  ASSUME TypeOK, Calling, Position, Buffers, ProcessPhysBOS,
         NEW skipped, NEW p, p = event_count,
         Handling(skipped, p), NEW Y, Y = Skipped(skipped, p), Collects(skipped)
  PROVE  Collects(Y)' /\ Hands(Y)'
<1> DEFINE kept == {id \in DOMAIN list_ed : ~Dropped(id)}
<1>1. /\ list_ed_now' = [id \in kept |-> list_ed[id]]
      /\ list_ed' = list_ed_now /\ rest' = kept /\ sd_now' = spillID
      /\ stage' = (IF kept = {} THEN "parsing" ELSE "handing")
      /\ has_1st_bos' = TRUE /\ turn_late' = FALSE
  BY BosSwaps
<1>2. /\ spillID' = spillID + 1 /\ DOMAIN list_ed' = {}
  BY BosData
<1>3. /\ processed' = p + 1 /\ CodaFile[p].type = "bos" /\ spillID \in Nat
  BY DEF ProcessPhysBOS, Returned, Handling
<1>4. kept = IF spillID = 0 THEN {} ELSE IDsOf(spillID, Y)
  BY <1>3, KeptIs
<1> HIDE DEF kept
<1>5. Collecting(Y)' = {}
  <2>1. Collecting(Y)' = IF spillID + 1 = 0 THEN {} ELSE {c \in FlushOf(spillID + 1, Y) : c < p + 1}
    BY <1>2, <1>3 DEF Collecting
  <2> QED BY <1>3, <2>1, NewSpill
<1>6. Collects(Y)'
  <2>1. Collected(list_ed, Collecting(Y))'
    BY <1>2, <1>5 DEF Collected
  <2>2. (turn_late <=> \E c \in Collecting(Y) : CodaFile[c].late)'
    BY <1>1, <1>5
  <2>3. (has_1st_bos <=> spillID > 0)'
    BY <1>1, <1>2, <1>3
  <2> QED BY <2>1, <2>2, <2>3 DEF Collects
<1>7. Hands(Y)'
  <2> SUFFICES ASSUME stage' = "handing"
               PROVE  /\ sd_now' > 0
                      /\ DOMAIN list_ed_now' = IDsOf(sd_now', Y)
                      /\ \A id \in DOMAIN list_ed_now' : Range(list_ed_now'[id].hits) = HitsOf(sd_now', id, Y)
    BY DEF Hands
  <2>1. spillID # 0 /\ kept = IDsOf(spillID, Y) /\ kept # {}
    BY <1>1, <1>4
  <2>2. Collecting(skipped) = FlushOf(spillID, Y)
    BY <1>3, <2>1, SpillCollected
  <2>3. \A id \in kept : Range(list_ed[id].hits) = HitsOf(spillID, id, Y)
    <3>1. kept \subseteq DOMAIN list_ed
      BY DEF kept
    <3> QED BY <2>2, <3>1 DEF Collects, Collected, HitsOf
  <2>4. DOMAIN list_ed_now' = kept /\ \A id \in kept : list_ed_now'[id] = list_ed[id]
    BY <1>1
  <2> QED BY <1>1, <1>3, <2>1, <2>3, <2>4
<1> QED BY <1>6, <1>7

\* What has been handed out belongs to spills before the one that is read, which
\* the skipped events do not change.
LEMMA OutBefore ==
  ASSUME NEW skipped, NEW p, Handling(skipped, p), NEW Y, Y = Skipped(skipped, p),
         HandedOut(skipped), stage # "handing"
  PROVE  /\ {Key(out[i]) : i \in DOMAIN out} = Keys(processed, skipped)
         /\ \A d \in Keys(processed, skipped) : d.spillID \in Nat /\ d.spillID < spillID
         /\ \A i \in DOMAIN out : /\ out[i].spillID \in Nat /\ out[i].spillID < spillID
                                  /\ Range(out[i].hits) = HitsOf(out[i].spillID, out[i].id, Y)
<1>1. {Key(out[i]) : i \in DOMAIN out} = Keys(processed, skipped)
  BY DEF HandedOut, Pending
<1>2. spillID = Spills(processed) /\ spillID \in Nat
  BY DEF Handling
<1>3. ASSUME NEW d \in Keys(processed, skipped)
      PROVE  d.spillID \in Nat /\ d.spillID < spillID
  <2>1. PICK k \in 1..(Spills(processed) - 1) : \E id \in IDsOf(k, skipped) : d = [spillID |-> k, id |-> id]
    BY KeyIn
  <2> QED BY <1>2, <2>1
<1>4. ASSUME NEW i \in DOMAIN out
      PROVE  /\ out[i].spillID \in Nat /\ out[i].spillID < spillID
             /\ Range(out[i].hits) = HitsOf(out[i].spillID, out[i].id, Y)
  <2>1. Key(out[i]).spillID = out[i].spillID /\ Key(out[i]) \in Keys(processed, skipped)
    BY <1>1 DEF Key
  <2>2. out[i].spillID \in Nat /\ out[i].spillID < spillID
    BY <1>3, <2>1
  <2>3. \A id : HitsOf(out[i].spillID, id, Y) = HitsOf(out[i].spillID, id, skipped)
    BY <2>2, OverKept
  <2> QED BY <2>2, <2>3 DEF HandedOut
<1> QED BY <1>1, <1>3, <1>4

\* When a spill is over, its events are those that are to be handed out.
LEMMA PendingHandled ==
  ASSUME TypeOK, Handler, NEW skipped, NEW p, p = event_count,
         Handling(skipped, p), NEW Y, Y = Skipped(skipped, p), Collects(skipped)
  PROVE  Pending' = IF CodaFile[p].type = "bos" /\ spillID > 0
                    THEN {[spillID |-> spillID, id |-> id] : id \in IDsOf(spillID, Y)} ELSE {}
<1>1. \/ CodaFile[p].type # "bos" /\ stage' = "parsing"
      \/ ProcessPhysBOS /\ CodaFile[p].type = "bos"
  BY HandlerIs
<1>2. CASE CodaFile[p].type # "bos" /\ stage' = "parsing"
  BY <1>2 DEF Pending
<1>3. CASE ProcessPhysBOS /\ CodaFile[p].type = "bos"
  <2> DEFINE kept == {id \in DOMAIN list_ed : ~Dropped(id)}
  <2>1. rest' = kept /\ sd_now' = spillID /\ stage' = (IF kept = {} THEN "parsing" ELSE "handing")
    BY <1>3, BosSwaps
  <2>2. kept = (IF spillID = 0 THEN {} ELSE IDsOf(spillID, Y)) /\ spillID \in Nat
    BY <1>3, KeptIs DEF Handling
  <2> HIDE DEF kept
  <2>3. Pending' = IF stage' = "handing" THEN {[spillID |-> sd_now', id |-> id] : id \in rest'} ELSE {}
    BY DEF Pending
  <2>4. Pending' = {[spillID |-> spillID, id |-> id] : id \in kept}
    BY <2>1, <2>3
  <2> QED BY <1>3, <2>2, <2>4
<1> QED BY <1>1, <1>2, <1>3

\* A handler hands out nothing, so that only the events of a spill that ends with
\* it are still to be handed out.
LEMMA HandlerHandsOut ==
  ASSUME TypeOK, Handler, NEW skipped, NEW p, p = event_count,
         Handling(skipped, p), NEW Y, Y = Skipped(skipped, p), Collects(skipped), HandedOut(skipped)
  PROVE  HandedOut(Y)'
<1> DEFINE New == IF CodaFile[p].type = "bos" /\ spillID > 0
                  THEN {[spillID |-> spillID, id |-> id] : id \in IDsOf(spillID, Y)} ELSE {}
<1>1. out' = out /\ processed' = p + 1 /\ stage # "handing" /\ spillID \in Nat
  BY HandlerKeeps, HandlerIs DEF Handling
<1>2. /\ {Key(out[i]) : i \in DOMAIN out} = Keys(processed, skipped)
      /\ \A d \in Keys(processed, skipped) : d.spillID \in Nat /\ d.spillID < spillID
      /\ \A i \in DOMAIN out : /\ out[i].spillID \in Nat /\ out[i].spillID < spillID
                               /\ Range(out[i].hits) = HitsOf(out[i].spillID, out[i].id, Y)
  BY <1>1, OutBefore
<1>3. Pending' = New
  BY PendingHandled
<1>4. Keys(p + 1, Y) = Keys(processed, skipped) \cup New
  BY KeysHandled
<1>5. \A d \in New : d.spillID = spillID
  OBVIOUS
<1> HIDE DEF New
<1>6. Keys(p + 1, Y) \ New = Keys(processed, skipped)
  BY <1>1, <1>2, <1>4, <1>5
<1>7. {Key(out[i]) : i \in DOMAIN out} = Keys(p + 1, Y) \ Pending'
  BY <1>2, <1>3, <1>6
<1>8. \A i \in DOMAIN out : \A d \in Pending' : Precedes(out[i], d)
  BY <1>2, <1>3, <1>5 DEF Precedes
<1>9. \A i, j \in DOMAIN out : i < j => Precedes(out[i], out[j])
  BY DEF HandedOut
<1>10. ({Key(out[i]) : i \in DOMAIN out} = Keys(processed, Y) \ Pending)'
  BY <1>1, <1>7 DEF Key
<1>11. (\A i \in DOMAIN out : Range(out[i].hits) = HitsOf(out[i].spillID, out[i].id, Y))'
  BY <1>1, <1>2
<1>12. (\A i, j \in DOMAIN out : i < j => Precedes(out[i], out[j]))'
  BY <1>1, <1>9 DEF Precedes
<1>13. (\A i \in DOMAIN out : \A d \in Pending : Precedes(out[i], d))'
  BY <1>1, <1>8 DEF Precedes
<1> QED BY <1>10, <1>11, <1>12, <1>13 DEF HandedOut

\* The smallest ID is in the set, and below all others.
LEMMA SmallestID ==
  ASSUME NEW S \in SUBSET EventIDs, S # {}
  PROVE  Smallest(S) \in S /\ \A e \in S \ {Smallest(S)} : Smallest(S) < e
<1>1. S \subseteq Nat
  BY EventIDsAreNats
<1>2. Smallest(S) \in S /\ \A e \in S : Smallest(S) <= e
  BY <1>1, SmallestIn DEF Smallest
<1>3. ASSUME NEW n \in S, \A e \in S : n <= e
      PROVE  \A e \in S \ {n} : n < e
  BY <1>1, <1>3
<1> QED BY <1>2, <1>3

\* What is appended to the sequence of what has been handed out.
LEMMA AppendOut ==
  ASSUME NEW T, NEW s \in Seq(T), NEW e
  PROVE  /\ DOMAIN Append(s, e) = DOMAIN s \cup {Len(s) + 1}
         /\ \A i \in DOMAIN s : i < Len(s) + 1 /\ i \in Nat /\ Append(s, e)[i] = s[i]
         /\ Append(s, e)[Len(s) + 1] = e /\ Len(s) \in Nat
<1>1. DOMAIN Append(s, e) = 1..(Len(s) + 1) /\ DOMAIN s = 1..Len(s) /\ Len(s) \in Nat
  OBVIOUS
<1> QED BY <1>1

\* The next event is handed out: the smallest of those that are left.
LEMMA HandOutHandsOut ==
  ASSUME TypeOK, Buffers, out \in Seq(OutData), HandOut, spillID = Spills(processed),
         NEW skipped, Hands(skipped), HandedOut(skipped)
  PROVE  HandedOut(skipped)' /\ Hands(skipped)' /\ out' \in Seq(OutData)
<1> DEFINE n    == Smallest(rest)
           e    == [id |-> n, spillID |-> list_ed_now[n].spillID, hits |-> list_ed_now[n].hits]
           N    == Len(out) + 1
           d(m) == [spillID |-> sd_now, id |-> m]
<1>1. /\ stage = "handing" /\ rest # {} /\ out' = Append(out, e) /\ rest' = rest \ {n}
      /\ UNCHANGED <<stage, list_ed_now, sd_now, processed>>
  BY DEF HandOut
<1>2. rest \subseteq DOMAIN list_ed_now /\ EventMap(list_ed_now)
  BY DEF TypeOK, EventMap
<1>3. n \in rest /\ \A m \in rest \ {n} : n < m
  BY <1>1, <1>2, SmallestID DEF EventMap
<1>4. n \in DOMAIN list_ed_now /\ n \in EventIDs /\ list_ed_now[n] \in EventData /\ list_ed_now[n].spillID = sd_now
  BY <1>1, <1>2, <1>3 DEF EventMap, Buffers
<1> HIDE DEF n
<1>5. /\ DOMAIN out' = DOMAIN out \cup {N} /\ N \in Nat
      /\ \A i \in DOMAIN out : i < N /\ i \in Nat /\ out'[i] = out[i]
      /\ out'[N] = e
  BY <1>1, AppendOut
<1>6. e.spillID = sd_now /\ e.id = n /\ e.hits = list_ed_now[n].hits /\ Key(e) = d(n)
  BY <1>4 DEF Key
<1>7. e \in OutData
  BY <1>4 DEF OutData, EventData
<1> HIDE DEF e, N
<1>8. out' \in Seq(OutData)
  BY <1>1, <1>7
<1>9. Pending = {d(m) : m \in rest} /\ Pending' = {d(m) : m \in rest \ {n}}
  BY <1>1 DEF Pending
<1>10. d(n) \in Keys(processed, skipped)
  <2>1. n \in IDsOf(sd_now, skipped) /\ sd_now > 0
    BY <1>1, <1>4 DEF Hands
  <2>2. sd_now \in Nat
    BY FileFacts DEF TypeOK
  <2>3. sd_now \in 1..(Spills(processed) - 1)
    BY <1>1, <2>1, <2>2 DEF Buffers
  <2> QED BY <2>1, <2>3, KeyIn
<1>11. Pending' = Pending \ {d(n)} /\ d(n) \in Pending
  <2>1. \A m \in rest : d(m) = d(n) => m = n
    OBVIOUS
  <2> QED BY <1>3, <1>9, <2>1
<1>12. ({Key(out[i]) : i \in DOMAIN out} = Keys(processed, skipped) \ Pending)'
  <2>1. {Key(out[i]) : i \in DOMAIN out} = Keys(processed, skipped) \ Pending
    BY DEF HandedOut
  <2>2. {Key(out'[i]) : i \in DOMAIN out'} = {Key(out[i]) : i \in DOMAIN out} \cup {d(n)}
    <3>1. \A x : x \in {Key(out'[i]) : i \in DOMAIN out'} <=> \E i \in DOMAIN out \cup {N} : x = Key(out'[i])
      BY <1>5
    <3>2. \A i \in DOMAIN out : Key(out'[i]) = Key(out[i])
      BY <1>5
    <3>3. Key(out'[N]) = d(n)
      BY <1>5, <1>6
    <3>4. \A x : x \in {Key(out'[i]) : i \in DOMAIN out'} <=> (x = d(n) \/ \E i \in DOMAIN out : x = Key(out[i]))
      BY <3>1, <3>2, <3>3
    <3> QED BY <3>4
  <2>3. {Key(out'[i]) : i \in DOMAIN out'} = Keys(processed, skipped) \ Pending'
    BY <1>10, <1>11, <2>1, <2>2
  <2> QED BY <1>1, <2>3 DEF Key
<1>13. (\A i \in DOMAIN out : Range(out[i].hits) = HitsOf(out[i].spillID, out[i].id, skipped))'
  <2>1. Range(e.hits) = HitsOf(e.spillID, e.id, skipped)
    BY <1>1, <1>4, <1>6 DEF Hands
  <2> QED BY <1>5, <2>1 DEF HandedOut
<1>14. \A i \in DOMAIN out : Precedes(out[i], e)
  <2>1. \A i \in DOMAIN out : Precedes(out[i], d(n))
    BY <1>11 DEF HandedOut
  <2> QED BY <1>6, <2>1 DEF Precedes
<1>15. (\A i, j \in DOMAIN out : i < j => Precedes(out[i], out[j]))'
  <2>1. ASSUME NEW i \in DOMAIN out', NEW j \in DOMAIN out', i < j
        PROVE  Precedes(out'[i], out'[j])
    <3>1. i \in DOMAIN out /\ out'[i] = out[i]
      BY <1>5, <2>1
    <3>2. CASE j = N
      BY <1>5, <1>14, <3>1, <3>2
    <3>3. CASE j # N
      <4>1. j \in DOMAIN out /\ out'[j] = out[j]
        BY <1>5, <3>3
      <4> QED BY <2>1, <3>1, <4>1 DEF HandedOut
    <3> QED BY <3>2, <3>3
  <2> QED BY <2>1 DEF Precedes
<1>16. (\A i \in DOMAIN out : \A x \in Pending : Precedes(out[i], x))'
  <2>1. ASSUME NEW i \in DOMAIN out', NEW x \in Pending'
        PROVE  Precedes(out'[i], x)
    <3>1. CASE i = N
      <4>1. PICK m \in rest \ {n} : x = d(m)
        BY <1>9, <2>1
      <4> QED BY <1>3, <1>5, <1>6, <3>1, <4>1 DEF Precedes
    <3>2. CASE i # N
      <4>1. i \in DOMAIN out /\ out'[i] = out[i] /\ x \in Pending
        BY <1>5, <1>11, <3>2
      <4> QED BY <4>1 DEF HandedOut
    <3> QED BY <3>1, <3>2
  <2> QED BY <2>1 DEF Precedes
<1>17. HandedOut(skipped)'
  BY <1>12, <1>13, <1>15, <1>16 DEF HandedOut
<1>18. Hands(skipped)'
  BY <1>1 DEF Hands
<1> QED BY <1>8, <1>17, <1>18

\* Without a blank event, the hits of a flush event are behind those that are there.
LEMMA FlushRises ==
  ASSUME TypeOK, ProcessPhysFlush, Standing(event_count), retries = 0,
         Collects({}), RisingIn(list_ed)
  PROVE  RisingIn(list_ed')
<1> DEFINE c     == event_count
           d(id) == At(list_ed, id, NoData)
<1>1. c \in CodaEvents /\ c = processed /\ EventMap(list_ed)
  BY DEF TypeOK, CodaTypeOK, EventMap, Standing
<1>2. CASE ~has_1st_bos
  BY <1>2 DEF ProcessPhysFlush, RisingIn
<1>3. CASE has_1st_bos
  <2>1. list_ed' = [id \in DOMAIN list_ed \cup CodaFile[event_count].ids |->
                         IF id \in CodaFile[event_count].ids THEN AddData(id) ELSE list_ed[id]]
    BY <1>3 DEF ProcessPhysFlush
  <2>2. ASSUME NEW id
        PROVE  Rising(AddData(id).hits)
    <3>1. Range(d(id).hits) = {b \in Collecting({}) : id \in CodaFile[b].ids}
      BY CollectedAt, CollectingType DEF Collects
    <3>2. \A h \in Range(d(id).hits) : h < c
      BY <1>1, <3>1 DEF Collecting
    <3>3. d(id).hits \in Seq(CodaEvents) /\ Rising(d(id).hits)
      <4>1. CASE id \in DOMAIN list_ed
        <5>1. d(id) = list_ed[id] /\ list_ed[id] \in EventData /\ Rising(list_ed[id].hits)
          BY <1>1, <4>1 DEF At, EventMap, RisingIn
        <5> QED BY <5>1 DEF EventData
      <4>2. CASE id \notin DOMAIN list_ed
        <5>1. d(id).hits = <<>>
          BY <4>2 DEF At, NoData
        <5> QED BY <5>1 DEF Rising
      <4> QED BY <4>1, <4>2
    <3>4. AddData(id).hits = Append(d(id).hits, c)
      BY DEF AddData
    <3> HIDE DEF d
    <3> QED BY <1>1, <3>2, <3>3, <3>4, RisingAppend
  <2>3. ASSUME NEW id \in DOMAIN list_ed'
        PROVE  Rising(list_ed'[id].hits)
    <3>1. CASE id \in CodaFile[event_count].ids
      <4>1. list_ed'[id] = AddData(id)
        BY <2>1, <3>1
      <4> QED BY <2>2, <4>1
    <3>2. CASE id \notin CodaFile[event_count].ids
      <4>1. list_ed'[id] = list_ed[id] /\ id \in DOMAIN list_ed
        BY <2>1, <3>2
      <4> QED BY <4>1 DEF RisingIn
    <3> QED BY <3>1, <3>2
  <2> QED BY <2>3 DEF RisingIn
<1> QED BY <1>2, <1>3

\* Without a blank event, a handler keeps the hits in order.
LEMMA HandlerRises ==
  ASSUME TypeOK, Buffers, Position, Handler, retries = 0, Collects({}), HitsCollected
  PROVE  HitsCollected'
<1>1. RisingIn(list_ed) /\ RisingIn(list_ed_now) /\ \A i \in DOMAIN out : Rising(out[i].hits)
  BY DEF HitsCollected
<1>2. stage = "reading" /\ pc = "idle" /\ ok /\ out' = out
  BY HandlerIs, HandlerKeeps
<1>3. (\A i \in DOMAIN out : Rising(out[i].hits))'
  BY <1>1, <1>2 DEF Rising
<1>4. CASE CodaFile[event_count].type # "bos"
  <2>1. list_ed_now' = list_ed_now
    BY <1>4, HandlerKeeps
  <2>2. RisingIn(list_ed')
    <3>1. CASE CodaFile[event_count].type = "flush"
      <4>1. ProcessPhysFlush
        BY <3>1, HandlerKeeps
      <4>2. Standing(event_count)
        BY <1>2 DEF Position
      <4> QED BY <1>1, <4>1, <4>2, FlushRises
    <3>2. CASE CodaFile[event_count].type # "flush"
      BY <1>1, <1>4, <3>2, HandlerKeeps
    <3> QED BY <3>1, <3>2
  <2> QED BY <1>1, <1>3, <2>1, <2>2 DEF HitsCollected, RisingIn, Rising
<1>5. CASE CodaFile[event_count].type = "bos"
  <2> DEFINE kept == {id \in DOMAIN list_ed : ~Dropped(id)}
  <2>1. list_ed_now' = [id \in kept |-> list_ed[id]] /\ list_ed' = list_ed_now
    <3>1. ProcessPhysBOS
      BY <1>5, HandlerIs
    <3> QED BY <3>1, BosSwaps
  <2>2. kept \subseteq DOMAIN list_ed
    OBVIOUS
  <2> HIDE DEF kept
  <2>3. RisingIn(list_ed_now') /\ RisingIn(list_ed')
    BY <1>1, <2>1, <2>2 DEF RisingIn
  <2> QED BY <1>3, <2>3 DEF HitsCollected, RisingIn, Rising
<1> QED BY <1>4, <1>5

\* What is handed out has its type, and is what the file without some of the blank
\* events defines, when an event is handled.
LEMMA HandlerDInv ==
  ASSUME IInv, DInv, Handler
  PROVE  DInv'
<1> DEFINE p == event_count
<1>1. TypeOK /\ Calling /\ Position /\ Buffers /\ Records
  BY DEF IInv
<1>2. stage = "reading" /\ pc = "idle" /\ ok /\ ~IsBlank(p) /\ retries' = retries /\ processed' = p + 1
  BY HandlerIs
<1>3. out' = out
  BY HandlerKeeps
<1>4. p \in CodaEvents /\ p \in Nat /\ Standing(p) /\ processed \in Nat /\ spillID \in Nat
  BY <1>1, <1>2, FileFacts DEF TypeOK, CodaTypeOK, Position, SpillIDs
<1>5. ASSUME retries = 0 \/ Harmless
      PROVE  \E skipped \in SUBSET Blanks : (retries = 0 => skipped = {}) /\ Content(skipped)'
  <2>1. PICK skipped \in SUBSET Blanks : (retries = 0 => skipped = {}) /\ Content(skipped)
    BY <1>5 DEF DInv
  <2>2. Handling(skipped, p)
    BY <1>1, <1>2, <1>4, <1>5, <2>1 DEF Handling, Records, Content
  <2>3. PICK q : q = p
    OBVIOUS
  <2>4. PICK Y : Y = Skipped(skipped, q)
    OBVIOUS
  <2>5. Handling(skipped, q) /\ q = event_count
    BY <2>2, <2>3
  <2> HIDE DEF p, Handling, Skipped
  <2>6. /\ Y \in SUBSET Blanks /\ (retries = 0 => Y = {}) /\ \A s \in Y : s + 1 < q + 1
    BY <2>4, <2>5, SkippedIs
  <2>7. Collects(skipped) /\ Hands(skipped) /\ HandedOut(skipped)
    BY <2>1 DEF Content
  <2>8. HandedOut(Y)'
    BY <1>1, <2>4, <2>5, <2>7, HandlerHandsOut
  <2>9. Collects(Y)' /\ Hands(Y)'
    <3>1. CASE CodaFile[event_count].type # "bos"
      <4>1. Collects(Y)'
        BY <1>1, <2>4, <2>5, <2>7, <3>1, HandlerCollects
      <4>2. stage' # "handing"
        BY <3>1, HandlerIs
      <4> QED BY <4>1, <4>2 DEF Hands
    <3>2. CASE CodaFile[event_count].type = "bos"
      <4>1. ProcessPhysBOS
        BY <3>2, HandlerIs
      <4> QED BY <1>1, <2>4, <2>5, <2>7, <4>1, BosCollects
    <3> QED BY <3>1, <3>2
  <2>10. Content(Y)'
    BY <1>2, <2>3, <2>6, <2>8, <2>9 DEF Content, p
  <2> QED BY <2>6, <2>10
<1>6. HitsCollected'
  <2>1. CASE retries = 0
    <3>1. Collects({})
      BY <2>1 DEF DInv, Content
    <3> QED BY <1>1, <2>1, <3>1, HandlerRises DEF DInv
  <2>2. CASE retries # 0
    BY <1>2, <2>2 DEF HitsCollected
  <2> QED BY <2>1, <2>2
<1>7. (out \in Seq(OutData))'
  BY <1>3 DEF DInv
<1>8. (retries = 0 \/ Harmless =>
         \E skipped \in SUBSET Blanks : (retries = 0 => skipped = {}) /\ Content(skipped))'
  <2> HIDE DEF p
  <2> QED BY <1>2, <1>5
<1> QED BY <1>6, <1>7, <1>8 DEF DInv

\* What is handed out does not change with the steps that do not touch it.
LEMMA DInvKept ==
  ASSUME DInv, UNCHANGED parserVars, retries' = 0 => retries = 0,
         stage' = stage \/ (stage # "handing" /\ stage' # "handing")
  PROVE  DInv'
<1>1. UNCHANGED <<list_ed, list_ed_now, rest, sd_now, has_1st_bos, spillID, turn_late, out, processed>>
  BY DEF parserVars
<1>2. ASSUME NEW skipped, Content(skipped)
      PROVE  Content(skipped)'
  <2>1. Collects(skipped)'
    BY <1>1, <1>2 DEF Content, Collects, Collecting, Collected
  <2>2. Hands(skipped)'
    BY <1>1, <1>2 DEF Content, Hands
  <2>3. Pending' = Pending
    BY <1>1 DEF Pending
  <2>4. HandedOut(skipped)'
    BY <1>1, <1>2, <2>3 DEF Content, HandedOut, Key, Precedes
  <2> QED BY <1>1, <1>2, <2>1, <2>2, <2>4 DEF Content
<1>3. HitsCollected'
  BY <1>1 DEF DInv, HitsCollected, RisingIn, Rising
<1>4. (out \in Seq(OutData))'
  BY <1>1 DEF DInv
<1>5. ASSUME retries' = 0 \/ Harmless
      PROVE  \E skipped \in SUBSET Blanks : (retries' = 0 => skipped = {}) /\ Content(skipped)'
  <2>1. PICK skipped \in SUBSET Blanks : (retries = 0 => skipped = {}) /\ Content(skipped)
    BY <1>5 DEF DInv
  <2>2. Content(skipped)'
    BY <1>2, <2>1
  <2> QED BY <2>1, <2>2
<1> QED BY <1>3, <1>4, <1>5 DEF DInv

\* What is handed out, when it is.
LEMMA HandOutDInv ==
  ASSUME IInv, DInv, HandOut
  PROVE  DInv'
<1>1. TypeOK /\ Buffers /\ Records
  BY DEF IInv
<1>2. /\ UNCHANGED <<stage, retries, list_ed, list_ed_now, sd_now, has_1st_bos, spillID, turn_late, processed>>
      /\ rest # {} /\ rest \subseteq DOMAIN list_ed_now /\ stage = "handing"
  BY <1>1 DEF HandOut, blankVars, TypeOK
<1>3. ASSUME retries = 0 \/ Harmless
      PROVE  \E skipped \in SUBSET Blanks : (retries' = 0 => skipped = {}) /\ Content(skipped)'
  <2>1. PICK skipped \in SUBSET Blanks : (retries = 0 => skipped = {}) /\ Content(skipped)
    BY <1>3 DEF DInv
  <2>2. spillID = Spills(processed)
    BY <1>1, <1>3 DEF Records
  <2>3. HandedOut(skipped)' /\ Hands(skipped)'
    BY <1>1, <2>1, <2>2, HandOutHandsOut DEF DInv, Content
  <2>4. Collects(skipped)'
    BY <1>2, <2>1 DEF Content, Collects, Collecting, Collected
  <2>5. Content(skipped)'
    BY <1>2, <2>1, <2>3, <2>4 DEF Content
  <2> QED BY <1>2, <2>1, <2>5
<1> DEFINE n == Smallest(rest)
           e == [id |-> n, spillID |-> list_ed_now[n].spillID, hits |-> list_ed_now[n].hits]
<1>4. out' = Append(out, e)
  BY DEF HandOut
<1>5. n \in DOMAIN list_ed_now /\ n \in EventIDs /\ list_ed_now[n] \in EventData
  <2>1. rest \in SUBSET EventIDs
    BY <1>1, <1>2 DEF TypeOK
  <2>2. n \in rest
    BY <1>2, <2>1, SmallestID
  <2> QED BY <1>1, <1>2, <2>1, <2>2 DEF TypeOK
<1> HIDE DEF n
<1>6. e \in OutData /\ e.hits = list_ed_now[n].hits
  BY <1>5 DEF EventData, OutData
<1> HIDE DEF e
<1>7. out \in Seq(OutData)
  BY DEF DInv
<1>8. out' \in Seq(OutData)
  BY <1>4, <1>6, <1>7
<1>9. ASSUME retries = 0, NEW i \in DOMAIN out'
      PROVE  Rising(out'[i].hits)
  <2>1. DOMAIN out' = DOMAIN out \cup {Len(out) + 1} /\ (i \in DOMAIN out => out'[i] = out[i])
        /\ out'[Len(out) + 1] = e
    BY <1>4, <1>7, AppendOut
  <2>2. \A j \in DOMAIN out : Rising(out[j].hits)
    BY <1>9 DEF DInv, HitsCollected
  <2>3. Rising(list_ed_now[n].hits)
    BY <1>5, <1>9 DEF DInv, HitsCollected, RisingIn
  <2> QED BY <1>6, <2>1, <2>2, <2>3
<1>10. HitsCollected'
  BY <1>2, <1>9 DEF DInv, HitsCollected, RisingIn, Rising
<1> QED BY <1>2, <1>3, <1>8, <1>10 DEF DInv

\* When all events of a spill are handed out, the next one is read.
LEMMA ParseNextDInv ==
  ASSUME DInv, ParseNext
  PROVE  DInv'
<1>1. /\ UNCHANGED <<retries, list_ed, rest, sd_now, has_1st_bos, spillID, turn_late, out, processed>>
      /\ stage = "handing" /\ rest = {} /\ stage' = "parsing" /\ list_ed_now' = NoMap
  BY DEF ParseNext, blankVars
<1>2. Pending' = Pending
  BY <1>1 DEF Pending
<1>3. ASSUME NEW skipped, Content(skipped)
      PROVE  Content(skipped)'
  <2>1. Collects(skipped)'
    BY <1>1, <1>3 DEF Content, Collects, Collecting, Collected
  <2>2. Hands(skipped)'
    BY <1>1 DEF Hands
  <2>3. HandedOut(skipped)'
    BY <1>1, <1>2, <1>3 DEF Content, HandedOut, Key, Precedes
  <2> QED BY <1>1, <1>3, <2>1, <2>2, <2>3 DEF Content
<1>4. HitsCollected'
  <2>1. RisingIn(NoMap)
    BY DEF RisingIn, NoMap
  <2> QED BY <1>1, <2>1 DEF DInv, HitsCollected, RisingIn, Rising
<1>5. (out \in Seq(OutData))'
  BY <1>1 DEF DInv
<1>6. ASSUME retries' = 0 \/ Harmless
      PROVE  \E skipped \in SUBSET Blanks : (retries' = 0 => skipped = {}) /\ Content(skipped)'
  <2>1. PICK skipped \in SUBSET Blanks : (retries = 0 => skipped = {}) /\ Content(skipped)
    BY <1>1, <1>6 DEF DInv
  <2>2. Content(skipped)'
    BY <1>3, <2>1
  <2> QED BY <1>1, <2>1, <2>2
<1> QED BY <1>4, <1>5, <1>6 DEF DInv

\* What is handed out stays what the file defines.
LEMMA DInvStep == IInv /\ DInv /\ [Next]_vars => DInv'
<1> SUFFICES ASSUME IInv, DInv, [Next]_vars
             PROVE  DInv'
  OBVIOUS
<1>0. retries \in Nat
  BY FileFacts DEF IInv, TypeOK
<1>1. CASE DaqStep /\ UNCHANGED <<stage, blankVars, parserVars>>
  <2>1. UNCHANGED parserVars /\ stage' = stage /\ retries' = retries
    BY <1>1 DEF blankVars
  <2> QED BY <2>1, DInvKept
<1>2. CASE DaqFill
  <2>1. UNCHANGED parserVars /\ stage' = stage /\ retries' = retries
    BY <1>2 DEF DaqFill
  <2> QED BY <2>1, DInvKept
<1>3. CASE ReaderStep
  <2>1. UNCHANGED parserVars /\ stage' = stage /\ retries' = retries
    BY <1>3 DEF ReaderStep, blankVars
  <2> QED BY <2>1, DInvKept
<1>4. CASE ParserStep
  <2>1. CASE Handler
    BY <2>1, HandlerDInv
  <2>2. CASE OpenCodaFile \/ Opened \/ NextCodaEvent \/ NoCodaEvent \/ JumpBack \/ Retried
    <3>1. UNCHANGED parserVars /\ retries' = retries /\ stage # "handing" /\ stage' # "handing"
      BY <2>2 DEF OpenCodaFile, Opened, NextCodaEvent, NoCodaEvent, JumpBack, Retried, blankVars
    <3> QED BY <3>1, DInvKept
  <2>3. CASE Blank
    <3>1. UNCHANGED parserVars /\ retries' = retries + 1 /\ stage # "handing" /\ stage' # "handing"
      BY <2>3 DEF Blank
    <3>2. retries' # 0
      BY <1>0, <3>1
    <3> QED BY <3>1, <3>2, DInvKept
  <2>4. CASE HandOut
    BY <2>4, HandOutDInv
  <2>5. CASE ParseNext
    BY <2>5, ParseNextDInv
  <2> QED BY <1>4, <2>1, <2>2, <2>3, <2>4, <2>5 DEF ParserStep, Handler
<1>5. CASE UNCHANGED vars
  <2>1. UNCHANGED parserVars /\ stage' = stage /\ retries' = retries
    BY <1>5 DEF vars, blankVars
  <2> QED BY <2>1, DInvKept
<1> QED BY <1>1, <1>2, <1>3, <1>4, <1>5 DEF Next, Terminated

\* Before the file is opened, nothing is handed out, and no spill is over.
LEMMA InitDInv == Init => DInv
<1> SUFFICES ASSUME Init
             PROVE  DInv
  OBVIOUS
<1>1. /\ list_ed = NoMap /\ list_ed_now = NoMap /\ has_1st_bos = FALSE /\ spillID = 0 /\ turn_late = FALSE
      /\ out = <<>> /\ processed = 0 /\ stage = "start" /\ retries = 0
  BY DEF Init
<1>2. DOMAIN NoMap = {}
  BY DEF NoMap
<1>3. Keys(0, {}) = {}
  <2>1. {b \in Of("bos") : b < 0} = {}
    BY FileFacts DEF Of
  <2>2. Spills(0) = 0
    BY <2>1, FS_EmptySet DEF Spills
  <2>3. \A d : d \notin Keys(0, {})
    BY <2>2, KeyIn
  <2> QED BY <2>3
<1>4. Collects({})
  <2>1. Collecting({}) = {}
    BY <1>1 DEF Collecting
  <2> QED BY <1>1, <1>2, <2>1 DEF Collects, Collected
<1>5. Content({})
  BY <1>1, <1>3, <1>4 DEF Content, Hands, HandedOut, Pending
<1>6. HitsCollected
  BY <1>1, <1>2 DEF HitsCollected, RisingIn
<1> QED BY <1>1, <1>5, <1>6 DEF DInv

\* The invariant of what is handed out, with that of the decoder.
LEMMA DInvariance == Spec => [](IInv /\ DInv)
<1>1. Init => IInv /\ DInv
  BY InitIInv, InitDInv
<1>2. (IInv /\ DInv) /\ [Next]_vars => (IInv /\ DInv)'
  BY IInvStep, DInvStep
<1> QED BY <1>1, <1>2, PTL DEF Spec

\* The order of the keys is one.
LEMMA PrecedesOneWay ==
  ASSUME NEW d, NEW e, d.spillID \in Int, d.id \in Int, e.spillID \in Int, e.id \in Int, Precedes(d, e)
  PROVE  ~Precedes(e, d)
BY DEF Precedes

\* If the output is what the file without the skipped events defines, up to what is
\* still to be handed out, it is a prefix of it, and all of it in the end.
LEMMA ContentIsPrefix ==
  ASSUME out \in Seq(OutData), NEW skipped, HandedOut(skipped)
  PROVE  PrefixWithout(skipped) /\ CompleteWithout(skipped)
<1> DEFINE keys == Keys(processed, skipped)
<1>1. /\ {Key(out[i]) : i \in DOMAIN out} = keys \ Pending
      /\ \A i \in DOMAIN out : Range(out[i].hits) = HitsOf(out[i].spillID, out[i].id, skipped)
      /\ \A i, j \in DOMAIN out : i < j => Precedes(out[i], out[j])
      /\ \A i \in DOMAIN out : \A d \in Pending : Precedes(out[i], d)
  BY DEF HandedOut
<1>2. \A i \in DOMAIN out : out[i].spillID \in Nat /\ out[i].id \in Nat /\ i \in Nat /\ i >= 1
  <2>1. ASSUME NEW i \in DOMAIN out
        PROVE  out[i].spillID \in Nat /\ out[i].id \in Nat /\ i \in Nat /\ i >= 1
    <3>1. out[i] \in OutData /\ i \in Nat /\ i >= 1
      OBVIOUS
    <3>2. out[i].spillID \in SpillIDs /\ out[i].id \in EventIDs
      BY <3>1 DEF OutData
    <3>3. \A k \in SpillIDs : k \in Nat
      BY FileFacts DEF SpillIDs
    <3> QED BY <3>1, <3>2, <3>3, EventIDsAreNats
  <2> QED BY <2>1
<1>3. \A d \in keys : d.spillID \in Nat /\ d.id \in Nat
  <2>1. ASSUME NEW d \in keys
        PROVE  d.spillID \in Nat /\ d.id \in Nat
    <3>1. PICK k \in 1..(Spills(processed) - 1) :
                 \E id \in IDsOf(k, skipped) : d = [spillID |-> k, id |-> id]
      BY KeyIn
    <3>2. PICK id \in IDsOf(k, skipped) : d = [spillID |-> k, id |-> id]
      BY <3>1
    <3>3. id \in EventIDs
      BY <3>2 DEF IDsOf, FlushOf, Of, EventIDs
    <3> QED BY <3>2, <3>3, EventIDsAreNats
  <2> QED BY <2>1
<1>4. ASSUME NEW i \in DOMAIN out, NEW d \in keys, Precedes(d, out[i])
      PROVE  \E j \in 1..(i - 1) : Key(out[j]) = d
  <2>1. ~Precedes(out[i], d)
    BY <1>2, <1>3, <1>4, PrecedesOneWay
  <2>2. PICK j \in DOMAIN out : Key(out[j]) = d
    BY <1>1, <2>1
  <2>3. Precedes(out[j], out[i])
    <3>1. d.spillID = out[j].spillID /\ d.id = out[j].id
      BY <2>2 DEF Key
    <3> QED BY <1>4, <3>1 DEF Precedes
  <2>4. ~Precedes(out[i], out[j])
    BY <1>2, <2>3, PrecedesOneWay
  <2>5. j < i
    BY <1>1, <1>2, <2>3, <2>4
  <2>6. j \in 1..(i - 1)
    BY <1>2, <2>5
  <2> QED BY <2>2, <2>6
<1>5. \A i \in DOMAIN out : Key(out[i]) \in keys
  BY <1>1
<1>6. PrefixWithout(skipped)
  BY <1>1, <1>4, <1>5 DEF PrefixWithout
<1>7. CompleteWithout(skipped)
  <2>1. stage = "ended" => Pending = {}
    BY DEF Pending
  <2> QED BY <1>1, <2>1 DEF CompleteWithout
<1> QED BY <1>6, <1>7

\* As long as no blank event was met, the decoder hands out, whatever the file and
\* however it grows, exactly the physics events that the file defines: each once, in
\* order, with its own hits, up to the last BOS.
THEOREM OutputAsExpectedCorrect == Spec => []OutputAsExpected
<1>1. IInv /\ DInv => OutputAsExpected
  <2> SUFFICES ASSUME DInv, retries = 0
               PROVE  PrefixWithout({}) /\ CompleteWithout({}) /\ HitsInOrder
    BY DEF OutputAsExpected
  <2>1. out \in Seq(OutData) /\ HandedOut({})
    BY DEF DInv, Content
  <2>2. HitsInOrder
    BY DEF DInv, HitsCollected, Rising, HitsInOrder
  <2> QED BY <2>1, <2>2, ContentIsPrefix
<1> QED BY DInvariance, <1>1, PTL

\* However often a blank event makes the decoder go back, what it hands out is what
\* the file without some of the blank events defines, if the retry repeats no BOS.
THEOREM SameButBlanksCorrect == Spec => []SameButBlanks
<1>1. IInv /\ DInv => SameButBlanks
  <2> SUFFICES ASSUME DInv, Harmless
               PROVE  \E skipped \in SUBSET Blanks : PrefixWithout(skipped) /\ CompleteWithout(skipped)
    BY DEF SameButBlanks
  <2>1. PICK skipped \in SUBSET Blanks : Content(skipped)
    BY DEF DInv
  <2>2. out \in Seq(OutData) /\ HandedOut(skipped)
    BY <2>1 DEF DInv, Content
  <2> QED BY <2>2, ContentIsPrefix
<1> QED BY DInvariance, <1>1, PTL

\* Hits are handed out twice only after a retry: as long as no blank event was met, no
\* flush event gives its hits to a physics event twice.
THEOREM HitsOnceUnlessRetried == Spec => [](retries = 0 => HitsOnce)
<1>1. IInv /\ DInv => (retries = 0 => HitsOnce)
  <2> SUFFICES ASSUME DInv, retries = 0, NEW i \in DOMAIN out,
                      NEW j \in DOMAIN out[i].hits, NEW k \in DOMAIN out[i].hits, j # k
               PROVE  out[i].hits[j] # out[i].hits[k]
    BY DEF HitsOnce
  <2>1. Rising(out[i].hits)
    BY DEF DInv, HitsCollected
  <2>2. out[i].hits \in Seq(CodaEvents)
    <3>1. out \in Seq(OutData)
      BY DEF DInv
    <3>2. out[i] \in OutData
      BY <3>1
    <3> QED BY <3>2 DEF OutData
  <2>3. j \in Nat /\ k \in Nat /\ out[i].hits[j] \in Nat /\ out[i].hits[k] \in Nat
    BY <2>2, FileFacts
  <2> QED BY <2>1, <2>3 DEF Rising
<1> QED BY DInvariance, <1>1, PTL
=============================================================================

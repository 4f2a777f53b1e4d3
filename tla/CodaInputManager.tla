-------------------------- MODULE CodaInputManager --------------------------
(***************************************************************************)
(* The reader of the raw-data file of online/decoder_maindaq:              *)
(* CodaInputManager, with evOpen() and evRead() of evio.c.  The DAQ writes *)
(* the file while it is read.  A file is a sequence of blocks, an event    *)
(* may end in a later block than it starts in, and evio cannot go on after *)
(* it has met the end of the file.  So, at the end of the file, the reader *)
(* waits until the file has grown by a block, opens it anew and jumps over *)
(* the events that it had already returned.                                *)
(*                                                                         *)
(* This module has the state and the steps of one call; CodaReader and     *)
(* MainDaqParser are its callers.                                          *)
(***************************************************************************)
EXTENDS Naturals

CONSTANTS NCodaEvents,  \* events of the run
          EndBlock,     \* [CodaEvents -> Nat], the block in which each ends
          N_WAIT        \* bound on n_wait: 20 in the code, 40 at first

BLOCK == 2              \* 32768 bytes, in units of half a block

CodaEvents == 0..(NCodaEvents - 1)
NBlocks    == EndBlock[NCodaEvents - 1]

ASSUME CodaAssumption ==
  /\ NCodaEvents \in Nat \ {0}
  /\ EndBlock \in [CodaEvents -> Nat \ {0}]
  /\ \A d, e \in CodaEvents : d <= e => EndBlock[d] <= EndBlock[e]
  /\ N_WAIT \in Nat

VARIABLES
  file,           \* external: size of the raw-data file
  daq,            \* external: "writing", "ended" (with an END file) or "dead"
  nextRunFile,    \* external: the file of the next run exists
  pc,             \* what the call in progress does next; "idle" outside a call
  m_go_end,
  m_online,       \* is the decoder in the online mode?
  m_run,          \* 0 until the caller knows the run number
  m_file_size,    \* size of the file when it was last looked at
  m_event_count,  \* events read since the file was opened
  toRead,         \* events that the NextCodaEvent and JumpCodaEvent calls in
                  \* progress have still to read, the nested ones included
  file_size_min,  \* OpenFile: the size it waits for
  tries,          \* OpenFile: how many more times it looks
  event_count,    \* number of the event that is returned
  ok              \* did the last call succeed?

daqVars  == <<file, daq, nextRunFile>>
waitVars == <<file_size_min, tries>>
modeVars == <<m_online, m_run>>
codaVars == <<pc, m_go_end, m_online, m_run, m_file_size, m_event_count, toRead,
              file_size_min, tries, event_count, ok>>

CodaInit ==
  /\ file = 0 /\ daq = "writing" /\ nextRunFile = FALSE
  /\ pc = "idle"
  /\ m_go_end = FALSE
  /\ m_online \in BOOLEAN
  /\ m_run = 0
  /\ m_file_size = 0
  /\ m_event_count = 0
  /\ toRead = 0
  /\ file_size_min = 0
  /\ tries = 0
  /\ event_count = 0
  /\ ok = FALSE

-----------------------------------------------------------------------------
(* The DAQ, which is not part of the repository. *)

DaqWrite == /\ daq = "writing"
            /\ file < NBlocks * BLOCK
            /\ file' = file + 1
            /\ UNCHANGED <<daq, nextRunFile, codaVars>>

\* The END file appears when all data are in the file.
DaqEnd == /\ daq = "writing"
          /\ file = NBlocks * BLOCK
          /\ daq' = "ended"
          /\ UNCHANGED <<file, nextRunFile, codaVars>>

\* The run is cut off, without an END file.
DaqDie == /\ daq = "writing"
          /\ daq' = "dead"
          /\ UNCHANGED <<file, nextRunFile, codaVars>>

DaqNextRun == /\ daq # "writing"
              /\ ~nextRunFile
              /\ nextRunFile' = TRUE
              /\ UNCHANGED <<file, daq, codaVars>>

DaqStep == DaqWrite \/ DaqEnd \/ DaqDie \/ DaqNextRun

-----------------------------------------------------------------------------
(* OpenFile; toRead = 0 when the caller has called it. *)

OpenFile(size_min, n_wait) ==
  /\ pc = "idle"
  /\ pc' = "wait"
  /\ toRead' = 0
  /\ file_size_min' = size_min
  /\ tries' = n_wait + 1
  /\ UNCHANGED <<daqVars, m_go_end, modeVars, m_file_size, m_event_count, event_count, ok>>

WaitBigEnough ==
  /\ pc = "wait"
  /\ tries > 0
  /\ file >= file_size_min
  /\ m_file_size' = file
  /\ pc' = "evOpen"
  /\ UNCHANGED <<daqVars, m_go_end, modeVars, m_event_count, toRead, waitVars, event_count, ok>>

\* The file is still too small, or fopen() failed: sleep and look again.
WaitAndSleep ==
  /\ pc = "wait"
  /\ tries > 0
  /\ \/ file < file_size_min /\ m_file_size' = file
     \/ UNCHANGED m_file_size
  /\ tries' = tries - 1
  /\ UNCHANGED <<daqVars, pc, m_go_end, modeVars, m_event_count, toRead, file_size_min,
                 event_count, ok>>

\* Mutant: a timeout begins another wait.
WaitTimeoutAgain ==
  /\ pc = "wait"
  /\ tries = 0
  /\ tries' = N_WAIT + 1
  /\ UNCHANGED <<daqVars, pc, ok, m_go_end, modeVars, m_file_size, m_event_count, toRead,
                 file_size_min, event_count>>

\* OpenFile returns 2; a NextCodaEvent that waits for it makes a "bad end".
WaitTimeout ==
  /\ pc = "wait"
  /\ tries = 0
  /\ pc' = "idle"
  /\ ok' = FALSE
  /\ m_go_end' = (m_go_end \/ toRead > 0)
  /\ UNCHANGED <<daqVars, modeVars, m_file_size, m_event_count, toRead, waitVars, event_count>>

\* Mutant: jump only over the events that had been read.
EvOpenJumpShort ==
  /\ pc = "evOpen"
  /\ m_event_count' = 0
  /\ IF toRead = 0 \/ m_event_count = 0
       THEN pc' = "idle" /\ ok' = TRUE /\ UNCHANGED toRead
       ELSE /\ pc' = "evRead"
            /\ toRead' = (toRead - 1) + m_event_count
            /\ UNCHANGED ok
  /\ UNCHANGED <<daqVars, m_go_end, modeVars, m_file_size, waitVars, event_count>>

\* Close the file, evOpen() it anew; then return, or jump.
EvOpen ==
  /\ pc = "evOpen"
  /\ m_event_count' = 0
  /\ IF toRead = 0
       THEN pc' = "idle" /\ ok' = TRUE /\ UNCHANGED toRead
       ELSE LET event_count_jump == m_event_count + 1
            IN /\ pc' = "evRead"
               /\ toRead' = (toRead - 1) + event_count_jump
               /\ UNCHANGED ok
  /\ UNCHANGED <<daqVars, m_go_end, modeVars, m_file_size, waitVars, event_count>>

-----------------------------------------------------------------------------
(* JumpCodaEvent and NextCodaEvent *)

\* Mutant: one event less.
JumpOneLess(n) ==
  /\ pc = "idle"
  /\ toRead' = n - 1
  /\ IF m_go_end THEN ok' = FALSE /\ UNCHANGED pc
                 ELSE pc' = "evRead" /\ UNCHANGED ok
  /\ UNCHANGED <<daqVars, m_go_end, modeVars, m_file_size, m_event_count, waitVars, event_count>>

\* Mutant: end as soon as the END file exists.
JumpEndFileFirst(n) ==
  /\ pc = "idle"
  /\ toRead' = n
  /\ m_go_end' = (m_go_end \/ daq = "ended")
  /\ IF m_go_end' THEN ok' = FALSE /\ UNCHANGED pc
                  ELSE pc' = "evRead" /\ UNCHANGED ok
  /\ UNCHANGED <<daqVars, modeVars, m_file_size, m_event_count, waitVars, event_count>>

\* Start to read n events; NextCodaEvent is JumpCodaEvent(1).
JumpCodaEvent(n) ==
  /\ pc = "idle"
  /\ toRead' = n
  /\ IF n = 0 \/ m_go_end
       THEN ok' = (n = 0) /\ UNCHANGED pc
       ELSE pc' = "evRead" /\ UNCHANGED ok
  /\ UNCHANGED <<daqVars, m_go_end, modeVars, m_file_size, m_event_count, waitVars, event_count>>

\* All blocks up to the last one of event e are in the file.
OnDisk(e) == e \in CodaEvents /\ EndBlock[e] * BLOCK <= file

EvRead ==
  /\ pc = "evRead"
  /\ OnDisk(m_event_count)
  /\ event_count' = m_event_count
  /\ m_event_count' = m_event_count + 1
  /\ toRead' = toRead - 1
  /\ IF toRead = 1 THEN pc' = "idle" /\ ok' = TRUE
                   ELSE UNCHANGED <<pc, ok>>
  /\ UNCHANGED <<daqVars, m_go_end, modeVars, m_file_size, waitVars>>

ForceEnd ==
  /\ pc' = "idle"
  /\ ok' = FALSE
  /\ m_go_end' = TRUE
  /\ UNCHANGED <<daqVars, modeVars, m_file_size, m_event_count, toRead, waitVars, event_count>>

\* The end of the file: online, try to recover ...
EvReadFails ==
  /\ pc = "evRead"
  /\ ~OnDisk(m_event_count)
  /\ m_online /\ m_run > 0
  /\ pc' = "endFile"
  /\ UNCHANGED <<daqVars, m_go_end, modeVars, m_file_size, m_event_count, toRead,
                 waitVars, event_count, ok>>

\* ... or else make a "bad end".
BadEnd ==
  /\ pc = "evRead"
  /\ ~OnDisk(m_event_count)
  /\ ~(m_online /\ m_run > 0)
  /\ ForceEnd

EndFileExists     == pc = "endFile" /\ daq = "ended" /\ ForceEnd
NextRunFileExists == pc = "nextRun" /\ nextRunFile /\ ForceEnd

NoEndFile ==
  /\ pc = "endFile"
  /\ daq # "ended"
  /\ pc' = "nextRun"
  /\ UNCHANGED <<daqVars, m_go_end, modeVars, m_file_size, m_event_count, toRead, waitVars,
                 event_count, ok>>

\* Mutant: open the file again without waiting for it to grow.
ReopenAtOnce ==
  /\ pc = "nextRun"
  /\ ~nextRunFile
  /\ pc' = "wait"
  /\ file_size_min' = m_file_size
  /\ tries' = N_WAIT + 1
  /\ UNCHANGED <<daqVars, m_go_end, modeVars, m_file_size, m_event_count, toRead, event_count, ok>>

\* Wait for one more block than there were when the file was last looked at.
Reopen ==
  /\ pc = "nextRun"
  /\ ~nextRunFile
  /\ pc' = "wait"
  /\ file_size_min' = m_file_size + BLOCK
  /\ tries' = N_WAIT + 1
  /\ UNCHANGED <<daqVars, m_go_end, modeVars, m_file_size, m_event_count, toRead, event_count, ok>>

CodaStep == \/ WaitBigEnough \/ WaitAndSleep \/ WaitTimeout \/ EvOpen
            \/ EvRead \/ EvReadFails \/ BadEnd
            \/ EndFileExists \/ NoEndFile \/ NextRunFileExists \/ Reopen

CodaTypeOK ==
  /\ file \in 0..(NBlocks * BLOCK)
  /\ daq \in {"writing", "ended", "dead"}
  /\ nextRunFile \in BOOLEAN
  /\ pc \in {"idle", "wait", "evOpen", "evRead", "endFile", "nextRun"}
  /\ m_go_end \in BOOLEAN
  /\ m_online \in BOOLEAN
  /\ m_run \in {0, 1}
  /\ m_file_size \in 0..(NBlocks * BLOCK)
  /\ m_event_count \in 0..NCodaEvents
  /\ toRead \in Nat
  /\ file_size_min \in Nat
  /\ tries \in Nat
  /\ event_count \in CodaEvents
  /\ ok \in BOOLEAN
=============================================================================

----------------------------- MODULE CodaReader -----------------------------
(***************************************************************************)
(* CodaInputManager under a caller that only opens the file and asks for   *)
(* one event after the other, as MainDaqParser does for a good file.       *)
(***************************************************************************)
EXTENDS CodaInputManager

VARIABLES caller,     \* "start", "opening", "reading" or "ended"
          (* History variables *)
          returned,   \* how many events have been returned
          seenAt,     \* size of the file when NextCodaEvent was called, or when
                      \* evRead() failed, whichever was later
          depth       \* nesting of NextCodaEvent within NextCodaEvent

history == <<returned, seenAt, depth>>
vars    == <<daqVars, codaVars, caller, history>>

Init == /\ CodaInit
        /\ caller = "start"
        /\ returned = 0
        /\ seenAt = 0
        /\ depth = 0

-----------------------------------------------------------------------------
\* fileopen() calls OpenFile ...
Open == /\ caller = "start"
        /\ OpenFile(BLOCK, N_WAIT)
        /\ caller' = "opening"
        /\ UNCHANGED history

\* ... and gives up if it fails.
Opened == /\ caller = "opening"
          /\ pc = "idle"
          /\ caller' = IF ok THEN "reading" ELSE "ended"
          /\ UNCHANGED <<daqVars, codaVars, history>>

\* The first event is the Prestart event, which has the run number.
SetRunNumber == /\ caller = "reading"
                /\ pc = "idle"
                /\ returned = 1
                /\ m_run = 0
                /\ m_run' = 1
                /\ UNCHANGED <<daqVars, pc, m_go_end, m_online, m_file_size, m_event_count, toRead,
                               waitVars, event_count, ok, caller, history>>

Call == /\ caller = "reading"
        /\ ~m_go_end
        /\ returned = 0 \/ m_run = 1
        /\ JumpCodaEvent(1)
        /\ seenAt' = file
        /\ UNCHANGED <<caller, returned, depth>>

GiveUp == /\ caller = "reading"
          /\ pc = "idle"
          /\ m_go_end
          /\ caller' = "ended"
          /\ UNCHANGED <<daqVars, codaVars, history>>

ReaderStep ==
  /\ CodaStep
  /\ returned' = IF pc = "evRead" /\ pc' = "idle" /\ ok' THEN returned + 1 ELSE returned
  /\ seenAt' = IF pc = "evRead" /\ ~OnDisk(m_event_count) THEN file ELSE seenAt
  /\ depth' = IF pc' = "idle" THEN 0
              ELSE IF pc = "evOpen" THEN depth + 1 ELSE depth
  /\ UNCHANGED caller

CallerStep == Open \/ Opened \/ SetRunNumber \/ Call \/ GiveUp

Terminated == caller = "ended" /\ daq # "writing" /\ nextRunFile /\ UNCHANGED vars

Next == \/ DaqStep /\ UNCHANGED <<caller, history>>
        \/ ReaderStep
        \/ CallerStep
        \/ Terminated

Spec == Init /\ [][Next]_vars

\* The decoder runs on; nothing is asked of the DAQ.
FairSpec == Spec /\ WF_vars(ReaderStep \/ CallerStep)

-----------------------------------------------------------------------------
(* Properties *)

\* The variables have their types.
TypeOK == /\ CodaTypeOK
          /\ caller \in {"start", "opening", "reading", "ended"}
          /\ returned \in 0..NCodaEvents
          /\ seenAt \in 0..(NBlocks * BLOCK)
          /\ depth \in Nat

\* The events are returned in their order, none is left out and none is
\* returned again, however often the file is opened anew and at whatever size.
InOrder == returned > 0 /\ pc = "idle" => event_count = returned - 1

\* The reader gives up only events that were not yet in the file when it was
\* last asked for one, or last met the end of the file: a look at the END file,
\* at the file of the next run, or a timeout never costs more than what the DAQ
\* wrote since then.
LossBounded ==
  caller = "ended" /\ m_go_end =>
    \A e \in CodaEvents : EndBlock[e] * BLOCK <= seenAt => e < returned

\* NextCodaEvent and JumpCodaEvent call each other, one level deeper each time
\* that the file ends again before the wanted event does; every level needs
\* another block, so that the depth is bounded by the length of the file.
RecursionBounded == depth * BLOCK <= m_file_size /\ depth < NBlocks

\* The reader comes to an end, whatever the DAQ does.
Termination == <>(caller = "ended")
=============================================================================

--------------------------- MODULE MainDaqParser ----------------------------
(***************************************************************************)
(* The decoder of the Main DAQ, MainDaqParser: NextPhysicsEvent() hands    *)
(* out one physics event after the other; when none is left it calls       *)
(* ParseOneSpill(), which reads CODA events until the begin of the next    *)
(* spill (BOS).  The data of one physics event are spread over the boards  *)
(* and the flush events of a spill and are collected under the event ID in *)
(* list_ed, which becomes list_ed_now when the spill is over.              *)
(*                                                                         *)
(* One handler is one step, as the parser is a single thread.  A handler   *)
(* that returns an error, an uncovered event type or a skipped board ends  *)
(* ParseOneSpill() early; NextPhysicsEvent() then calls it again, so that  *)
(* nothing but the time of the call differs.                               *)
(***************************************************************************)
EXTENDS CodaInputManager, FiniteSets, Sequences

CONSTANTS
  CodaFile,   \* what the DAQ writes, [CodaEvents -> record], see Written
  Blanks,     \* events that are in the file before their contents are
  sampling,   \* 0: every event; n: one of n
  UINT_MAX,   \* the unsigned int is 0..UINT_MAX
  MAX_RETRIES \* bound: the DAQ fills a blank event before it is met more often

Types    == {"prestart", "bos", "eos", "flush", "slow", "counter", "end", "other"}
EventIDs == UNION {CodaFile[c].ids : c \in CodaEvents}

\* A CODA event: the physics events of which it has data, those of them with
\* trigger bits and with the bit NIM3 among these, those with a QIE record and with
\* a turnOnset in it that is not 0, whether some turnOnset is beyond 360000 (the
\* beam has stopped), and the ID, if there is one, in a slow-control or
\* spill-counter event.
Written == [type : Types, ids : SUBSET Nat, trig : SUBSET Nat, nim3 : SUBSET Nat,
            qie : SUBSET Nat, onset : SUBSET Nat,
            late : BOOLEAN, spillcount : SUBSET (0..(UINT_MAX - 1))]

ASSUME ParserAssumption ==
  /\ \A c \in CodaEvents : CodaFile[c] \in Written
  /\ \A c \in CodaEvents : CodaFile[c].nim3 \subseteq CodaFile[c].trig
  /\ \A c \in CodaEvents : CodaFile[c].onset \subseteq CodaFile[c].qie
  /\ \A c \in CodaEvents : CodaFile[c].trig \cup CodaFile[c].qie \subseteq CodaFile[c].ids
  /\ \A c \in CodaEvents : Cardinality(CodaFile[c].spillcount) <= 1
  /\ Blanks \subseteq CodaEvents
  /\ sampling \in Nat
  /\ MAX_RETRIES \in Nat
  /\ UINT_MAX \in Nat /\ UINT_MAX > NCodaEvents + MAX_RETRIES

VARIABLES
  stage,         \* where NextPhysicsEvent and ParseOneSpill are
  filled,        \* external: blank events that have got their contents
  retries,       \* how often a blank event was met
  list_ed,       \* events of the spill that is read, by event ID
  list_ed_now,   \* events of the last spill that is complete
  rest,          \* the iterator "it": IDs that are not handed out yet
  list_sd,       \* spill records, by spill ID
  sd_now,        \* ID of the record that goes with list_ed_now
  has_1st_bos,
  spillID, spillID_local, spillID_cntr, spillID_slow,
  turn_late,     \* turn_id_max > 360000
  out,           \* history: what NextPhysicsEvent has handed out
  processed      \* history: how far the CODA events are processed

parserVars  == <<list_ed, list_ed_now, rest, list_sd, sd_now, has_1st_bos, spillID,
                 spillID_local, spillID_cntr, spillID_slow, turn_late, out, processed>>
blankVars   == <<filled, retries>>
vars        == <<daqVars, codaVars, stage, blankVars, parserVars>>

NoData   == [spillID |-> 0, hits |-> <<>>, nim3 |-> FALSE, onset |-> FALSE]
NoRecord == [spill_id_slow |-> 0, bos |-> {}, eos |-> {}, slow |-> {}, target |-> {}]

\* operator[] of std::map, which adds what is not there
At(map, key, default) == IF key \in DOMAIN map THEN map[key] ELSE default
Put(map, key, value)  == [k \in DOMAIN map \cup {key} |-> IF k = key THEN value ELSE map[k]]
NoMap                 == [k \in {} |-> NoData]

Init == /\ CodaInit
        /\ stage = "start"
        /\ filled = {} /\ retries = 0
        /\ list_ed = NoMap /\ list_ed_now = NoMap /\ rest = {}
        /\ list_sd = NoMap /\ sd_now = 0
        /\ has_1st_bos = FALSE
        /\ spillID = 0 /\ spillID_local = 0 /\ spillID_cntr = 0 /\ spillID_slow = 0
        /\ turn_late = FALSE
        /\ out = <<>> /\ processed = 0

-----------------------------------------------------------------------------
(* Reading *)

OpenCodaFile == /\ stage = "start"
                /\ OpenFile(BLOCK, N_WAIT)
                /\ stage' = "opening"
                /\ UNCHANGED <<blankVars, parserVars>>

Opened == /\ stage = "opening"
          /\ pc = "idle"
          /\ stage' = IF ok THEN "parsing" ELSE "ended"
          /\ UNCHANGED <<daqVars, codaVars, blankVars, parserVars>>

NextCodaEvent == /\ stage = "parsing"
                 /\ JumpCodaEvent(1)
                 /\ stage' = "reading"
                 /\ UNCHANGED <<blankVars, parserVars>>

\* The reader has come to its end; what is in list_ed is never packed.
NoCodaEvent == /\ stage = "reading"
               /\ pc = "idle" /\ ~ok
               /\ stage' = "ended"
               /\ UNCHANGED <<daqVars, codaVars, blankVars, parserVars>>

IsBlank(c) == c \in Blanks \ filled

\* The event that NextCodaEvent has returned, of one type.
Returned(type) == /\ stage = "reading"
                  /\ pc = "idle" /\ ok
                  /\ ~IsBlank(event_count)
                  /\ CodaFile[event_count].type = type
                  /\ processed' = event_count + 1

\* "case 0": open the file anew ...
Blank == /\ stage = "reading"
         /\ ok
         /\ IsBlank(event_count)
         /\ retries < MAX_RETRIES
         /\ OpenFile(BLOCK, N_WAIT)
         /\ stage' = "reopening"
         /\ retries' = retries + 1
         /\ UNCHANGED <<filled, parserVars>>

\* Mutant: no jump.
JumpNothing == /\ stage = "reopening"
               /\ ok
               /\ JumpCodaEvent(0)
               /\ stage' = "jumping"
               /\ UNCHANGED <<blankVars, parserVars>>

\* ... jump over event_count - 1 events, an unsigned difference, and go on.
JumpBack == /\ stage = "reopening"
            /\ ok
            /\ JumpCodaEvent((event_count + UINT_MAX) % (UINT_MAX + 1))
            /\ stage' = "jumping"
            /\ UNCHANGED <<blankVars, parserVars>>

Retried == /\ pc = "idle"
           /\ \/ stage = "reopening" /\ ~ok
              \/ stage = "jumping"
           /\ stage' = "parsing"
           /\ UNCHANGED <<daqVars, codaVars, blankVars, parserVars>>

DaqFill == \E c \in Blanks \ filled :
             /\ filled' = filled \cup {c}
             /\ UNCHANGED <<daqVars, codaVars, stage, retries, parserVars>>

-----------------------------------------------------------------------------
(* Handlers of CODA events *)

ProcessCodaPrestart ==
  /\ Returned("prestart")
  /\ m_run' = 1
  /\ stage' = "parsing"
  /\ UNCHANGED <<daqVars, pc, m_go_end, m_online, m_file_size, m_event_count, toRead, waitVars,
                 event_count, ok, blankVars, list_ed, list_ed_now, rest, list_sd, sd_now,
                 has_1st_bos, spillID, spillID_local, spillID_cntr, spillID_slow, turn_late, out>>

ProcessCodaEnd ==
  /\ Returned("end")
  /\ ForceEnd
  /\ stage' = "parsing"
  /\ UNCHANGED <<blankVars, list_ed, list_ed_now, rest, list_sd, sd_now, has_1st_bos, spillID,
                 spillID_local, spillID_cntr, spillID_slow, turn_late, out>>

\* GO, FEE, run descriptor and standard physics events, and what is not covered.
ProcessOther ==
  /\ Returned("other")
  /\ stage' = "parsing"
  /\ UNCHANGED <<daqVars, codaVars, blankVars, list_ed, list_ed_now, rest, list_sd, sd_now,
                 has_1st_bos, spillID, spillID_local, spillID_cntr, spillID_slow, turn_late, out>>

\* Mutant: a trigger bit that was once set is kept.
NIM3Kept(d, id, c) == d.nim3 \/ id \in CodaFile[c].nim3

\* Trigger bits and a QIE record replace those of an earlier flush event.
NIM3With(d, id, c) == IF id \in CodaFile[c].trig THEN id \in CodaFile[c].nim3 ELSE d.nim3
OnsetWith(d, id, c) == IF id \in CodaFile[c].qie THEN id \in CodaFile[c].onset ELSE d.onset

\* Every physics event of which the flush event has data gets the new hits.
AddData(id) ==
  LET c == event_count
      d == At(list_ed, id, NoData)
  IN  [spillID |-> spillID,
       hits    |-> Append(d.hits, c),
       nim3    |-> NIM3With(d, id, c),
       onset   |-> OnsetWith(d, id, c)]

\* A flush event before the first BOS is ignored.
ProcessPhysFlush ==
  /\ Returned("flush")
  /\ IF has_1st_bos
       THEN /\ list_ed' = [id \in DOMAIN list_ed \cup CodaFile[event_count].ids |->
                             IF id \in CodaFile[event_count].ids THEN AddData(id) ELSE list_ed[id]]
            /\ turn_late' = (turn_late \/ CodaFile[event_count].late)
       ELSE UNCHANGED <<list_ed, turn_late>>
  /\ stage' = "parsing"
  /\ UNCHANGED <<daqVars, codaVars, blankVars, list_ed_now, rest, list_sd, sd_now,
                 has_1st_bos, spillID, spillID_local, spillID_cntr, spillID_slow, out>>

\* Most slow-control values belong to the spill before the one to come.
ProcessPhysSlow ==
  /\ Returned("slow")
  /\ \E new \in IF CodaFile[event_count].spillcount = {} THEN {spillID_slow}
                ELSE {n + 1 : n \in CodaFile[event_count].spillcount} :
       LET before == (new + UINT_MAX) % (UINT_MAX + 1)
           sdb    == At(list_sd, before, NoRecord)
           sd1    == Put(list_sd, before, [sdb EXCEPT !.slow = @ \cup {event_count}])
           sdn    == At(sd1, new, NoRecord)
       IN  /\ spillID_slow' = new
           /\ list_sd' = Put(sd1, new, [sdn EXCEPT !.target = @ \cup {event_count}])
  /\ stage' = "parsing"
  /\ UNCHANGED <<daqVars, codaVars, blankVars, list_ed, list_ed_now, rest, sd_now,
                 has_1st_bos, spillID, spillID_local, spillID_cntr, turn_late, out>>

ProcessPhysSpillCounter ==
  /\ Returned("counter")
  /\ \E n \in CodaFile[event_count].spillcount : spillID_cntr' = n + 1
  /\ stage' = "parsing"
  /\ UNCHANGED <<daqVars, codaVars, blankVars, list_ed, list_ed_now, rest, list_sd, sd_now,
                 has_1st_bos, spillID, spillID_local, spillID_slow, turn_late, out>>

\* Mutant: NIM3 events are kept.
DroppedFew(id) == id = 0 \/ (sampling > 0 /\ id % sampling # 0)

\* PackOneSpillData: which events of the spill are dropped
Dropped(id) ==
  \/ id = 0
  \/ sampling > 0 /\ id % sampling # 0
  \/ turn_late /\ ~list_ed[id].onset /\ list_ed[id].nim3

\* Mutant: the new spill's record.
PackNextRecord ==
  LET kept == {id \in DOMAIN list_ed : ~Dropped(id)}
  IN  /\ list_ed_now' = [id \in kept |-> list_ed[id]]
      /\ list_ed' = list_ed_now
      /\ rest' = kept
      /\ sd_now' = spillID_local + 1
      /\ stage' = IF kept = {} THEN "parsing" ELSE "handing"

\* The spill is over: drop, swap the two buffers, take the spill's record.
PackOneSpillData ==
  LET kept == {id \in DOMAIN list_ed : ~Dropped(id)}
  IN  /\ list_ed_now' = [id \in kept |-> list_ed[id]]
      /\ list_ed' = list_ed_now
      /\ rest' = kept
      /\ sd_now' = spillID
      /\ stage' = IF kept = {} THEN "parsing" ELSE "handing"

\* BOS: pack the spill before, give the new one an ID and a record.
ProcessPhysBOS ==
  /\ Returned("bos")
  /\ has_1st_bos' = TRUE
  /\ PackOneSpillData
  /\ spillID_local' = spillID_local + 1
  /\ spillID' = spillID_local'
  /\ LET sd0 == Put(list_sd, spillID, At(list_sd, spillID, NoRecord))
         sd  == At(sd0, spillID', NoRecord)
     IN  list_sd' = Put(sd0, spillID', [sd EXCEPT !.spill_id_slow = spillID_slow,
                                                  !.bos = @ \cup {event_count}])
  /\ spillID_cntr' = 0
  /\ spillID_slow' = 0
  /\ turn_late' = FALSE
  /\ UNCHANGED <<daqVars, codaVars, blankVars, out>>

ProcessPhysEOS ==
  /\ Returned("eos")
  /\ LET sd == At(list_sd, spillID, NoRecord)
     IN  list_sd' = Put(list_sd, spillID, [sd EXCEPT !.eos = @ \cup {event_count}])
  /\ stage' = "parsing"
  /\ UNCHANGED <<daqVars, codaVars, blankVars, list_ed, list_ed_now, rest, sd_now,
                 has_1st_bos, spillID, spillID_local, spillID_cntr, spillID_slow, turn_late, out>>

-----------------------------------------------------------------------------
(* NextPhysicsEvent *)

Smallest(ids) == CHOOSE id \in ids : \A e \in ids : id <= e

\* Mutant: one event of each spill.
HandOutOne == /\ stage = "handing"
              /\ rest # {}
              /\ LET id == Smallest(rest)
                 IN  /\ out' = Append(out, [id      |-> id,
                                            spillID |-> list_ed_now[id].spillID,
                                            hits    |-> list_ed_now[id].hits])
                     /\ rest' = {}
              /\ UNCHANGED <<daqVars, codaVars, stage, blankVars, list_ed, list_ed_now, list_sd, sd_now,
                             has_1st_bos, spillID, spillID_local, spillID_cntr, spillID_slow,
                             turn_late, processed>>

HandOut == /\ stage = "handing"
           /\ rest # {}
           /\ LET id == Smallest(rest)
              IN  /\ out' = Append(out, [id      |-> id,
                                         spillID |-> list_ed_now[id].spillID,
                                         hits    |-> list_ed_now[id].hits])
                  /\ rest' = rest \ {id}
           /\ UNCHANGED <<daqVars, codaVars, stage, blankVars, list_ed, list_ed_now, list_sd, sd_now,
                          has_1st_bos, spillID, spillID_local, spillID_cntr, spillID_slow,
                          turn_late, processed>>

\* Mutant: events that are not handed out yet are dropped.
ParseNextEarly == /\ stage = "handing"
                  /\ list_ed_now' = NoMap
                  /\ stage' = "parsing"
                  /\ UNCHANGED <<daqVars, codaVars, blankVars, list_ed, rest, list_sd, sd_now, has_1st_bos,
                                 spillID, spillID_local, spillID_cntr, spillID_slow, turn_late,
                                 out, processed>>

ParseNext == /\ stage = "handing"
             /\ rest = {}
             /\ list_ed_now' = NoMap
             /\ stage' = "parsing"
             /\ UNCHANGED <<daqVars, codaVars, blankVars, list_ed, rest, list_sd, sd_now, has_1st_bos,
                            spillID, spillID_local, spillID_cntr, spillID_slow, turn_late,
                            out, processed>>

ParserStep ==
  \/ OpenCodaFile \/ Opened \/ NextCodaEvent \/ NoCodaEvent
  \/ Blank \/ JumpBack \/ Retried
  \/ ProcessCodaPrestart \/ ProcessCodaEnd \/ ProcessOther \/ ProcessPhysFlush
  \/ ProcessPhysSlow \/ ProcessPhysSpillCounter \/ ProcessPhysBOS \/ ProcessPhysEOS
  \/ HandOut \/ ParseNext

ReaderStep == CodaStep /\ UNCHANGED <<stage, blankVars, parserVars>>

Terminated == stage = "ended" /\ daq # "writing" /\ nextRunFile /\ UNCHANGED vars

Next == \/ DaqStep /\ UNCHANGED <<stage, blankVars, parserVars>>
        \/ DaqFill
        \/ ReaderStep
        \/ ParserStep
        \/ Terminated

Spec == Init /\ [][Next]_vars
=============================================================================

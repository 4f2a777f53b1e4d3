--------------------------- MODULE DecodedSpills ----------------------------
(***************************************************************************)
(* What MainDaqParser promises: the physics events that it hands out, as a *)
(* function of what the DAQ has written into the file.                     *)
(***************************************************************************)
EXTENDS MainDaqParser, Functions

FairSpec == Spec /\ WF_vars(ReaderStep \/ ParserStep)

Of(type) == {c \in CodaEvents : CodaFile[c].type = type}

\* The number of BOS events before CODA event n, and the spill of event c: 1, 2,
\* ..., and 0 before the first BOS.
Spills(n)  == Cardinality({b \in Of("bos") : b < n})
SpillOf   == [c \in CodaEvents |-> Spills(c + 1)]

\* The flush events of spill k, and those that have hits of physics event id, when
\* the CODA events of the set skipped are not in the file.
FlushOf(k, skipped)    == {c \in Of("flush") \ skipped : SpillOf[c] = k}
HitsOf(k, id, skipped) == {c \in FlushOf(k, skipped) : id \in CodaFile[c].ids}

\* The last trigger bits of physics event id in the flush events F have NIM3; the
\* last QIE record has a turnOnset that is not 0.
LastNim3(F, id)  ==
  \E c \in F : id \in CodaFile[c].nim3 /\ \A d \in F : d > c => id \notin CodaFile[d].trig
LastOnset(F, id) ==
  \E c \in F : id \in CodaFile[c].onset /\ \A d \in F : d > c => id \notin CodaFile[d].qie

\* Physics event id of spill k is left out.
LeftOut(k, id, skipped) ==
  \/ id = 0
  \/ sampling > 0 /\ id % sampling # 0
  \/ /\ \E c \in FlushOf(k, skipped) : CodaFile[c].late
     /\ LastNim3(FlushOf(k, skipped), id)
     /\ ~LastOnset(FlushOf(k, skipped), id)

IDsOf(k, skipped) ==
  {id \in UNION {CodaFile[c].ids : c \in FlushOf(k, skipped)} : ~LeftOut(k, id, skipped)}

\* The keys of the physics events of the spills that are over when n CODA events
\* are processed, and the order of the keys.
Keys(n, skipped) ==
  UNION {{[spillID |-> k, id |-> id] : id \in IDsOf(k, skipped)} : k \in 1..(Spills(n) - 1)}
Precedes(d, e)   == d.spillID < e.spillID \/ (d.spillID = e.spillID /\ d.id < e.id)
Key(e)           == [spillID |-> e.spillID, id |-> e.id]

-----------------------------------------------------------------------------
(* Properties *)

\* A spill is counted by its BOS, and again when a retry repeats that.
SpillIDs  == 0..(NCodaEvents + MAX_RETRIES)
EventData == [spillID : SpillIDs, hits : Seq(CodaEvents), nim3 : BOOLEAN, onset : BOOLEAN]
SpillData == [spill_id_slow : 0..UINT_MAX, bos : SUBSET CodaEvents, eos : SUBSET CodaEvents,
              slow : SUBSET CodaEvents, target : SUBSET CodaEvents]

\* The variables have their types.
TypeOK ==
  /\ CodaTypeOK
  /\ stage \in {"start", "opening", "parsing", "reading", "reopening", "jumping", "handing", "ended"}
  /\ filled \subseteq Blanks /\ retries \in 0..MAX_RETRIES
  /\ \A map \in {list_ed, list_ed_now} :
       DOMAIN map \subseteq EventIDs /\ \A id \in DOMAIN map : map[id] \in EventData
  /\ rest \subseteq DOMAIN list_ed_now
  /\ DOMAIN list_sd \subseteq 0..UINT_MAX /\ \A k \in DOMAIN list_sd : list_sd[k] \in SpillData
  /\ sd_now \in {0} \cup DOMAIN list_sd
  /\ has_1st_bos \in BOOLEAN
  /\ {spillID, spillID_local} \subseteq SpillIDs
  /\ {spillID_cntr, spillID_slow} \subseteq 0..UINT_MAX
  /\ turn_late \in BOOLEAN
  /\ processed \in 0..NCodaEvents

\* What is handed out is a prefix of the events of the spills that are over: each
\* of them once, in the order of the spills and of the IDs, with the hits of exactly
\* the flush events between its BOS and the next one.
PrefixWithout(skipped) ==
  LET keys == Keys(processed, skipped)
  IN  /\ \A i \in DOMAIN out :
           /\ Key(out[i]) \in keys
           /\ Range(out[i].hits) = HitsOf(out[i].spillID, out[i].id, skipped)
           /\ \A d \in keys : Precedes(d, out[i]) => \E j \in 1..(i - 1) : Key(out[j]) = d
      /\ \A i, j \in DOMAIN out : i < j => Precedes(out[i], out[j])

\* Nothing is missing of the spills before the last BOS.
CompleteWithout(skipped) ==
  stage = "ended" => \A d \in Keys(processed, skipped) : \E i \in DOMAIN out : Key(out[i]) = d

\* No flush event gives its hits to a physics event twice, or before an earlier one.
HitsInOrder == \A i \in DOMAIN out : \A j, k \in DOMAIN out[i].hits :
                 j < k => out[i].hits[j] < out[i].hits[k]

\* However the file grows, however often it is opened anew and wherever the run
\* is cut off, what is handed out is what the file defines, up to the last BOS.
\* (As long as no blank event was met; SameButBlanks is about those.)
OutputAsExpected ==
  retries = 0 => PrefixWithout({}) /\ CompleteWithout({}) /\ HitsInOrder

\* NextPhysicsEvent hands out an event together with the record of its own spill,
\* a record that is complete: it has the BOS of that spill and, if there is one
\* in the file, the EOS.
RecordMatches ==
  stage = "handing" =>
    \A id \in DOMAIN list_ed_now :
      /\ list_ed_now[id].spillID = sd_now
      /\ list_sd[sd_now].bos = {b \in Of("bos") : SpillOf[b] = sd_now}
      /\ list_sd[sd_now].eos = {e \in Of("eos") : SpillOf[e] = sd_now}

\* The decoder comes to an end, whatever the DAQ does, if no event stays blank.
Termination == <>(filled = Blanks) => <>(stage = "ended")

\* No BOS event is counted twice or skipped, and no EOS event is skipped.
Harmless == \A c \in Blanks : /\ CodaFile[c].type \notin {"bos", "eos"}
                              /\ c > 0 => CodaFile[c - 1].type # "bos"

\* A blank event is at last either processed or skipped as a whole, and costs no
\* more than what it has itself: what is handed out is what the file without the
\* skipped events defines, except that hits may be there twice.  (The retry
\* processes the event before the blank one again, which would count a spill twice
\* if that were a BOS.)
SameButBlanks ==
  Harmless => \E skipped \in SUBSET Blanks : PrefixWithout(skipped) /\ CompleteWithout(skipped)

\* No flush event gives its hits to a physics event twice.
HitsOnce == \A i \in DOMAIN out : \A j, k \in DOMAIN out[i].hits :
              j # k => out[i].hits[j] # out[i].hits[k]

\* "Regard the Slow Control info as primary (rather than Spill Counter)": a spill
\* whose number the slow control has given has this number.
SlowControlIsPrimary ==
  \A k \in DOMAIN list_sd : list_sd[k].bos # {} /\ list_sd[k].spill_id_slow # 0
                              => k = list_sd[k].spill_id_slow
=============================================================================

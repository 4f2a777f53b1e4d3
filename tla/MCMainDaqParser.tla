-------------------------- MODULE MCMainDaqParser ---------------------------
EXTENDS DecodedSpills

E(type)  == [type |-> type, ids |-> {}, trig |-> {}, nim3 |-> {}, qie |-> {}, onset |-> {},
             late |-> FALSE, spillcount |-> {}]
Flush(i) == [E("flush") EXCEPT !.ids = i]

\* Four spills: hits of one event in two flush events, the same event ID in two
\* spills, the bad event 0, NIM3 events after the end of the beam, trigger bits and
\* a QIE record that a second flush event replaces, a flush event before the first
\* BOS, spills without an EOS, and a last spill without an end.
MCCodaFile == [c \in CodaEvents |->
  CASE c = 0  -> E("prestart")
    [] c = 1  -> Flush({1})
    [] c = 2  -> [E("slow") EXCEPT !.spillcount = {6}]
    [] c = 3  -> E("bos")
    [] c = 4  -> [Flush({0, 1, 2, 4}) EXCEPT !.trig = {2, 4}, !.nim3 = {2, 4}, !.qie = {2, 4},
                                             !.onset = {4}]
    [] c = 5  -> [Flush({1, 2, 3, 4}) EXCEPT !.trig = {1, 2, 3}, !.nim3 = {1, 3}, !.qie = {1, 4},
                                             !.onset = {1}, !.late = TRUE]
    [] c = 6  -> E("eos")
    [] c = 7  -> [E("counter") EXCEPT !.spillcount = {7}]
    [] c = 8  -> E("bos")
    [] c = 9  -> [Flush({1, 3}) EXCEPT !.trig = {1, 3}, !.nim3 = {3}]
    [] c = 10 -> E("slow")
    [] c = 11 -> E("eos")
    [] c = 12 -> E("other")
    [] c = 13 -> E("bos")
    [] c = 14 -> Flush({5})
    [] c = 15 -> E("bos")
    [] OTHER  -> E("end")]

\* Three blocks; the second spill goes on from the first block into the third.
MCEndBlock == [c \in CodaEvents |-> CASE c < 5 -> 1 [] c < 10 -> 2 [] OTHER -> 3]

\* A short run with one spill and its neighbours.
ShortFile == [c \in CodaEvents |->
  CASE c = 0 -> E("prestart")
    [] c = 1 -> [E("slow") EXCEPT !.spillcount = {6}]
    [] c = 2 -> E("bos")
    [] c = 3 -> Flush({1, 2})
    [] c = 4 -> Flush({2})
    [] c = 5 -> E("bos")
    [] OTHER -> E("end")]

ShortEndBlock == [c \in CodaEvents |-> IF c < 4 THEN 1 ELSE 2]
=============================================================================

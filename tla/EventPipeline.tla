---------------------------- MODULE EventPipeline ----------------------------
(***************************************************************************)
(* What KScheduler promises as a whole: every event of the input file is   *)
(* written to the output file exactly once, with the tracklets that were   *)
(* found in it and no other, and the file is closed after the last one.    *)
(* The events may be written in any order.                                 *)
(***************************************************************************)
EXTENDS Naturals, Sequences

CONSTANTS Events,      \* the entries of the input tree
          NTracklets   \* [Events -> Nat], how many tracklets each event has

VARIABLES written,     \* the entries of the output tree
          closed       \* the output file is closed

vars == <<written, closed>>

\* The output entry of event e; a tracklet is named after its event.
Entry(e) == [rawEvent        |-> e,
             outputTracklets |-> [i \in 1..NTracklets[e] |-> e],
             nTracklets      |-> NTracklets[e]]

Pending == {e \in Events : \A i \in 1..Len(written) : written[i] # Entry(e)}

Init == /\ written = <<>>
        /\ closed = FALSE

Write(e) == /\ ~closed
            /\ e \in Pending
            /\ written' = Append(written, Entry(e))
            /\ UNCHANGED closed

Close == /\ ~closed
         /\ Pending = {}
         /\ closed' = TRUE
         /\ UNCHANGED written

Next == (\E e \in Events : Write(e)) \/ Close

Spec == Init /\ [][Next]_vars /\ WF_vars(Next)
=============================================================================

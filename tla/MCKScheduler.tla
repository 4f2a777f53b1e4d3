---------------------------- MODULE MCKScheduler ----------------------------
EXTENDS KScheduler, TLC

\* One event with two tracklets, one that the tracker rejects, then events with
\* one tracklet, so that an array that is not cleared shows.
MCNTracklets == [e \in Events |-> IF e = 0 THEN 2 ELSE IF e = 1 THEN 0 ELSE 1]

Symmetry == Permutations(Workers)
=============================================================================

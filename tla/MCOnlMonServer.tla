--------------------------- MODULE MCOnlMonServer ---------------------------
EXTENDS OnlMonServer

\* Two events in one spill, so that the entry of a present spill counts on; and
\* events before the first begin of spill, which have the spill ID 0, with a
\* spill without events between two others.
MCSpillRuns == {<<1, 2, 2>>, <<0, 1, 3>>}

MCRequests == {<<0, 0>>, <<1, 0>>, <<1, 2>>}
=============================================================================

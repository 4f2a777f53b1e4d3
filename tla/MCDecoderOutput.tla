--------------------------- MODULE MCDecoderOutput ---------------------------
EXTENDS DecoderOutput

\* Two events of one spill, two of another group, one of a third; ten spills
\* per file, and no group left out.
MCEventSpills == <<3, 3, 8, 12, 25>>

\* The beam was off during the spills 10 to 19.
GapSpills == <<3, 8, 25>>
=============================================================================

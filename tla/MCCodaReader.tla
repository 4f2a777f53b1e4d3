---------------------------- MODULE MCCodaReader ----------------------------
EXTENDS CodaReader

\* Two events in the first block, one that ends with the second block and one
\* that goes on over two blocks.
MCEndBlock == [e \in CodaEvents |-> CASE e < 2 -> 1 [] e = 2 -> 2 [] OTHER -> 4]
=============================================================================

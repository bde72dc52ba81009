------------------------- MODULE MCDirectConnections --------------------------
\* The two threads of DirectConnections are interchangeable in safety runs.
EXTENDS DirectConnections

Symmetry == Permutations(Client)
==============================================================================

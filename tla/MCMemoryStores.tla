--------------------------- MODULE MCMemoryStores ---------------------------
EXTENDS MemoryStores

CONSTANTS r1, r2, d1, s1

\* Two requests compete for one scope.
MCSameScope == [r \in Request |-> <<d1, s1>>]
=============================================================================

------------------------ MODULE MCInsightGeneration ------------------------
EXTENDS InsightGeneration, TLC

CONSTANTS r1, r2, r3, d1, d2, s1, s2

\* Three requests for one scope: any two of them may swap roles.
MCSameScope == [r \in Request |-> <<d1, s1>>]
MCSymmetry == Permutations(Request)

=============================================================================

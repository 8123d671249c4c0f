---------------------------- MODULE MCTimedLock ----------------------------
EXTENDS TimedLock

CONSTANTS r1, r2, r3, r4, d1, s1, s2

\* r1, r2 and r3 compete for one scope, r4 asks for another.
MCTarget == [r \in Request |-> IF r = r4 THEN <<d1, s2>> ELSE <<d1, s1>>]
=============================================================================

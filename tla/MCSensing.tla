----------------------------- MODULE MCSensing -----------------------------
EXTENDS Sensing

\* A thin object fills two bins near, one farther out.
Fills2 == [r \in Ranges |-> IF r = 1 THEN 2 ELSE 1]
\* A pole far ahead, and something broad in the middle distance.
TwoThings == {[bins |-> {1}, range |-> 3], [bins |-> {0, 1}, range |-> 2]}
OneSpeck == {<<1, 2>>}
=============================================================================

---------------------------- MODULE MCAssurance ----------------------------
EXTENDS Assurance

\* Two good zones with a ditch between them, and no safe ground at all.
TwoZones == [c \in Cells |-> IF c = 0 THEN 0 ELSE IF c = Reach THEN 2 ELSE 1]
NoGround == [c \in Cells |-> 0]
TwoTerrains == {TwoZones, NoGround}
\* Nobody, one person, and the same a step on with another one in view.
SomeViews == {<<>>, <<1>>, <<2, -2>>}
\* No handshake; the phone by range, and by range and position.
SomeSignals == {[ok |-> FALSE, gps |-> <<>>, rssi |-> <<>>],
    [ok |-> TRUE, gps |-> <<>>, rssi |-> <<2>>], [ok |-> TRUE, gps |-> <<1>>, rssi |-> <<2>>]}
=============================================================================

------------------------------ MODULE MCFailover ------------------------------
\* Two segments of two files, two servers and two groups: enough for a group
\* to fail on one server and be tried again on the other, and for the second
\* segment to be in another place of the same loop.
EXTENDS FailoverLog

MCServerSeq == <<"primary", "backup">>
MCGroupSeq == [s \in Segments |-> IF s = "s1" THEN <<"g1", "g2">> ELSE <<"g2">>]
MCExpired == {<<"s2", "primary">>}
=============================================================================

------------------------- MODULE MCIndexMaintainer -------------------------
EXTENDS IndexMaintainer

CONSTANTS c1, c2

\* c1 is an index channel with an index writer, c2 a data channel.  With
\* two-byte timestamps, seg1 holds one timestamp and a trailing partial
\* one; seg3 holds one timestamp at a later position.
MCChannels == {c1, c2}
Seg1 == [ch |-> c1, align |-> 0, data |-> <<1, 0, 1>>]
Seg2 == [ch |-> c2, align |-> 0, data |-> <<0, 1>>]
Seg3 == [ch |-> c1, align |-> 1, data |-> <<0, 1>>]
MCBatches == {<<Seg1>>, <<Seg2, Seg3>>}

=============================================================================

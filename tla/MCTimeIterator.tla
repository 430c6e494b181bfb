--------------------------- MODULE MCTimeIterator ---------------------------
EXTENDS TimeIterator

\* Three indexed positions.  The caller's stamps hit the first and last
\* indexed stamps exactly, fall between two of them, and fall beyond the
\* index; a span of 10 from the last stamp leaves the index.
MCStamps == <<10, 20, 30>>
MCTimes == {10, 25, 30, 40}
MCSpans == {10}

=============================================================================

------------------------ MODULE MCTopEventsTimeseries ------------------------
\* Three groups against a limit of 2, so that two top ranks are ordered and
\* the other series is fetched and can have data, over two rollup buckets.
EXTENDS TopEventsTimeseries

CONSTANTS g1, g2, g3, b1, b2

MCGroups == {g1, g2, g3}

MCBuckets == {b1, b2}

=============================================================================

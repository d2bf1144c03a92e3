\* One call with rows ingested between its three queries.
CONSTANTS
    NULL = NULL
    OtherKey = OtherKey
    g1 = g1
    g2 = g2
    g3 = g3
    b1 = b1
    b2 = b2
    Groups <- MCGroups
    Buckets <- MCBuckets
    InitRows = 3
    MaxIngest = 2
    Limit = 2
SPECIFICATION Spec
INVARIANT TypeOK
INVARIANT SeriesCountEveryRow
INVARIANT SeriesMatchTimeseriesQuery
\* The call ends with its answer.
CHECK_DEADLOCK FALSE

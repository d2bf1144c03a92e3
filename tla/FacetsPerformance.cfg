\* Paging while events are ingested, between the queries and the pages.
CONSTANTS
    NULL = NULL
    EMPTY = EMPTY
    TagKeys <- MCTagKeys
    ExcludedTagKeys <- MCExcludedTagKeys
    EventKinds <- MCEventKinds
    InitEvents = 3
    MaxIngest = 1
    Limit = 1
    Requests <- MCRequests
    OrderBys <- MCOrderBys
    SampleStartCount <- MCSampleStartCount
    LnMilli <- MCLnMilli
SPECIFICATION Spec
INVARIANT TypeOK
INVARIANT PagingCoversResult
PROPERTY ImplementsOffsetPaging
\* The session ends at the last page.
CHECK_DEADLOCK FALSE

\* Paging forward and back while events are ingested, between the two
\* queries of a page and between pages.
CONSTANTS
    NULL = NULL
    TagKey = 1
    EventKinds <- MCEventKinds
    InitEvents = 3
    MaxIngest = 1
    Limit = 1
    OrderBys <- MCOrderBys
SPECIFICATION Spec
INVARIANT TypeOK
INVARIANT HistogramCoversPage
INVARIANT HistogramCountsMatchTags
PROPERTY ImplementsOffsetPaging
\* The client stops at the first page when there is no next page.
CHECK_DEADLOCK FALSE

\* Does allTagKeys list every tag/value pair (spec 4.3)?
CONSTANTS
    NULL = NULL
    EMPTY = EMPTY
    TagKeys <- MCTagKeys
    ExcludedTagKeys <- MCExcludedTagKeys
    EventKinds <- MCEventKinds
    InitEvents = 3
    MaxIngest = 0
    Limit = 1
    Requests <- MCAllTagKeysRequests
    OrderBys <- MCDefaultOrderBys
    SampleStartCount <- MCSampleStartCount
    LnMilli <- MCLnMilli
SPECIFICATION Spec
INVARIANT PagingCoversResult
\* The session ends at the last page.
CHECK_DEADLOCK FALSE

\* Can a facet's frequency exceed 1 when an event arrives mid-request?
CONSTANTS
    NULL = NULL
    EMPTY = EMPTY
    TagKeys <- MCTagKeys
    ExcludedTagKeys <- MCExcludedTagKeys
    EventKinds <- MCEventKinds
    InitEvents = 2
    MaxIngest = 1
    Limit = 1
    Requests <- MCRequests
    OrderBys <- MCDefaultOrderBys
    SampleStartCount <- MCSampleStartCount
    LnMilli <- MCLnMilli
SPECIFICATION Spec
INVARIANT FrequencyIsShare
\* The session ends at the last page.
CHECK_DEADLOCK FALSE

\* A baseline whose average metric is 0.
CONSTANTS
    NULL = NULL
    EMPTY = EMPTY
    TagKeys <- MCTagKeys
    ExcludedTagKeys <- MCExcludedTagKeys
    EventKinds <- MCZeroEventKinds
    InitEvents = 2
    MaxIngest = 0
    Limit = 1
    Requests <- MCRequests
    OrderBys <- MCDefaultOrderBys
    SampleStartCount <- MCSampleStartCount
    LnMilli <- MCLnMilli
SPECIFICATION Spec
INVARIANT ComparisonOneIffEqualAverages
\* The session ends at the last page.
CHECK_DEADLOCK FALSE

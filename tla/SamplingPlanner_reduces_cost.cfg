\* Does sampling, once enabled, ever scan less than the whole population?
CONSTANTS
    NULL = NULL
    SampleStartCount <- MCSampleStartCount
    LnMilli <- MCLnMilli
    Counts <- MCCounts
SPECIFICATION Spec
INVARIANT SamplingReducesCost

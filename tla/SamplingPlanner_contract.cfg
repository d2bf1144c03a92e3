\* The planner's contract over counts around the 50000 threshold.
CONSTANTS
    NULL = NULL
    SampleStartCount <- MCSampleStartCount
    LnMilli <- MCLnMilli
    Counts <- MCCounts
SPECIFICATION Spec
INVARIANT PlanContract

\* Requests with absent, non-numeric or positive parameters.
CONSTANTS
    NULL = NULL
    EMPTY = EMPTY
    NaN = NaN
    duration = duration
    lcp = lcp
    unknownColumn = unknownColumn
    release = release
    browser = browser
    AllowedColumns <- MCAllowedColumns
    Requests <- MCPositiveRequests
SPECIFICATION Spec
INVARIANT AcceptsExactlyValid
\* A request is handled once.
CHECK_DEADLOCK FALSE

-------------------------- MODULE RequestValidation --------------------------
(***************************************************************************)
(* The checks a histogram request passes before any query runs:            *)
(* OrganizationEventsFacetsPerformanceEndpointBase._setup (lines 54-72),   *)
(* the parameter checks of the histogram endpoint's get (lines 149-178),  *)
(* the paginator's per_page handling and the assert of                     *)
(* HistogramPaginator.get_result (line 241).                               *)
(*                                                                         *)
(* Query-string values are NULL (absent), EMPTY (""), NaN (a string that   *)
(* int() rejects) or an integer standing for its decimal string.  Every    *)
(* non-empty string is truthy in Python, "0" included.  The TAG_ALIASES   *)
(* rewrite of tagKey (line 177) decides no outcome and is left out.        *)
(***************************************************************************)
EXTENDS Integers

CONSTANTS
    Requests,        \* the requests the client may send
    AllowedColumns,  \* ALLOWED_AGGREGATE_COLUMNS
    NULL, EMPTY, NaN

DefaultTagKeyLimit == 5     \* DEFAULT_TAG_KEY_LIMIT
MaxTotalBuckets == 500
MaxPerPage == 50            \* max_per_page of the histogram endpoint

VARIABLES
    req,       \* the request being handled
    outcome    \* "pending", or the response it gets

vars == <<req, outcome>>

Truthy(s) == s \notin {NULL, EMPTY}

\* int(s) succeeds: every value but the absent, empty and non-numeric ones.
IsInt(s) == s \notin {NULL, EMPTY, NaN}

\* _setup: the feature check, get_snuba_params (NoProjects is answered
\* with an empty list by get), then the aggregate column and projects.
SetupOutcome(r) ==
    CASE ~r.feature                                   -> "not_found"
      [] r.projects = 0                               -> "empty"
      [] ~Truthy(r.aggregateColumn)                   -> "parse_error"
      [] r.aggregateColumn \notin AllowedColumns      -> "parse_error"
      [] r.projects > 1                               -> "parse_error"
      [] OTHER                                        -> "ok"

\* request.GET.get("per_page", DEFAULT_TAG_KEY_LIMIT)
PerPage(r) == IF r.perPage = NULL THEN DefaultTagKeyLimit ELSE r.perPage

\* Variant that rejects the cap itself.
CapExceededAtCap(r) == PerPage(r) * r.numBuckets >= MaxTotalBuckets

\* if per_page * num_buckets_per_key > 500
CapExceeded(r) == PerPage(r) * r.numBuckets > MaxTotalBuckets

\* Lines 155-178: numBucketsPerKey present, both numeric, the bucket cap,
\* tagKey present; then the paginator's per_page bound and the assert.
HistogramOutcome(r) ==
    CASE ~Truthy(r.numBuckets)                        -> "parse_error"
      [] ~IsInt(PerPage(r)) \/ ~IsInt(r.numBuckets)   -> "parse_error"
      [] CapExceeded(r)                               -> "parse_error"
      [] ~Truthy(r.tagKey)                            -> "parse_error"
      [] PerPage(r) > MaxPerPage                      -> "parse_error"
      [] PerPage(r) <= 0                              -> "assertion_error"
      [] OTHER                                        -> "accepted"

TypeOK ==
    /\ req \in Requests
    /\ outcome \in {"pending", "not_found", "empty", "parse_error",
                    "assertion_error", "accepted"}

Init ==
    /\ req \in Requests
    /\ outcome = "pending"

\* OrganizationEventsFacetsPerformanceHistogramEndpoint.get up to the
\* first query.
Handle ==
    /\ outcome = "pending"
    /\ outcome' = IF SetupOutcome(req) # "ok" THEN SetupOutcome(req)
                  ELSE HistogramOutcome(req)
    /\ UNCHANGED req

Spec == Init /\ [][Handle]_vars

-----------------------------------------------------------------------------
(***************************************************************************)
(* The requests the histogram pipeline may be run on (spec 4.5, 6 and 7):  *)
(* an allowed metric column, one project, a tag key, a positive number of  *)
(* buckets and a page size of 1 .. 50 whose total of buckets is at most    *)
(* 500.                                                                    *)
(***************************************************************************)
ValidRequest(r) ==
    /\ r.feature /\ r.projects = 1
    /\ r.aggregateColumn \in AllowedColumns
    /\ Truthy(r.tagKey)
    /\ IsInt(r.numBuckets) /\ IsInt(PerPage(r))
    /\ r.numBuckets >= 1 /\ PerPage(r) \in 1..MaxPerPage
    /\ PerPage(r) * r.numBuckets <= MaxTotalBuckets

(***************************************************************************)
(* The endpoint accepts a request exactly when it is valid: no valid       *)
(* request is refused (the cap is inclusive, 5 x 100 passes, spec 8) and   *)
(* the core is never run on an invalid one: an absent or non-numeric       *)
(* parameter, 6 x 100 buckets, a page of more than 50, a bad column or     *)
(* project set, in whichever order the checks of lines 54-178 meet them.   *)
(***************************************************************************)
AcceptsExactlyValid ==
    outcome # "pending" => (outcome = "accepted" <=> ValidRequest(req))

=============================================================================

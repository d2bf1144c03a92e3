------------------------- MODULE FacetsPerformance -------------------------
(***************************************************************************)
(* The facet endpoint OrganizationEventsFacetsPerformanceEndpoint.get      *)
(* (organization_events_facets_performance.py) paged by a client through  *)
(* its offset cursors, against an append-only event store.                 *)
(*                                                                         *)
(* One page request runs data_fn: query_tag_data (the baseline), then      *)
(* query_facet_performance, then the paginator trims the limit+1 rows.     *)
(* The two queries are separate reads of the store, and events may be      *)
(* ingested between them and between pages (action Ingest).                *)
(*                                                                         *)
(* Events are records [tags, metric]: tags is a set of <<key, value>>      *)
(* pairs with one value per key, metric a number or NULL.  Tag keys and    *)
(* values are numbers so that ORDER BY tags_key, tags_value is their       *)
(* numeric order.  Averages and the derived columns are exact rationals.  *)
(***************************************************************************)
EXTENDS Integers, Sequences, SequencesExt, FiniteSets, RatArith

CONSTANTS
    TagKeys,            \* tag keys occurring in events
    ExcludedTagKeys,    \* "trace", "trace.ctx", ..., "url"
    EventKinds,         \* events that can be stored or ingested
    InitEvents,         \* events in the store when paging starts
    MaxIngest,          \* events ingested while the client pages
    Limit,              \* per_page of the paginator
    Requests,           \* [allTagKeys, tagKey] query parameters
    OrderBys,           \* sort parameters, sequences of order terms
    SampleStartCount,   \* sample_start_count
    LnMilli(_),         \* round(1000 * math.log(n))
    NULL,               \* Python None
    EMPTY               \* the empty query-string value ""

ASSUME ExcludedTagKeys \subseteq TagKeys
ASSUME Limit \in Nat \ {0}
ASSUME InitEvents \in Nat /\ MaxIngest \in Nat

VARIABLES
    store,      \* the events matching the filter, in ingestion order
    ingested,   \* events ingested so far (bounded by MaxIngest)
    request,    \* the request parameters, fixed for the paging session
    phase,      \* "baseline" | "facets" | "paged" | "finished"
    offset,     \* offset of the cursor of the page being served
    tagData,    \* result of query_tag_data for this page, or NULL
    page,       \* rows of the last page returned
    hasMore,    \* has_more of the last page
    seen        \* history: all rows returned so far, in page order

vars == <<store, ingested, request, phase, offset, tagData, page, hasMore, seen>>

Planner == INSTANCE SamplingPlanner WITH Counts <- 1..(InitEvents + MaxIngest),
                                        n <- 0

(***************************************************************************)
(* Data of the event store.                                                *)
(***************************************************************************)
\* request.GET.get(...) values: None and "" are falsy, any other is truthy.
Truthy(p) == p \notin {NULL, EMPTY}

\* Events whose metric is non-null (the IS_NOT_NULL conditions).
WithMetric(st) == {i \in DOMAIN st : st[i].metric # NULL}

SumMetric(st, I) == FoldSet(LAMBDA i, acc : acc + st[i].metric, 0, I)

(***************************************************************************)
(* query_tag_data: count() and avg(metric) over the events with a metric.  *)
(* The query has no GROUP BY, so it returns exactly one row; avg over no   *)
(* rows is null.  The baseline is kept as count and sum (avg = sum/count). *)
(***************************************************************************)
QueryTagDataRow(st) ==
    LET I == WithMetric(st)
    IN  [count |-> Cardinality(I),
         sum |-> SumMetric(st, I),
         aggregate |-> IF I = {} THEN NULL ELSE Rat(SumMetric(st, I), Cardinality(I))]

\* Variant without the early return on a zero count or a null aggregate.
QueryTagDataNoGuard(st) ==
    LET row == QueryTagDataRow(st) IN [count |-> row.count, sum |-> row.sum]

QueryTagData(st) ==
    LET row == QueryTagDataRow(st)
    IN  IF row.count = 0 \/ row.aggregate = NULL
          THEN NULL
          ELSE [count |-> row.count, sum |-> row.sum]

(***************************************************************************)
(* query_facet_performance, the rows before ordering: GROUP BY tags_key,   *)
(* tags_value over events with a metric, excluded keys removed, the key    *)
(* restricted in single-key mode, and in discovery mode the HAVING        *)
(* avg(metric) > baseline * 1.005 (or > 0 when the baseline is 0).         *)
(***************************************************************************)
Pairs(st) == UNION {st[i].tags : i \in DOMAIN st}

\* count() over the rows in I with the pair; sum and avg skip null metrics.
GroupRow(st, I, kv) ==
    LET J == {i \in I : kv \in st[i].tags}
    IN  [key |-> kv[1], value |-> kv[2], count |-> Cardinality(J),
         valued |-> Cardinality(J \cap WithMetric(st)),
         sum |-> SumMetric(st, J \cap WithMetric(st))]

\* aggregate_comparison = transaction_aggregate * 1.005 if transaction_aggregate else 0
Significant(r, td) ==
    /\ r.valued > 0
    /\ IF td.sum # 0
         THEN 1000 * r.sum * td.count > 1005 * td.sum * r.valued
         ELSE r.sum > 0

DiscoveryMode(req) == ~Truthy(req.allTagKeys) /\ ~Truthy(req.tagKey)

FacetRows(st, req, td) ==
    {r \in {GroupRow(st, WithMetric(st), kv) : kv \in Pairs(st)} :
        /\ r.count > 0
        /\ r.key \notin ExcludedTagKeys
        /\ Truthy(req.tagKey) => r.key = req.tagKey
        /\ DiscoveryMode(req) => Significant(r, td)}

(***************************************************************************)
(* The derived columns, with the baseline td and frequency_sample_rate fsr.*)
(***************************************************************************)
Aggregate(r) == Rat(r.sum, r.valued)

\* sum(metric - transaction_aggregate) / frequency_sample_rate
SumDelta(r, td, fsr) ==
    Rat((r.sum * td.count - r.valued * td.sum) * fsr[2], td.count * fsr[1])

\* count() / frequency_sample_rate / transaction_count
Frequency(r, td, fsr) == Rat(r.count * fsr[2], fsr[1] * td.count)

\* divide(aggregate, transaction_aggregate) = 1 in ClickHouse floats: a zero
\* baseline average makes it inf, or nan over a zero facet average.
ComparisonIsOne(r, td) ==
    td.sum # 0 /\ RatEq(Rat(r.sum * td.count, r.valued * td.sum), One)

ColumnValue(r, field, td, fsr) ==
    CASE field = "count"     -> Rat(r.count, 1)
      [] field = "aggregate" -> Aggregate(r)
      [] field = "sumdelta"  -> SumDelta(r, td, fsr)
      [] field = "frequency" -> Frequency(r, td, fsr)
      [] field = "tags_key"  -> Rat(r.key, 1)
      [] field = "tags_value" -> Rat(r.value, 1)

(***************************************************************************)
(* ORDER BY: the requested terms, then tags_key and tags_value.  A term is *)
(* [field, desc].  Precedes(r1, r2, ...) holds when r1 sorts strictly      *)
(* before r2; the store may return rows that tie on every term in any      *)
(* order.                                                                  *)
(***************************************************************************)
TieBreak == <<[field |-> "tags_key", desc |-> FALSE],
              [field |-> "tags_value", desc |-> FALSE]>>

\* Variant that drops the appended tie-breaking terms.
OrderTermsNoTieBreak(orderby) == orderby

OrderTerms(orderby) == orderby \o TieBreak

Precedes(r1, r2, terms, td, fsr) ==
    SortsBefore(r1, r2, terms, LAMBDA r, f : ColumnValue(r, f, td, fsr))

\* Every order in which the store may return the rows.
SortedOrders(rows, terms, td, fsr) ==
    {s \in SetToSeqs(rows) :
        \A i, j \in DOMAIN s : i < j => ~Precedes(s[j], s[i], terms, td, fsr)}

\* LIMIT 1 BY tags_key: the first row of each key in the sorted result.
LimitOneByKey(s) ==
    LET pos(r) == CHOOSE i \in DOMAIN s : s[i] = r
    IN  SelectSeq(s, LAMBDA r : \A i \in 1..(pos(r) - 1) : s[i].key # r.key)

\* Variant that fetches one row fewer than asked.
WindowOneShort(s, off, lim) ==
    IF off >= Len(s) THEN <<>> ELSE SubSeq(s, off + 1, IF off + lim - 1 < Len(s) THEN off + lim - 1 ELSE Len(s))

\* LIMIT lim OFFSET off
Window(s, off, lim) ==
    IF off >= Len(s) THEN <<>> ELSE SubSeq(s, off + 1, IF off + lim < Len(s) THEN off + lim ELSE Len(s))

(***************************************************************************)
(* The list query_facet_performance pages through at baseline td: its rows *)
(* in ORDER BY order, the order the tie-breaking terms make unique, and    *)
(* LIMIT 1 BY tags_key unless a tagKey is given (line 416).  Without a     *)
(* baseline data_fn returns no rows.                                       *)
(***************************************************************************)
RankedFacets(st, req, td) ==
    IF td = NULL THEN <<>>
    ELSE LET fsr == Planner!FrequencySampleRate(td.count)
             s   == CHOOSE s \in SortedOrders(FacetRows(st, req, td),
                                              OrderTerms(req.orderby), td, fsr) : TRUE
         IN  IF Truthy(req.tagKey) THEN s ELSE LimitOneByKey(s)

(***************************************************************************)
(* GenericOffsetPaginator (sentry.api.paginator, not in this repository):  *)
(* data_fn is called with limit + 1, has_more is whether limit + 1 rows    *)
(* came back, the extra row is popped, and the next cursor is at           *)
(* max(0, offset + limit).                                                 *)
(***************************************************************************)
NextOffset(off) == off + Limit

PageOf(got) == IF Len(got) = Limit + 1 THEN SubSeq(got, 1, Limit) ELSE got

-----------------------------------------------------------------------------
TypeOK ==
    /\ store \in Seq(EventKinds)
    /\ ingested \in 0..MaxIngest
    /\ phase \in {"baseline", "facets", "paged", "finished"}
    /\ offset \in Nat
    /\ tagData \in {NULL} \cup [count : Nat \ {0}, sum : Int]
    /\ hasMore \in BOOLEAN
    /\ Len(page) <= Limit

Init ==
    /\ store \in BoundedSeq(EventKinds, InitEvents)
    /\ ingested = 0
    /\ request \in {[allTagKeys |-> r.allTagKeys, tagKey |-> r.tagKey, orderby |-> o] :
                       r \in Requests, o \in OrderBys}
    /\ phase = "baseline"
    /\ offset = 0
    /\ tagData = NULL
    /\ page = <<>>
    /\ hasMore = FALSE
    /\ seen = <<>>

\* An event matching the filter is written to the store.
Ingest ==
    /\ ingested < MaxIngest
    /\ \E e \in EventKinds : store' = Append(store, e)
    /\ ingested' = ingested + 1
    /\ UNCHANGED <<request, phase, offset, tagData, page, hasMore, seen>>

\* data_fn: query_tag_data returned None, so data_fn returns {"data": []}
\* and the paginator answers an empty last page.
NoBaseline ==
    /\ phase = "baseline"
    /\ QueryTagData(store) = NULL
    /\ tagData' = NULL
    /\ page' = <<>>
    /\ hasMore' = FALSE
    /\ phase' = "finished"
    /\ UNCHANGED <<store, ingested, request, offset, seen>>

\* data_fn: query_tag_data returned the baseline row.
BaselineFound ==
    /\ phase = "baseline"
    /\ QueryTagData(store) # NULL
    /\ tagData' = QueryTagData(store)
    /\ phase' = "facets"
    /\ UNCHANGED <<store, ingested, request, offset, page, hasMore, seen>>

\* data_fn: query_facet_performance with limit + 1 rows at the cursor's
\* offset, then the paginator's trimming.  The sample rate of the planner
\* is never below 1 (run planner_reduces_cost), so the sample is the whole
\* store.
FacetQuery ==
    /\ phase = "facets"
    /\ LET fsr   == Planner!FrequencySampleRate(tagData.count)
           rows  == FacetRows(store, request, tagData)
           terms == OrderTerms(request.orderby)
       IN  \E s \in SortedOrders(rows, terms, tagData, fsr) :
             LET limited == IF Truthy(request.tagKey) THEN s ELSE LimitOneByKey(s)
                 got     == Window(limited, offset, Limit + 1)
             IN  /\ page' = PageOf(got)
                 /\ hasMore' = (Len(got) = Limit + 1)
                 /\ seen' = seen \o PageOf(got)
                 /\ phase' = IF Len(got) = Limit + 1 THEN "paged" ELSE "finished"
    /\ UNCHANGED <<store, ingested, request, offset, tagData>>

\* The client requests the page of the next cursor.
NextPage ==
    /\ phase = "paged"
    /\ hasMore
    /\ offset' = NextOffset(offset)
    /\ phase' = "baseline"
    /\ UNCHANGED <<store, ingested, request, tagData, page, hasMore, seen>>

Serve == NoBaseline \/ BaselineFound \/ FacetQuery

Next == Ingest \/ Serve \/ NextPage

Spec == Init /\ [][Next]_vars

-----------------------------------------------------------------------------
(***************************************************************************)
(* The facets a complete paging session should list (spec 4.3), stated     *)
(* over the whole store rather than page by page: every non-excluded pair  *)
(* seen on an event with a metric, restricted to the requested key; in    *)
(* discovery mode only the significant pairs, and of those only the first  *)
(* of each key in the requested order with tags_key, tags_value as         *)
(* tie-breakers.  With allTagKeys, every pair.                             *)
(***************************************************************************)
ExpectedPairs(st, req) ==
    LET td    == QueryTagData(st)
        terms == req.orderby \o TieBreak
        fsr   == Planner!FrequencySampleRate(td.count)
        cands == {r \in {GroupRow(st, WithMetric(st), kv) : kv \in Pairs(st)} :
                    /\ r.count > 0
                    /\ r.key \notin ExcludedTagKeys
                    /\ Truthy(req.tagKey) => r.key = req.tagKey}
        signif == {r \in cands : Significant(r, td)}
        wanted == IF ~DiscoveryMode(req) THEN cands
                  ELSE {r \in signif : \A q \in signif :
                          q.key = r.key /\ q # r => Precedes(r, q, terms, td, fsr)}
    IN  IF td = NULL THEN {} ELSE {<<r.key, r.value>> : r \in wanted}

SeenPairs == [i \in DOMAIN seen |-> <<seen[i].key, seen[i].value>>]

(***************************************************************************)
(* Paging through the next cursors until has_more is false lists every     *)
(* expected facet exactly once, with no facet skipped or repeated across   *)
(* pages, and the concatenated pages are in the requested order.  This     *)
(* rests on the tie-breaking ORDER BY of query_facet_performance, the      *)
(* LIMIT 1 BY tags_key, and the limit + 1 / pop of the paginator.  It is    *)
(* a promise about a store that received no event while the client paged:  *)
(* the cursors carry only an offset (line 130).                            *)
(***************************************************************************)
PagingCoversResult ==
    phase = "finished" /\ tagData # NULL /\ ingested = 0 =>
        LET terms == request.orderby \o TieBreak
            fsr   == Planner!FrequencySampleRate(tagData.count)
        IN  /\ IsInjective(SeenPairs)
            /\ Range(SeenPairs) = ExpectedPairs(store, request)
            /\ \A i, j \in DOMAIN seen :
                  i < j => Precedes(seen[i], seen[j], terms, tagData, fsr)

(***************************************************************************)
(* Frequency is a facet's share of the baseline population (spec 3 and the *)
(* glossary): on every page, count / frequency_sample_rate does not exceed *)
(* the baseline count that query_tag_data returned for that page.          *)
(***************************************************************************)
FrequencyIsShare ==
    phase \in {"paged", "finished"} /\ tagData # NULL =>
        \A i \in DOMAIN page :
            ~RatLt(One, Frequency(page[i], tagData,
                                  Planner!FrequencySampleRate(tagData.count)))


(***************************************************************************)
(* Spec 8: comparison = 1.0 exactly when a facet's average equals the     *)
(* baseline average.  The comparison column of query_facet_performance    *)
(* (line 494) divides avg(metric) by the baseline average, which may be a *)
(* valid 0 (line 458 handles a falsy baseline on purpose).                 *)
(***************************************************************************)
ComparisonOneIffEqualAverages ==
    phase \in {"paged", "finished"} /\ tagData # NULL =>
        \A i \in DOMAIN page :
            ComparisonIsOne(page[i], tagData)
                <=> RatEq(Aggregate(page[i]), Rat(tagData.sum, tagData.count))

(***************************************************************************)
(* Each page the endpoint serves is what an offset paginator promises      *)
(* (OffsetPaging, spec 4.6), even while events are ingested: the page at  *)
(* a cursor is the Limit rows from its offset of the list the facet query *)
(* ranks at that page's baseline, has_more says whether rows follow, and   *)
(* the next cursor moves by Limit.  A new baseline read at the start of a *)
(* page, or an ingested event, is a re-ranking of the list.  It checks the *)
(* limit + 1 / pop of the paginator against the LIMIT/OFFSET window of     *)
(* lines 400-416 and the uniqueness of the ORDER BY.                       *)
(***************************************************************************)
Paging == INSTANCE OffsetPaging
            WITH items <- RankedFacets(store, request, tagData),
                 pending <- phase \in {"baseline", "facets"}

ImplementsOffsetPaging == Paging!Spec

=============================================================================

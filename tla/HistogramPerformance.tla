------------------------ MODULE HistogramPerformance ------------------------
(***************************************************************************)
(* The histogram endpoint OrganizationEventsFacetsPerformanceHistogram-   *)
(* Endpoint.get with its HistogramPaginator, paged by a client through    *)
(* its next and previous cursors, against an append-only event store.      *)
(*                                                                         *)
(* One page request runs data_fn(offset, limit + 1, raw_limit = limit):    *)
(* query_top_tags ranks the values of the requested tag key, then          *)
(* query_facet_performance_key_histogram computes the metric histogram of *)
(* the first raw_limit of them, then the paginator pops the extra value.  *)
(* Events may be ingested between the two queries and between pages.      *)
(*                                                                         *)
(* The buckets of a value are abstracted to their total: Histogram maps    *)
(* each value to the number of its events that the buckets count.          *)
(***************************************************************************)
EXTENDS Integers, Sequences, SequencesExt, FiniteSets, RatArith

CONSTANTS
    TagKey,         \* the tagKey parameter, after TAG_ALIASES
    EventKinds,     \* events that can be stored or ingested
    InitEvents,     \* events in the store when paging starts
    MaxIngest,      \* events ingested while the client pages
    Limit,          \* per_page of the paginator
    OrderBys,       \* sort parameters, sequences of [field, desc] terms
    NULL            \* Python None

ASSUME Limit \in Nat \ {0}
ASSUME InitEvents \in Nat /\ MaxIngest \in Nat

VARIABLES
    store,      \* the events matching the filter, in ingestion order
    ingested,   \* events ingested so far (bounded by MaxIngest)
    orderby,    \* the sort parameter, fixed for the paging session
    phase,      \* "tags" | "histogram" | "paged"
    offset,     \* offset of the cursor of the page being served
    topTags,    \* rows of query_top_tags for this page (limit + 1 at most)
    page,       \* data["tags"] of the last page, after the pop
    histogram,  \* data["histogram"] of the last page: value -> event count
    hasMore,    \* has_more of the last page
    served      \* history: offset -> the tags last served at that offset

vars == <<store, ingested, orderby, phase, offset, topTags, page, histogram,
          hasMore, served>>

(***************************************************************************)
(* query_top_tags: count() and avg(metric) per value of TagKey over the    *)
(* events with a metric, ordered, LIMIT limit OFFSET offset.               *)
(***************************************************************************)
WithMetric(st) == {i \in DOMAIN st : st[i].metric # NULL}

ValuesOf(st) == {kv[2] : kv \in {kv \in UNION {st[i].tags : i \in DOMAIN st} : kv[1] = TagKey}}

TopTagRow(st, v) ==
    LET J == {i \in WithMetric(st) : <<TagKey, v>> \in st[i].tags}
    IN  [value |-> v, count |-> Cardinality(J),
         sum |-> FoldSet(LAMBDA i, acc : acc + st[i].metric, 0, J)]

TopTagRows(st) == {r \in {TopTagRow(st, v) : v \in ValuesOf(st)} : r.count > 0}

ColumnValue(r, field) ==
    CASE field = "count"      -> Rat(r.count, 1)
      [] field = "aggregate"  -> Rat(r.sum, r.count)
      [] field = "tags_value" -> Rat(r.value, 1)

TieBreak == [field |-> "tags_value", desc |-> FALSE]

\* Variant that never appends the tags_value tie-breaker.
TopTagsOrderNoTieBreak(ob) ==
    LET terms == IF ob = <<>> THEN <<[field |-> "count", desc |-> TRUE]>> ELSE ob
    IN  [i \in DOMAIN terms |->
           IF terms[i].field = "frequency" THEN [terms[i] EXCEPT !.field = "count"]
           ELSE terms[i]]

\* Default ["-count"], "frequency" rewritten to "count", and "tags_value"
\* appended unless the (rewritten) terms already contain it.
TopTagsOrder(ob) ==
    LET default  == IF ob = <<>> THEN <<[field |-> "count", desc |-> TRUE]>> ELSE ob
        replaced == [i \in DOMAIN default |->
                       IF default[i].field = "frequency"
                         THEN [default[i] EXCEPT !.field = "count"]
                         ELSE default[i]]
    IN  IF TieBreak \in Range(replaced) THEN replaced ELSE Append(replaced, TieBreak)

Before(r1, r2, terms) == SortsBefore(r1, r2, terms, ColumnValue)

\* Every order in which the store may return the rows.
SortedOrders(rows, terms) ==
    {s \in SetToSeqs(rows) :
        \A i, j \in DOMAIN s : i < j => ~Before(s[j], s[i], terms)}

\* LIMIT lim OFFSET off
Window(s, off, lim) ==
    IF off >= Len(s) THEN <<>>
    ELSE SubSeq(s, off + 1, IF off + lim < Len(s) THEN off + lim ELSE Len(s))

(***************************************************************************)
(* query_facet_performance_key_histogram: the histogram of the metric per  *)
(* (tags_value, tags_key) over the events with tags_key = TagKey and       *)
(* tags_value IN the given values.                                         *)
(***************************************************************************)
\* Variant that forgets the tags_key = TagKey condition: any key matches.
HistogramAnyKey(st, values) ==
    LET J(v) == {i \in WithMetric(st) : \E kv \in st[i].tags : kv[2] = v}
    IN  [v \in {v \in values : J(v) # {}} |-> Cardinality(J(v))]

HistogramOf(st, values) ==
    LET J(v) == {i \in WithMetric(st) : <<TagKey, v>> \in st[i].tags}
    IN  [v \in {v \in values : J(v) # {}} |-> Cardinality(J(v))]

(***************************************************************************)
(* HistogramPaginator.get_result.                                          *)
(***************************************************************************)
\* Variant of the histogram slice top_tags[0:limit] (limit is limit + 1).
HistogramSliceLimit(tags) == SubSeq(tags, 1, IF Limit + 1 < Len(tags) THEN Limit + 1 ELSE Len(tags))

\* histogram_top_tags = top_tags[0:raw_limit]
HistogramSlice(tags) == SubSeq(tags, 1, IF Limit < Len(tags) THEN Limit ELSE Len(tags))

\* Variant that never pops the extra row.
PopExtraNever(tags) == tags

\* if has_more: data["tags"].pop()
PopExtra(tags) == IF Len(tags) = Limit + 1 THEN SubSeq(tags, 1, Limit) ELSE tags

\* Cursor(0, max(0, offset - limit), True, offset > 0)
PrevOffset(off) == IF off - Limit > 0 THEN off - Limit ELSE 0

\* Cursor(0, max(0, offset + limit), False, has_more)
NextOffset(off) == IF off + Limit > 0 THEN off + Limit ELSE 0

-----------------------------------------------------------------------------
TypeOK ==
    /\ store \in Seq(EventKinds)
    /\ ingested \in 0..MaxIngest
    /\ phase \in {"tags", "histogram", "paged"}
    /\ offset \in Nat
    /\ Len(topTags) <= Limit + 1
    /\ Len(page) <= Limit
    /\ hasMore \in BOOLEAN
    /\ DOMAIN served \subseteq Nat

Init ==
    /\ store \in BoundedSeq(EventKinds, InitEvents)
    /\ ingested = 0
    /\ orderby \in OrderBys
    /\ phase = "tags"
    /\ offset = 0
    /\ topTags = <<>>
    /\ page = <<>>
    /\ histogram = <<>>
    /\ hasMore = FALSE
    /\ served = <<>>

\* An event matching the filter is written to the store.
Ingest ==
    /\ ingested < MaxIngest
    /\ \E e \in EventKinds : store' = Append(store, e)
    /\ ingested' = ingested + 1
    /\ UNCHANGED <<orderby, phase, offset, topTags, page, histogram, hasMore, served>>

\* The page answered by the paginator for the tags of data_fn.
Answer(tags, hist) ==
    /\ hasMore' = (Len(tags) = Limit + 1)
    /\ page' = PopExtra(tags)
    /\ histogram' = hist
    /\ served' = (offset :> page') @@ served
    /\ phase' = "paged"

\* data_fn: query_top_tags with limit + 1 at the offset found no row (or a
\* first row of count 0) and returned None, so data_fn answers no tags.
NoTopTags ==
    /\ phase = "tags"
    /\ \E s \in SortedOrders(TopTagRows(store), TopTagsOrder(orderby)) :
         LET rows == Window(s, offset, Limit + 1)
         IN  IF rows = <<>> THEN TRUE ELSE rows[1].count = 0
    /\ topTags' = <<>>
    /\ Answer(<<>>, <<>>)
    /\ UNCHANGED <<store, ingested, orderby, offset>>

\* data_fn: query_top_tags returned rows.
TopTagsFound ==
    /\ phase = "tags"
    /\ \E s \in SortedOrders(TopTagRows(store), TopTagsOrder(orderby)) :
         LET rows == Window(s, offset, Limit + 1)
         IN  /\ rows # <<>>
             /\ rows[1].count # 0
             /\ topTags' = rows
    /\ phase' = "histogram"
    /\ UNCHANGED <<store, ingested, orderby, offset, page, histogram, hasMore, served>>

\* data_fn: the histogram of the first raw_limit values, then the
\* paginator pops the extra tag row.
HistogramQuery ==
    /\ phase = "histogram"
    /\ Answer(topTags,
              HistogramOf(store, {r.value : r \in Range(HistogramSlice(topTags))}))
    /\ UNCHANGED <<store, ingested, orderby, offset, topTags>>

\* The client follows the next cursor.
NextPage ==
    /\ phase = "paged"
    /\ hasMore
    /\ offset' = NextOffset(offset)
    /\ phase' = "tags"
    /\ UNCHANGED <<store, ingested, orderby, topTags, page, histogram, hasMore, served>>

\* The client follows the previous cursor (its has_results is offset > 0).
PrevPage ==
    /\ phase = "paged"
    /\ offset > 0
    /\ offset' = PrevOffset(offset)
    /\ phase' = "tags"
    /\ UNCHANGED <<store, ingested, orderby, topTags, page, histogram, hasMore, served>>

Next == Ingest \/ NoTopTags \/ TopTagsFound \/ HistogramQuery \/ NextPage \/ PrevPage

Spec == Init /\ [][Next]_vars

-----------------------------------------------------------------------------
(***************************************************************************)
(* The ranking that spec 4.4 promises for the values of the key: the       *)
(* requested order (default count descending, "frequency" meaning         *)
(* "count") with tag value ascending as the final tie-break, which makes   *)
(* it a total order.                                                       *)
(***************************************************************************)
SpecTerms(ob) ==
    LET terms == IF ob = <<>> THEN <<[field |-> "count", desc |-> TRUE]>> ELSE ob
    IN  [i \in DOMAIN terms |->
           [terms[i] EXCEPT !.field = IF @ = "frequency" THEN "count" ELSE @]]
        \o <<TieBreak>>

ExpectedRanking(st, ob) ==
    CHOOSE s \in SetToSeqs(TopTagRows(st)) :
        \A i, j \in DOMAIN s : i < j => Before(s[i], s[j], SpecTerms(ob))

(***************************************************************************)
(* The histogram has buckets for exactly the values listed on the page,    *)
(* even with events ingested between query_top_tags and the histogram     *)
(* query: the limit + 1 probe row that the paginator pops never gets       *)
(* buckets (spec 4.6, the comment on raw_limit in                          *)
(* HistogramPaginator.get_result), and no listed value is missing, as the  *)
(* store only grows and a listed value was counted on events with a metric. *)
(***************************************************************************)
HistogramCoversPage ==
    phase = "paged" => DOMAIN histogram = {page[i].value : i \in DOMAIN page}

(***************************************************************************)
(* Each value listed on the page has a histogram, and its buckets count    *)
(* exactly the events that the tag row counts, as long as no event arrived *)
(* while the client paged: the two queries of data_fn are separate reads  *)
(* (lines 182-207), so under ingestion the counts may drift apart.         *)
(***************************************************************************)
HistogramCountsMatchTags ==
    phase = "paged" /\ ingested = 0 =>
        \A i \in DOMAIN page :
            /\ page[i].value \in DOMAIN histogram
            /\ histogram[page[i].value] = page[i].count

(***************************************************************************)
(* The histogram endpoint implements offset paging over the promised       *)
(* ranking: every step of HistogramPaginator and data_fn is a step of      *)
(* OffsetPaging or leaves its state alone, so cursors move by exactly      *)
(* `limit` (back to no less than 0) and every page and has_more are those *)
(* of the ranked list when query_top_tags read it (get_result, lines       *)
(* 239-258).  The page is read by query_top_tags: from then on the popped *)
(* rows are the page, whatever the histogram query sees later.             *)
(***************************************************************************)
Paging == INSTANCE OffsetPaging
            WITH items <- ExpectedRanking(store, orderby),
                 pending <- phase = "tags",
                 page <- IF phase = "histogram" THEN PopExtra(topTags) ELSE page,
                 hasMore <- IF phase = "histogram" THEN Len(topTags) = Limit + 1
                            ELSE hasMore

ImplementsOffsetPaging == Paging!Spec

=============================================================================

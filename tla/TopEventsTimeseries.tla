------------------------- MODULE TopEventsTimeseries -------------------------
(***************************************************************************)
(* profile_functions_metrics.top_events_timeseries (lines 142-296): find  *)
(* the top `limit` groups with query(), then fetch a timeseries for them   *)
(* (TopProfileFunctionsMetricsQueryBuilder, other=False) and, when exactly *)
(* `limit` groups came back and include_other is set, a timeseries of all *)
(* the other groups (other=True), run first.  The rows of the top query    *)
(* are filed under the key of their group, each series gets the rank of   *)
(* its group as "order" (the other series gets `limit`), and every series *)
(* is zerofilled over the time buckets when zerofill_results is set.       *)
(*                                                                         *)
(* The three queries are separate reads of a store that keeps ingesting.  *)
(* A row of the store is [group, bucket]: the value of the group-by        *)
(* columns (create_result_key of the row) and the rollup bucket of its     *)
(* timestamp; a series maps buckets to the count of its rows.  A           *)
(* top_events argument passed by the caller is a result of the same query *)
(* taken earlier, i.e. the TopQuery step followed by ingestion.            *)
(* timeseries_query (lines 75-141), a single read that changes nothing,   *)
(* is the operator TimeseriesQuery the series are checked against.        *)
(***************************************************************************)
EXTENDS Integers, Sequences, SequencesExt, FiniteSets

CONSTANTS
    Groups,       \* values of the group-by columns of a function row
    Buckets,      \* rollup buckets between start_date and end_date
    InitRows,     \* rows in the store when the call starts (bound)
    MaxIngest,    \* rows ingested during the call (bound)
    Limit,        \* limit
    OtherKey,        \* discover.OTHER_KEY
    NULL

ASSUME Limit \in Nat \ {0}

Row == [group : Groups, bucket : Buckets]

VARIABLES
    store,      \* the metric rows matching the query, in ingestion order
    ingested,
    req,        \* [includeOther, allowEmpty, zerofill, desc]
    phase,      \* "top" | "other" | "series" | "done"
    top,        \* top_events["data"]: groups in rank order
    otherData,  \* other_result["data"] as bucket -> count
    result      \* [kind |-> "keyed", series |-> key -> [order, data]], or
                \* [kind |-> "empty", data |-> data] (line 238), or NULL

vars == <<store, ingested, req, phase, top, otherData, result>>

CountOf(st, g) == Len(SelectSeq(st, LAMBDA r : r.group = g))

GroupsOf(st) == {st[i].group : i \in DOMAIN st}

\* One row per bucket that has rows of groups in G: the shape of a
\* timeseries query result, before zerofill.
SeriesOf(st, G) ==
    LET bs == {st[i].bucket : i \in {j \in DOMAIN st : st[j].group \in G}}
    IN  [b \in bs |-> Len(SelectSeq(st, LAMBDA r : r.group \in G /\ r.bucket = b))]

\* discover.zerofill: a point, zero if absent, for every bucket.
Zerofill(data) == [b \in Buckets |-> IF b \in DOMAIN data THEN data[b] ELSE 0]

\* zerofill_results selects zerofilled or raw data.
Filled(zf, data) == IF zf THEN Zerofill(data) ELSE data

\* Variant that zerofills whatever zerofill_results says.
TimeseriesQueryAlwaysZerofill(st, G, zf) == Zerofill(SeriesOf(st, G))

\* timeseries_query (lines 75-141) over a query that selects the groups G,
\* with no groupby (no caller passes one): one read of the store, one row
\* per bucket, zerofilled when zerofill_results is set.
TimeseriesQuery(st, G, zf) == Filled(zf, SeriesOf(st, G))

\* query(..., orderby, limit): the groups ranked by count, ties in any order.
RankedGroups(st, desc) ==
    {s \in SetToSeqs(GroupsOf(st)) :
        \A i, j \in DOMAIN s :
            i < j => IF desc THEN CountOf(st, s[i]) >= CountOf(st, s[j])
                             ELSE CountOf(st, s[i]) <= CountOf(st, s[j])}

\* Variant that keeps one group too many.
TopOfPlusOne(s) == SubSeq(s, 1, IF Len(s) < Limit + 1 THEN Len(s) ELSE Limit + 1)

\* LIMIT of the top events query.
TopOf(s) == SubSeq(s, 1, IF Len(s) < Limit THEN Len(s) ELSE Limit)

\* Variant that fetches the other series only past the limit.
FetchOtherPastLimit(t, r) == Len(t) > Limit /\ r.includeOther

\* if len(top_events["data"]) == limit and include_other
FetchOther(t, r) == Len(t) = Limit /\ r.includeOther

\* {"order": limit} of the other series
OtherOrder == Limit

\* Lines 257-274: the other series if it has data, one empty series per
\* top event at its rank, then each row of the top query filed under its
\* key (every key is present: the top query only selects top groups).
Grouped(t, rows, other) ==
    LET keys == Range(t) \cup (IF other # <<>> THEN {OtherKey} ELSE {})
        rank(g) == CHOOSE i \in DOMAIN t : t[i] = g
    IN  [k \in keys |->
           IF k = OtherKey THEN [order |-> OtherOrder, data |-> other]
           ELSE [order |-> rank(k) - 1,
                 data |-> [b \in {p[2] : p \in {p \in DOMAIN rows : p[1] = k}} |->
                             rows[<<k, b>>]]]]

-----------------------------------------------------------------------------
TypeOK ==
    /\ store \in Seq(Row)
    /\ phase \in {"top", "other", "series", "done"}
    /\ top \in Seq(Groups) /\ Len(top) <= Limit
    /\ DOMAIN otherData \subseteq Buckets /\ \A b \in DOMAIN otherData : otherData[b] \in Nat

Init ==
    /\ store \in BoundedSeq(Row, InitRows)
    /\ ingested = 0
    /\ req \in [includeOther : BOOLEAN, allowEmpty : BOOLEAN,
                zerofill : BOOLEAN, desc : BOOLEAN]
    /\ phase = "top"
    /\ top = <<>>
    /\ otherData = <<>>
    /\ result = NULL

\* A function row matching the query is written to the store.
Ingest ==
    /\ ingested < MaxIngest
    /\ phase # "done"
    /\ \E r \in Row : store' = Append(store, r)
    /\ ingested' = ingested + 1
    /\ UNCHANGED <<req, phase, top, otherData, result>>

\* top_events is None: query() ranks the groups and keeps `limit`.
TopQuery ==
    /\ phase = "top"
    /\ \E s \in RankedGroups(store, req.desc) : top' = TopOf(s)
    /\ phase' = IF FetchOther(top', req) THEN "other" ELSE "series"
    /\ UNCHANGED <<store, ingested, req, otherData, result>>

\* other_events_builder.run_query: the rows of every group not on top.
OtherQuery ==
    /\ phase = "other"
    /\ otherData' = SeriesOf(store, Groups \ Range(top))
    /\ phase' = "series"
    /\ UNCHANGED <<store, ingested, req, top, result>>

\* top_events_builder.run_query, the empty answer when allow_empty is
\* unset, or the series keyed by top event, zerofilled.
SeriesQuery ==
    /\ phase = "series"
    /\ LET rowsOf == [p \in {<<store[i].group, store[i].bucket>> :
                               i \in {j \in DOMAIN store : store[j].group \in Range(top)}} |->
                        Len(SelectSeq(store, LAMBDA r : <<r.group, r.bucket>> = p))]
       IN  result' =
             IF ~req.allowEmpty /\ rowsOf = <<>> /\ otherData = <<>>
               THEN [kind |-> "empty", data |-> Filled(req.zerofill, <<>>)]
               ELSE LET g == Grouped(top, rowsOf, otherData)
                    IN  [kind |-> "keyed",
                         series |-> [k \in DOMAIN g |->
                                       [order |-> g[k].order,
                                        data |-> Filled(req.zerofill, g[k].data)]]]
    /\ phase' = "done"
    /\ UNCHANGED <<store, ingested, req, top, otherData>>

Next == Ingest \/ TopQuery \/ OtherQuery \/ SeriesQuery

Spec == Init /\ [][Next]_vars

-----------------------------------------------------------------------------
Total(data) == FoldFunction(LAMBDA x, y : x + y, 0, data)

(***************************************************************************)
(* On a store that did not change during the call, the answer accounts    *)
(* for the store: the series of each top event counts every row of its    *)
(* group, and with include_other the series together count every row, the *)
(* other series taking exactly the rows of the groups that did not make   *)
(* the top (lines 214-232).  Rows ingested between the queries escape it:  *)
(* nothing promises the three reads one snapshot.                         *)
(***************************************************************************)
SeriesCountEveryRow ==
    phase = "done" /\ result.kind = "keyed" /\ ingested = 0 =>
        LET S == result.series
        IN  /\ \A i \in DOMAIN top : Total(S[top[i]].data) = CountOf(store, top[i])
            /\ req.includeOther =>
                 Len(store) = FoldSet(LAMBDA k, acc : acc + Total(S[k].data), 0, DOMAIN S)


(***************************************************************************)
(* What the docstring of top_events_timeseries promises (lines 162-164):   *)
(* each series of the answer matches the result of a timeseries query.     *)
(* On a store that did not change during the call, the series of a top     *)
(* event is timeseries_query over that event's group, the other series is *)
(* timeseries_query over every group not on top, and the empty answer of   *)
(* line 238 is timeseries_query over the top groups.  It checks the        *)
(* regrouping of the top query's rows by result key (lines 262-274) and   *)
(* the zerofill of both functions against each other.                      *)
(***************************************************************************)
SeriesMatchTimeseriesQuery ==
    phase = "done" /\ ingested = 0 =>
        IF result.kind = "keyed"
        THEN LET S == result.series
             IN  /\ \A k \in DOMAIN S \ {OtherKey} :
                        S[k].data = TimeseriesQuery(store, {k}, req.zerofill)
                 /\ OtherKey \in DOMAIN S =>
                        S[OtherKey].data = TimeseriesQuery(store, Groups \ Range(top), req.zerofill)
        ELSE result.data = TimeseriesQuery(store, Range(top), req.zerofill)

=============================================================================

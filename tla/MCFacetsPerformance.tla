------------------------- MODULE MCFacetsPerformance -------------------------
(***************************************************************************)
(* Instantiates FacetsPerformance with two ordinary tag keys (1, 2) and   *)
(* one excluded key (3), two values per key, and five kinds of event:      *)
(* they give keys with several values of different averages, ties in      *)
(* count, an event without a metric, and an event carrying an excluded    *)
(* key.  The threshold of the planner is 2 so that sampling is enabled    *)
(* for stores of three or more events.                                     *)
(***************************************************************************)
EXTENDS FacetsPerformance, TLC

MCTagKeys == {1, 2, 3}
MCExcludedTagKeys == {3}

Ev(tags, metric) == [tags |-> tags, metric |-> metric]

\* Events with non-zero metrics.
MCEventKinds ==
    { Ev({<<1, 1>>, <<2, 1>>}, 1),
      Ev({<<1, 2>>, <<3, 1>>}, 3),
      Ev({<<1, 1>>, <<2, 2>>}, 3),
      Ev({<<2, 2>>}, NULL) }

\* As above, and an event whose metric is 0.
MCZeroEventKinds ==
    { Ev({<<1, 1>>, <<2, 1>>}, 0),
      Ev({<<1, 2>>}, 0) }

Desc(f) == [field |-> f, desc |-> TRUE]
Asc(f) == [field |-> f, desc |-> FALSE]

\* No sort parameter, -count, -aggregate, -frequency and sumdelta.
MCOrderBys == { <<>>, <<Desc("count")>>, <<Desc("aggregate")>>,
                <<Desc("frequency")>>, <<Asc("sumdelta")>> }

MCDefaultOrderBys == { <<>> }

\* Discovery mode and the two single-key modes.
MCRequests == { [allTagKeys |-> NULL, tagKey |-> NULL],
                [allTagKeys |-> NULL, tagKey |-> 1],
                [allTagKeys |-> NULL, tagKey |-> 2] }

MCAllTagKeysRequests == { [allTagKeys |-> "1", tagKey |-> NULL] }

MCSampleStartCount == 2

MCLnMilli(x) == (1 :> 0 @@ 2 :> 693 @@ 3 :> 1099 @@ 4 :> 1386 @@ 5 :> 1609)[x]

=============================================================================

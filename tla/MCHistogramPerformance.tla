----------------------- MODULE MCHistogramPerformance -----------------------
(***************************************************************************)
(* Instantiates HistogramPerformance for tag key 1 with values 1..3.  The  *)
(* events give values of equal count (ties for the tie-break), different   *)
(* averages, an event without a metric, and an event where another key    *)
(* (2) carries the value 3.                                                *)
(***************************************************************************)
EXTENDS HistogramPerformance, TLC

Ev(tags, metric) == [tags |-> tags, metric |-> metric]

MCEventKinds ==
    { Ev({<<1, 1>>}, 2),
      Ev({<<1, 2>>, <<2, 1>>}, 4),
      Ev({<<1, 3>>}, 2),
      Ev({<<2, 3>>}, 1),
      Ev({<<1, 2>>}, NULL) }

Desc(f) == [field |-> f, desc |-> TRUE]
Asc(f) == [field |-> f, desc |-> FALSE]

\* No sort parameter, -frequency, -aggregate and aggregate.
MCOrderBys == { <<>>, <<Desc("frequency")>>, <<Desc("aggregate")>>, <<Asc("aggregate")>> }

=============================================================================

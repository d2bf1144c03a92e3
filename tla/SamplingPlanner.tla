-------------------------- MODULE SamplingPlanner --------------------------
(***************************************************************************)
(* The dynamic sampling plan of query_facet_performance                    *)
(* (organization_events_facets_performance.py, lines 385-398).             *)
(*                                                                         *)
(* The code works in floating point and calls math.log.  TLC has only      *)
(* integers, so logarithms are supplied by the constant operator LnMilli,  *)
(* round(1000 * ln n), and every quantity that the code computes as a      *)
(* float is kept scaled by Milli.  Rates are exact rationals <<num, den>>. *)
(*                                                                         *)
(* The module is a state machine over the baseline count n with which the  *)
(* planner is called: each Plan step is the planner invoked for a new     *)
(* request whose baseline query returned count n'.                         *)
(***************************************************************************)
EXTENDS Integers, RatArith

CONSTANTS
    SampleStartCount,   \* sample_start_count = 50000
    LnMilli(_),         \* round(1000 * math.log(n)), n >= 1
    Counts,             \* baseline counts the planner is called with
    NULL                \* Python None

ASSUME SampleStartCount \in Nat \ {0}
ASSUME Counts \subseteq Nat \ {0}

Milli == 1000

VARIABLE n

\* Variant that samples already at the threshold itself.
SamplingEnabledAtThreshold(cnt) == cnt >= SampleStartCount

\* sampling_enabled = transaction_count > sample_start_count
SamplingEnabled(cnt) == cnt > SampleStartCount

\* target_sample = max(S * (log(N) - (log(S) - 1)), N), scaled by Milli.
TargetSampleMilli(cnt) ==
    LET logGrowth == SampleStartCount *
                       (LnMilli(cnt) - (LnMilli(SampleStartCount) - Milli))
    IN  IF logGrowth >= cnt * Milli THEN logGrowth ELSE cnt * Milli

\* dynamic_sample_rate = 0 if N <= 0 else target_sample / N
DynamicSampleRate(cnt) ==
    IF cnt <= 0 THEN Zero ELSE Rat(TargetSampleMilli(cnt), cnt * Milli)

\* min(max(rate, 0), 1)
Clamp01(r) ==
    IF RatLt(r, Zero) THEN Zero ELSE IF RatLt(One, r) THEN One ELSE r

\* sample_rate = min(max(dynamic_sample_rate, 0), 1) if sampling_enabled else None
SampleRate(cnt) ==
    IF SamplingEnabled(cnt) THEN Clamp01(DynamicSampleRate(cnt)) ELSE NULL

\* frequency_sample_rate = sample_rate if sample_rate else 1
\* (0.0 and None are both falsy in Python)
FrequencySampleRate(cnt) ==
    LET r == SampleRate(cnt)
    IN  IF r = NULL THEN One ELSE IF r[1] = 0 THEN One ELSE r

Init == n \in Counts

\* The planner invoked by the next request, whose baseline count is n'.
Plan == \E m \in Counts : n' = m

Spec == Init /\ [][Plan]_n

-----------------------------------------------------------------------------
(***************************************************************************)
(* The planner's contract (spec sections 4.2 and 8): at or below the       *)
(* threshold nothing is sampled and frequencies are not rescaled; above   *)
(* it the sample rate is a fraction in (0, 1] and frequencies are          *)
(* rescaled by exactly that rate.                                          *)
(***************************************************************************)
PlanContract ==
    /\ n <= SampleStartCount => /\ SampleRate(n) = NULL
                                /\ FrequencySampleRate(n) = One
    /\ n > SampleStartCount => /\ SampleRate(n) # NULL
                               /\ RatLt(Zero, SampleRate(n))
                               /\ RatLe(SampleRate(n), One)
                               /\ FrequencySampleRate(n) = SampleRate(n)

(***************************************************************************)
(* The purpose stated for the planner (spec 4.2, and the code comments     *)
(* "Dynamically sample" / "log-e growth starting at 50,000"): once the     *)
(* population exceeds the threshold, only a fraction of it is scanned,     *)
(* i.e. the sample rate is below 1.                                        *)
(***************************************************************************)
SamplingReducesCost ==
    n > SampleStartCount => RatLt(SampleRate(n), One)

=============================================================================

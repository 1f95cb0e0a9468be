------------------------- MODULE MCRequestPipeline --------------------------
(* Instances of RequestPipeline for TLC: three requests, two tenants with  *)
(* different limits, one key, one replica.                                *)
EXTENDS RequestPipeline, SequencesExt

CONSTANTS p1, ta, tb, k

MCLimit == [t \in {ta, tb} |-> IF t = ta THEN 1 ELSE 2]

\* The limiter by itself: of requests that arrive at `times`, those it admits.
Admissions(limit, times) ==
  LET Serve(state, time) ==
        [bucket |-> NextBucket(state.bucket, time),
         times |-> IF Allowed(state.bucket, limit, time) THEN Append(state.times, time)
                   ELSE state.times]
  IN  FoldLeft(Serve, [bucket |-> NoBucket, times |-> <<>>], times).times

Arrivals == {times \in UNION {[1..n -> 0..4] : n \in 1..6} :
               \A i \in 2..Len(times) : times[i - 1] <= times[i]}

\* the most it admits of them in a stretch of WindowMs
Burst(limit, times) ==
  LET taken == Admissions(limit, times)
      Within(x) == {i \in DOMAIN taken : taken[i] <= x /\ x - taken[i] < WindowMs}
  IN  Max({Cardinality(Within(x)) : x \in 0..4})

\* For every sequence of arrivals a burst is within Straddle, and some bursts come up to
\* it: with a limit of 2 or 3 the limiter admits more than its quota in a window's length.
ASSUME BurstsStraddle ==
  \A limit \in 0..3 :
    /\ \A times \in Arrivals : Burst(limit, times) <= Straddle(limit)
    /\ \E times \in Arrivals : Burst(limit, times) = Straddle(limit)
=============================================================================

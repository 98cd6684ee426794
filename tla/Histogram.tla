------------------------------- MODULE Histogram -------------------------------
(***************************************************************************)
(* The latency sketch (histogram.py): log-linear buckets of integer        *)
(* microseconds, recorded by each worker, shipped as deltas and added up   *)
(* by the control plane before a percentile is read.  The bucket           *)
(* arithmetic is a set of operators; the small state machine around it     *)
(* has workers record and ship in any order.                               *)
(***************************************************************************)
EXTENDS Integers, FiniteSets, FiniteSetsExt

Pow2[n \in Nat] == IF n = 0 THEN 1 ELSE 2 * Pow2[n - 1]
SumOn(f, S) == MapThenSumSet(LAMBDA k : f[k], S)

CONSTANTS
    SubBits,      \* SUB_BITS: 2^SubBits sub-buckets in each octave
    MaxShift,     \* bound: octaves above the linear region
    Recorders,    \* the workers
    Latencies,    \* bound: the values recorded
    MaxValues     \* bound: how many

Sub == Pow2[SubBits]

ASSUME HistogramAssumption ==
    /\ SubBits \in Nat /\ MaxShift \in Nat /\ MaxValues \in Nat /\ IsFiniteSet(Recorders)
    /\ Latencies \subseteq 0..(2 * (Sub * Pow2[MaxShift]) - 1)

\* How far a value from the second octave on is shifted to leave its mantissa.
ShiftOf(v) == CHOOSE shift \in 0..MaxShift : v \div Pow2[shift] \in Sub..(2 * Sub - 1)

BucketIndex(v) == IF v < Sub THEN v ELSE (ShiftOf(v) * Sub) + (v \div Pow2[ShiftOf(v)])

BucketShift(index) == (index - Sub) \div Sub
LowerBound(index) ==
    IF index < Sub THEN index ELSE (Sub + ((index - Sub) % Sub)) * Pow2[BucketShift(index)]
Width(index) == IF index < Sub THEN 1 ELSE Pow2[BucketShift(index)]

\* Twice the midpoint, which may be a half.
TwiceLowerBound(index) == 2 * LowerBound(index)
TwiceMidpoint(index) == 2 * LowerBound(index) + Width(index) - 1

-----------------------------------------------------------------------------
(* A sketch: its buckets, and the exact count, sum and extremes. *)

Indexes == {BucketIndex(v) : v \in Latencies}
Empty == [buckets |-> [i \in Indexes |-> 0], count |-> 0, sum |-> 0, extremes |-> {}]

Extremes(S) == IF S = {} THEN {} ELSE {Min(S), Max(S)}

\* record_us
With(h, v) ==
    [buckets |-> [h.buckets EXCEPT ![BucketIndex(v)] = @ + 1],
     count |-> h.count + 1, sum |-> h.sum + v, extremes |-> Extremes(h.extremes \cup {v})]

\* merge
CountsOf(g) == g.count
Merge(h, g) ==
    [buckets |-> [i \in Indexes |-> h.buckets[i] + g.buckets[i]],
     count |-> h.count + CountsOf(g), sum |-> h.sum + g.sum,
     extremes |-> Extremes(h.extremes \cup g.extremes)]

\* percentile_us: the first bucket, in order, by which enough values were seen; its midpoint
\* kept between the extremes. Twice the value.
Reaches(h, p, index) ==
    100 * SumOn(h.buckets, {i \in Indexes : i <= index}) >= p * h.count
Between(v, S) == Max({2 * Min(S), Min({2 * Max(S), v})})
TwicePercentile(h, p) ==
    IF h.count = 0 THEN 0
    ELSE IF p <= 0 THEN 2 * Min(h.extremes)
    ELSE IF p >= 100 THEN 2 * Max(h.extremes)
    ELSE Between(TwiceMidpoint(Min({i \in Indexes : h.buckets[i] > 0 /\ Reaches(h, p, i)})), h.extremes)

-----------------------------------------------------------------------------

VARIABLES
    sketch,   \* each worker's
    merged,   \* the control plane's
    values    \* history: how often each value was recorded

histogramVars == <<sketch, merged, values>>

NumberOf == SumOn(values, Latencies)

RecordValue(w, v) ==
    /\ NumberOf < MaxValues
    /\ sketch' = [sketch EXCEPT ![w] = With(@, v)]
    /\ values' = [values EXCEPT ![v] = @ + 1]
    /\ UNCHANGED merged

\* A heartbeat's delta: to_dict, reset, and merge_dicts at the other end.
Ship(w) ==
    /\ sketch[w].count > 0
    /\ merged' = Merge(merged, sketch[w])
    /\ sketch' = [sketch EXCEPT ![w] = Empty]
    /\ UNCHANGED values

HistogramInit ==
    /\ sketch = [w \in Recorders |-> Empty] /\ merged = Empty
    /\ values = [v \in Latencies |-> 0]
HistogramNext == \E w \in Recorders : Ship(w) \/ \E v \in Latencies : RecordValue(w, v)
HistogramSpec == HistogramInit /\ [][HistogramNext]_histogramVars

-----------------------------------------------------------------------------

\* The value itself: the smallest that p percent of those recorded do not exceed.
Below(v) == SumOn(values, {u \in Latencies : u <= v})
Exact(p) == Min({v \in Latencies : values[v] > 0 /\ 100 * Below(v) >= p * NumberOf})

Distance(a, b) == IF a < b THEN b - a ELSE a - b

\* Once everything is shipped, in whatever order, the merged sketch is the one that had
\* recorded every value itself, and each percentile lies within half of 1/Sub of the exact
\* one (histogram.py:13-23: the merge is exact, the error is the bucket's).
FleetPercentiles ==
    (\A w \in Recorders : sketch[w].count = 0) /\ NumberOf > 0 =>
        /\ merged.count = NumberOf
        /\ merged.sum = SumOn([v \in Latencies |-> v * values[v]], Latencies)
        /\ \A p \in {0, 50, 90, 95, 99, 100} :
              Sub * Distance(TwicePercentile(merged, p), 2 * Exact(p)) <= Exact(p)
=============================================================================

------------------------------ MODULE Histogram ------------------------------
(***************************************************************************)
(* The latency histogram (metrics/mod.rs): samples are counted into the    *)
(* bucket of the smallest limit that is not below them, and percentiles    *)
(* and the average are computed back from the counts.  Durations are       *)
(* numbers; a percentile is a fraction, where the code rounds a double.    *)
(***************************************************************************)
EXTENDS Integers, Sequences, SequencesExt

CONSTANTS
  Limits,       \* the upper bounds of the buckets, ascending
  Durations,    \* samples
  Percentages,
  CountBits,    \* the width average() cuts the count to, 32
  MaxSamples    \* bound

ASSUME HistogramAssumption ==
  /\ Limits \in Seq(Nat \ {0}) /\ Limits # <<>>
  /\ \A i \in 1 .. Len(Limits) - 1 : Limits[i] < Limits[i + 1]
  /\ CountBits \in Nat /\ MaxSamples \in Nat

VARIABLES
  buckets, total_count, total_sum,
  samples       \* auxiliary: what was recorded

hvars == <<buckets, total_count, total_sum, samples>>

Lower(i) == IF i = 1 THEN 0 ELSE Limits[i - 1]

bucket_of(value) ==
  LET fit == {i \in DOMAIN Limits : value <= Limits[i]} IN
  IF fit = {} THEN Len(Limits) ELSE Min(fit)

\* cumulative_after at bucket i
Cumulative(i) == FoldLeft(+, 0, SubSeq(buckets, 1, i))

\* Mutant of percentile_bucket: the counts must exceed the target.
percentile_bucket_above(p) ==
  LET reached == {i \in DOMAIN Limits : Cumulative(i) * 100 > total_count * p} IN
  IF reached = {} THEN Len(Limits) ELSE Min(reached)

\* The first bucket whose cumulative count reaches p percent of the samples; in
\* exact arithmetic there always is one.
percentile_bucket(p) ==
  Min({i \in DOMAIN Limits : Cumulative(i) * 100 >= total_count * p})

\* Interpolated within that bucket: a value of num / den.
percentile(p) ==
  LET i == percentile_bucket(p)
      den == 100 * buckets[i]
  IN IF buckets[i] = 0 THEN [num |-> Lower(i), den |-> 1]
     ELSE [num |-> Lower(i) * den + (Limits[i] - Lower(i))
                                      * (total_count * p - 100 * Cumulative(i - 1)),
           den |-> den]

\* total_sum / total_count as u32: dividing by 0 panics, -1 here.
average ==
  LET count == total_count % 2 ^ CountBits IN
  IF count = 0 THEN -1 ELSE total_sum \div count

-----------------------------------------------------------------------------

HistogramInit ==
  /\ buckets = [i \in DOMAIN Limits |-> 0]
  /\ total_count = 0 /\ total_sum = 0
  /\ samples = <<>>

record ==
  /\ total_count < MaxSamples
  /\ \E value \in Durations :
       /\ buckets' = [buckets EXCEPT ![bucket_of(value)] = @ + 1]
       /\ total_count' = total_count + 1
       /\ total_sum' = total_sum + value
       /\ samples' = SortSeq(Append(samples, value), <)

clear ==
  /\ total_count > 0
  /\ buckets' = [i \in DOMAIN buckets |-> 0]
  /\ total_count' = 0 /\ total_sum' = 0
  /\ samples' = <<>>

HistogramNext == record \/ clear

-----------------------------------------------------------------------------
(* Properties *)

\* The nearest-rank percentile: the sample that p percent are not above.
Ranked(p) == samples[(total_count * p + 99) \div 100]

\* A reported percentile lies in the bucket of the sample it stands for, a larger
\* percentage never reports a smaller value, and the average is the mean: until
\* the count outgrows u32, when the divisor is cut (and average() panics when
\* nothing of it is left).
StatisticsFaithful ==
  total_count > 0 =>
    /\ \A p \in Percentages \ {0} :
         LET i == bucket_of(Ranked(p)) IN
         /\ percentile(p).num >= Lower(i) * percentile(p).den
         /\ percentile(p).num <= Limits[i] * percentile(p).den
    /\ \A p, q \in Percentages :
         p <= q => percentile(p).num * percentile(q).den <= percentile(q).num * percentile(p).den
    /\ total_count < 2 ^ CountBits => average = FoldLeft(+, 0, samples) \div Len(samples)
    /\ average = -1 => total_count >= 2 ^ CountBits
=============================================================================

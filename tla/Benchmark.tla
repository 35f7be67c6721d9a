------------------------------ MODULE Benchmark ------------------------------
(* The benchmark of the fifth gate (kernel.py): the percentiles of the       *)
(* trials and the paired bootstrap interval of the improvement, recomputed   *)
(* by the kernel.  A number that the evidence claims and that differs from   *)
(* the recomputed one is refused, so the claims are not kept here.           *)
(*                                                                           *)
(* The indices of a resample are the output of a hash: any of them may come. *)
EXTENDS Integers, Sequences, FiniteSetsExt, Functions

CONSTANTS
  Latencies,        \* of a trial, in microseconds
  MinTrials,        \* minimum_trials_per_side
  MaxTrials,        \* bounds the trials
  Resamples,        \* CI_RESAMPLES
  RankNumerator, RankDenominator,              \* 95 of 100
  LowNumerator, HighNumerator, TailDenominator,  \* 25 and 975 of 1000
  Scale,            \* 10000 basis points
  MinImprovement    \* minimum_improvement_percent * 100

BenchmarkAssumption ==
  /\ Latencies \subseteq Nat \ {0}
  /\ MinTrials \in Nat \ {0} /\ MaxTrials \in Nat
  /\ Resamples \in Nat \ {0}
  /\ RankNumerator \in 1..RankDenominator
  /\ LowNumerator \in 0..HighNumerator /\ HighNumerator \in 0..TailDenominator
  /\ RankDenominator \in Nat /\ TailDenominator \in Nat \ {0}
  /\ Scale \in Nat \ {0} /\ MinImprovement \in Nat
ASSUME BenchmarkAssumption

VARIABLES
  trials,        \* candidate_trials and comparator_trials
  p95,           \* of each side
  improvements,  \* of the resamples so far, in their order of size
  interval,      \* confidence interval: low and high
  benchmark      \* where validate_evidence is

benchmarkVars == <<trials, p95, improvements, interval, benchmark>>

Sides == {"candidate", "comparator"}
Trials == UNION {[1..n -> Latencies] : n \in 1..MaxTrials}

(* sorted: the values, rearranged in their order of size. *)
InOrder(values) ==
  LET positions == DOMAIN values
      order == CHOOSE p \in Bijection(positions, positions) :
                 \A j, k \in positions : j < k => values[p[j]] <= values[p[k]]
  IN [k \in positions |-> values[order[k]]]

(* Broken variant: the rank is rounded down. *)
RankBelow(values, numerator, denominator) ==
  LET index == (numerator * Len(values)) \div denominator - 1
  IN InOrder(values)[1 + Max({0, Min({index, Len(values) - 1})})]

NearestRank(values, numerator, denominator) ==
  LET index == (numerator * Len(values) + denominator - 1) \div denominator - 1
  IN InOrder(values)[1 + Max({0, Min({index, Len(values) - 1})})]

(* Linear interpolation between the two neighbours, rounded down.            *)
PercentileLinear(values, numerator, denominator) ==
  LET ordered == InOrder(values)
      scaled == numerator * (Len(values) - 1)
      low == 1 + scaled \div denominator
      remainder == scaled % denominator
  IN IF remainder = 0 \/ low = Len(values)
     THEN ordered[low]
     ELSE ordered[low] + ((ordered[low + 1] - ordered[low]) * remainder) \div denominator

P95(values) == NearestRank(values, RankNumerator, RankDenominator)

(* In basis points, rounded down: a slower candidate has a negative one.     *)
Improvement(candidate, comparator) == ((comparator - candidate) * Scale) \div comparator

BenchmarkInit ==
  /\ trials \in [Sides -> Trials]
  /\ p95 = [s \in Sides |-> 0]
  /\ improvements = <<>>
  /\ interval = <<>>
  /\ benchmark = "trials"

Enough == \A s \in Sides : Len(trials[s]) >= MinTrials

Estimate(ranks) == Improvement(ranks["candidate"], ranks["comparator"])

Ranks == [s \in Sides |-> P95(trials[s])]

Summarise ==
  /\ benchmark = "trials"
  /\ Enough
  /\ Estimate(Ranks) \in 0..Scale
  /\ p95' = Ranks
  /\ benchmark' = "resampling"
  /\ UNCHANGED <<trials, improvements, interval>>

Paired == Len(trials["candidate"]) = Len(trials["comparator"])

Sample(values, draw) == [i \in DOMAIN draw |-> values[draw[i]]]

Resampled(draw, drawn) ==
  /\ benchmark = "resampling"
  /\ Paired
  /\ Len(improvements) < Resamples
  /\ improvements' = InOrder(Append(improvements,
       Improvement(P95(Sample(trials["candidate"], draw)),
                   P95(Sample(trials["comparator"], drawn)))))
  /\ UNCHANGED <<trials, p95, interval, benchmark>>

Draws == LET indices == DOMAIN trials["candidate"] IN [indices -> indices]

(* Broken variant: the comparator's trial is the one before the drawn one,  *)
(* as an index that starts at zero would have it.                           *)
ResampleShifted ==
  \E draw \in Draws :
    Resampled(draw, [i \in DOMAIN draw |->
                      IF draw[i] = 1 THEN Len(trials["candidate"]) ELSE draw[i] - 1])

(* One index for both sides at a time: the trials are paired.                *)
Resample == \E draw \in Draws : Resampled(draw, draw)

Conclude ==
  /\ benchmark = "resampling"
  /\ Len(improvements) = Resamples
  /\ interval' = <<PercentileLinear(improvements, LowNumerator, TailDenominator),
                   PercentileLinear(improvements, HighNumerator, TailDenominator)>>
  /\ benchmark' = "interval"
  /\ UNCHANGED <<trials, p95, improvements>>

Convincing ==
  /\ \A i \in {1, 2} : interval[i] \in 0..Scale
  /\ interval[1] <= Estimate(p95) /\ Estimate(p95) <= interval[2]
  /\ interval[1] >= MinImprovement

(* The method, seed and digest of the summary, and the counts of safety      *)
(* failures, which are compared before and after it, are not modelled.       *)
Judge ==
  /\ benchmark = "interval"
  /\ Convincing
  /\ benchmark' = "accepted"
  /\ UNCHANGED <<trials, p95, improvements, interval>>

(* Reject is raised where a guard above is false. *)
RefuseBenchmark ==
  /\ \/ benchmark = "trials" /\ ~(Enough /\ Estimate(Ranks) \in 0..Scale)
     \/ benchmark = "resampling" /\ ~Paired
     \/ benchmark = "interval" /\ ~Convincing
  /\ benchmark' = "refused"
  /\ UNCHANGED <<trials, p95, improvements, interval>>

BenchmarkNext == Summarise \/ Resample \/ Conclude \/ Judge \/ RefuseBenchmark

BenchmarkSpec == BenchmarkInit /\ [][BenchmarkNext]_benchmarkVars

-----------------------------------------------------------------------------
AtMost(values, v) == Cardinality({i \in DOMAIN values : values[i] <= v})

(* What "nearest rank" promises (kernel.py 594-599): the smallest of the     *)
(* trials that at least 95 in a hundred do not exceed, for samples of every  *)
(* size, where the rank is a whole number and where it is not.               *)
RankIsNearest ==
  benchmark \in {"resampling", "interval", "accepted"} =>
    \A s \in Sides :
      LET reached == {v \in {trials[s][i] : i \in DOMAIN trials[s]} :
                        AtMost(trials[s], v) * RankDenominator >= RankNumerator * Len(trials[s])}
      IN p95[s] = Min(reached)

(* The interval is one of paired trials: whatever is drawn, interpolated and *)
(* rounded, its ends are in order and lie between the improvements of the    *)
(* worst and of the best pair.  So an accepted improvement is one that some  *)
(* pair of trials has shown.                                                 *)
IntervalWithinPairs ==
  interval # <<>> =>
    LET pairs == {Improvement(trials["candidate"][i], trials["comparator"][i]) :
                    i \in DOMAIN trials["candidate"]}
    IN /\ Min(pairs) <= interval[1]
       /\ interval[1] <= interval[2]
       /\ interval[2] <= Max(pairs)
=============================================================================

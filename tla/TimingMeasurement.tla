--------------------------- MODULE TimingMeasurement ---------------------------
(***************************************************************************)
(* The measurements of one client count and seed of the scalability        *)
(* harness (evaluation/scalability.py): how one generated stream of epochs *)
(* is cut into its roles, what a measured repetition goes through, and how *)
(* the measurements of all seeds are summarised.                           *)
(***************************************************************************)
EXTENDS LocalPolicies

CONSTANT FullFactor   \* the number one, in the fixed point of evidence factors
-----------------------------------------------------------------------------
(***************************************************************************)
(* The cut of the stream.  A layout t is the numbers of the configuration: *)
(* [nuisance, horizons, warmup, horizon, harness, measured].               *)
(***************************************************************************)
\* The counts of the configuration; a horizon is not empty.
IsLayout(t) ==
    /\ t.nuisance \in Nat /\ t.horizons \in Nat /\ t.warmup \in Nat /\ t.horizon \in Nat \ {0}
    /\ t.harness \in Nat /\ t.measured \in Nat

DetectorFitRange(t) == 0 .. t.nuisance - 1

NuisanceRange(t) == t.nuisance .. 2 * t.nuisance - 1

CalibrationStart(t) == 2 * t.nuisance

\* Mutant: the warm-up of a horizon is not counted in its length.
CalibrationLengthWithoutWarmup(t) == t.horizon

\* calibration_length: each horizon has a warm-up of its own.
CalibrationLength(t) == t.warmup + t.horizon

\* The epochs of the i-th calibration horizon, from 0.
CalibrationHorizon(t, i) ==
    CalibrationStart(t) + i * CalibrationLength(t) + t.warmup
        .. CalibrationStart(t) + i * CalibrationLength(t) + t.warmup + t.horizon - 1

WarmupStart(t) == CalibrationStart(t) + t.horizons * CalibrationLength(t)

WarmupRange(t) == WarmupStart(t) .. WarmupStart(t) + t.harness - 1

MeasuredRange(t) == WarmupStart(t) + t.harness .. WarmupStart(t) + t.harness + t.measured - 1

TotalEpochs(t) ==
    t.nuisance + t.nuisance + t.horizons * CalibrationLength(t) + t.harness + t.measured
-----------------------------------------------------------------------------
(***************************************************************************)
(* Measured repetitions.  x is [factors, scores, policies, repetitions]:    *)
(* the evidence factors of the measured epochs, the scores and thresholds   *)
(* of the clients, and how often the epochs are gone through.               *)
(***************************************************************************)
\* Each measured epoch has a factor, and a score of each client.
IsPass(x) ==
    /\ x.factors \in Seq(Range(x.factors))
    /\ \A c \in DOMAIN x.scores :
        /\ x.scores[c] \in [1 .. Len(x.factors) -> Int]
        /\ x.policies[c] # NoPolicy => x.policies[c].threshold \in Int

Fresh(x) == [global |-> 0, seen |-> [c \in DOMAIN x.scores |-> <<>>]]

\* The state after an epoch; a client without a policy keeps no exceedances.
Advanced(x, state, e) ==
    [global |-> ((state.global + FullFactor) * x.factors[e]) \div FullFactor,
     seen |-> [c \in DOMAIN x.scores |->
        IF x.policies[c] = NoPolicy THEN state.seen[c]
        ELSE Append(state.seen[c], x.scores[c][e] >= x.policies[c].threshold)]]

\* measure_repetition_epoch_latencies: the states the epochs are scored in.
Path(x, start) ==
    LET state[e \in 0 .. Len(x.factors)] ==
            IF e = 0 THEN start ELSE LET before == state[e - 1] IN Advanced(x, before, e)
    IN  [e \in DOMAIN x.factors |-> state[e]]

\* Mutant: a repetition goes on from where the last one ended.
RepetitionsInARow(x) ==
    LET path[n \in 1 .. x.repetitions] ==
            IF n = 1 THEN Path(x, Fresh(x)) ELSE LET before == path[n - 1] IN Path(x, Last(before))
    IN  [n \in 1 .. x.repetitions |-> path[n]]

\* collect_scalability_measurements
Repetitions(x) == [n \in 1 .. x.repetitions |-> Path(x, Fresh(x))]
-----------------------------------------------------------------------------
(***************************************************************************)
(* Summary of rows [seed, latency].                                        *)
(***************************************************************************)
SeedsOf(rows) == {rows[i].seed : i \in DOMAIN rows}

LatenciesOf(rows, s) ==
    SortSeq([i \in DOMAIN SelectSeq(rows, LAMBDA row : row.seed = s) |->
                SelectSeq(rows, LAMBDA row : row.seed = s)[i].latency], <)

\* seed_level_latency_quantiles, in ascending order and times q[2]
SeedQuantiles(rows, q) ==
    LET quantile == [s \in SeedsOf(rows) |-> Quantile(LatenciesOf(rows, s), q)]
    IN  SortSeq([i \in 1 .. Cardinality(SeedsOf(rows)) |->
                    quantile[SetToSeq(SeedsOf(rows))[i]]], <)

\* Mutant: the mean of the seeds in place of their quantile.
LatencyMeetsTargetOnAverage(rows, q, limit) ==
    LET seeds == SeedQuantiles(rows, q)
    IN  FoldSeq(LAMBDA x, y : x + y, 0, seeds) <= limit * q[2] * Len(seeds)

\* summarize_scalability: the quantile over the seeds of the quantiles of the seeds.
LatencyMeetsTarget(rows, q, limit) == Quantile(SeedQuantiles(rows, q), q) <= limit * q[2] * q[2]

\* How many of n values are at most their quantile.
Share(n, q) == ((n - 1) * q[1]) \div q[2] + 1

\* What meeting the target is taken to mean: enough of the seeds have enough epochs within it.
EnoughSeedsAreFast(rows, q, limit) ==
    LET fast(s) == Cardinality({i \in DOMAIN rows : rows[i].seed = s /\ rows[i].latency <= limit})
    IN  Cardinality({s \in SeedsOf(rows) : fast(s) >= Share(Len(LatenciesOf(rows, s)), q)})
            >= Share(Cardinality(SeedsOf(rows)), q)
=============================================================================

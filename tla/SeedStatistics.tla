---------------------------- MODULE SeedStatistics ----------------------------
(***************************************************************************)
(* From the outcomes of an experiment's seeds to its statistical records   *)
(* (experiments/seed_statistics.py, analysis/statistics.py): which seeds   *)
(* make up a sample, the exact sign-flip test, the paired contrast, the    *)
(* support it lends, the Holm families and the stress windows of the       *)
(* common-mode test.                                                       *)
(*                                                                         *)
(* Rates are counted in units of 1 / Unit, a mean is the pair of a sum and *)
(* a number of terms, and a p-value is a count of sign assignments, so     *)
(* that all of it is integer arithmetic.  Bootstrap intervals are left out.*)
(***************************************************************************)
EXTENDS Integers, Sequences, FiniteSets, Functions, FiniteSetsExt, SequencesExt

CONSTANTS
    Expected,         \* the confirmatory seeds of the configuration
    Tolerance,        \* required_confirmatory_missing_cell_tolerance
    Unit,             \* the rate of one
    Alpha,            \* <<a, b>>: nominal_significance_alpha is a / b
    MinimumRate,      \* materiality: strict outside detection
    MinimumAdvantage, \* materiality: over the predecessor
    MinimumLead,      \* materiality: twice the median lead
    Floor,            \* numerics.metric_denominator_floor
    None

ASSUME StatisticsAssumption ==
    /\ IsFiniteSet(Expected) /\ Tolerance \in 0 .. Cardinality(Expected) - 1
    /\ Unit \in Nat \ {0} /\ MinimumRate \in 0 .. Unit
    /\ MinimumAdvantage \in 1 .. Unit /\ MinimumLead \in Nat
    /\ Floor \in Nat \ {0}

\* The members of a set of numbers, in ascending order.
Ascending(S) == [k \in 1 .. Cardinality(S) |->
    CHOOSE x \in S : Cardinality({y \in S : y < x}) = k - 1]

SumOf(f) == FoldFunction(LAMBDA x, y : x + y, 0, f)
Sum(d) == LET S[k \in 0 .. Len(d)] == IF k = 0 THEN 0 ELSE S[k - 1] + d[k] IN S[Len(d)]
ProductOf(f) == FoldFunction(LAMBDA x, y : x * y, 1, f)

\* The mean <<sum, terms>> is at least m.
MeanAtLeast(mean, m) == mean[1] >= m * mean[2]
-----------------------------------------------------------------------------
(***************************************************************************)
(* The exact sign-flip test of a sequence of differences.                  *)
(***************************************************************************)
Assignments(n) == 0 .. 2^n - 1

\* exact_sign_pattern
SignPattern(k, n) == [i \in 1 .. n |-> IF (k \div 2^(i - 1)) % 2 = 0 THEN 1 ELSE -1]

Flipped(d, k) == [i \in DOMAIN d |-> d[i] * SignPattern(k, Len(d))[i]]

\* Mutant: a tie with what was observed is not as extreme.
ExtremeCountWithoutTies(d) ==
    Cardinality({k \in Assignments(Len(d)) : Sum(Flipped(d, k)) > Sum(d)})

\* sign_flip_p_value, one-sided, times the number of assignments
ExtremeCount(d) ==
    Cardinality({k \in Assignments(Len(d)) : Sum(Flipped(d, k)) >= Sum(d)})

IsSignificant(d) == ExtremeCount(d) * Alpha[2] < Alpha[1] * 2^Len(d)

\* The value with r values before it in ascending order.
Ordered(f, r) == CHOOSE v \in Range(f) :
    /\ Cardinality({i \in DOMAIN f : f[i] < v}) <= r
    /\ r < Cardinality({i \in DOMAIN f : f[i] <= v})

\* Twice the median.
TwiceMedian(f) ==
    LET n == Cardinality(DOMAIN f)
    IN  Ordered(f, (n - 1) \div 2) + Ordered(f, n \div 2)

\* hodges_lehmann_shift, times four: the median of the Walsh averages.
Shift(d) ==
    LET pairs == {p \in (1 .. Len(d)) \X (1 .. Len(d)) : p[1] <= p[2]}
    IN  TwiceMedian([p \in pairs |-> d[p[1]] + d[p[2]]])
-----------------------------------------------------------------------------
(***************************************************************************)
(* The Holm families: p-values in units of 1 / Scale, None for a           *)
(* hypothesis that was not tested.  Identifiers are in lexicographic order.*)
(***************************************************************************)
\* The place of a hypothesis when they are sorted by (p-value, identifier).
Rank(p, i) == Cardinality({j \in DOMAIN p : p[j] < p[i] \/ (p[j] = p[i] /\ j < i)})

Candidate(p, scale, i) == Min({scale, (Len(p) - Rank(p, i)) * p[i]})

\* Mutant: no running maximum.
AdjustedWithoutMaximum(p, scale) == [i \in DOMAIN p |-> Candidate(p, scale, i)]

\* holm_adjusted_p_values
Adjusted(p, scale) == [i \in DOMAIN p |->
    Max({Candidate(p, scale, j) : j \in {h \in DOMAIN p : Rank(p, h) <= Rank(p, i)}})]

\* Mutant: the family is of the hypotheses that were tested.
FamilyOfTested(p, scale) ==
    LET tested == SelectSeq([i \in DOMAIN p |-> i], LAMBDA i : p[i] # None)
        adjusted == Adjusted([k \in DOMAIN tested |-> p[tested[k]]], scale)
    IN  [i \in DOMAIN p |-> IF p[i] = None THEN None
                            ELSE adjusted[CHOOSE k \in DOMAIN tested : tested[k] = i]]

\* fixed_holm_family: one that was not tested counts with a p-value of one.
HolmFamily(p, scale) ==
    LET inputs == [i \in DOMAIN p |-> IF p[i] = None THEN scale ELSE p[i]]
    IN  [i \in DOMAIN p |-> IF p[i] = None THEN None ELSE Adjusted(inputs, scale)[i]]

\* The closure of the Bonferroni tests: a hypothesis is rejected when every set of
\* hypotheses it belongs to is.
ClosedAdjusted(p, scale) == [i \in DOMAIN p |->
    Max({Min({scale, Cardinality(I) * Min({p[j] : j \in I})} ) :
            I \in {J \in SUBSET DOMAIN p : i \in J}})]
-----------------------------------------------------------------------------
(***************************************************************************)
(* The sample: x[m][s] is what is on disk of method m and seed s, None or  *)
(* [point, contract, rate, leads]: the operating point ("none", "over" or  *)
(* "within" the target PFA on the held-out horizons), the comparison       *)
(* contract, the summary's rate (None without a campaign), and the leads   *)
(* of the campaigns detected early.                                        *)
(***************************************************************************)
Observed(x, m) == {s \in DOMAIN x[m] : x[m][s] # None /\ x[m][s].rate # None}

\* Mutant: one missing seed too many.
IsCompleteOneFewer(seeds) ==
    /\ seeds \subseteq Expected
    /\ Cardinality(Expected \ seeds) <= Tolerance + 1

\* confirmatory_completeness_within_tolerance
IsComplete(seeds) ==
    /\ seeds \subseteq Expected
    /\ Cardinality(Expected \ seeds) <= Tolerance

\* _method_has_eligible_operating_point
HasPoint(x, m, s, points) == x[m][s] # None /\ x[m][s].point \in points

PointsAreEligible(x, m) == \A s \in Expected : HasPoint(x, m, s, {"within"})

\* _pair_confirmatory_odi
Pairs(x, m) ==
    {s \in Observed(x, "full") \cap Observed(x, m) : x["full"][s].contract = x[m][s].contract}

Differences(x, m) ==
    LET seeds == Ascending(Pairs(x, m))
    IN  [k \in DOMAIN seeds |-> x["full"][seeds[k]].rate - x[m][seeds[k]].rate]

Untested(units) ==
    [units |-> units, estimate |-> <<0, 1>>, shift |-> None, p |-> None, meets |-> FALSE]

Tested(d) ==
    [units |-> Len(d), estimate |-> <<Sum(d), Len(d)>>, shift |-> Shift(d),
     p |-> ExtremeCount(d), meets |-> IsSignificant(d)]

\* Mutant: what was not tested reports the pairs there are.
ContrastOfThePairs(x, m) ==
    LET d == Differences(x, m)
    IN  IF d # <<>> /\ IsComplete(Pairs(x, m)) /\ PointsAreEligible(x, "full") /\ PointsAreEligible(x, m)
        THEN Tested(d)
        ELSE IF d = <<>> THEN Untested(0)
        ELSE [Untested(Len(d)) EXCEPT !.estimate = <<Sum(d), Len(d)>>]

\* _materialize_paired_confirmatory_odi_contrast
Contrast(x, m) ==
    IF IsComplete(Pairs(x, m)) /\ PointsAreEligible(x, "full") /\ PointsAreEligible(x, m)
    THEN Tested(Differences(x, m))
    ELSE Untested(Cardinality(Pairs(x, m)))

\* materialize_order_three_scope_outcome
OrderThreeIsMaterial(contrast) == MeanAtLeast(contrast.estimate, MinimumAdvantage)

Leads(x) == UNION {{<<s, i>> : i \in DOMAIN x["full"][s].leads} :
                s \in {t \in Expected : x["full"][t] # None}}

\* materialize_primary_strict_odi_support; None when there is no record.
PrimarySupport(x, m, contrast) ==
    LET seeds == Observed(x, "full")
        rates == [s \in seeds |-> x["full"][s].rate]
    IN  IF ~IsComplete(seeds) THEN None
        ELSE /\ PointsAreEligible(x, "full") /\ PointsAreEligible(x, m)
             /\ MeanAtLeast(<<SumOf(rates), Cardinality(seeds)>>, MinimumRate)
             /\ MeanAtLeast(contrast.estimate, MinimumAdvantage)
             /\ Leads(x) # {}
             /\ TwiceMedian([l \in Leads(x) |-> x["full"][l[1]].leads[l[2]]]) >= MinimumLead

\* materialize_strong_local_odi_statistic; None when there is no record.
StrongLocal(x, notTested) ==
    LET seeds == Ascending(Observed(x, "full"))
    IN  IF notTested \/ ~IsComplete(Observed(x, "full")) THEN None
        ELSE IF \A s \in Expected : HasPoint(x, "full", s, {"over", "within"})
        THEN Tested([k \in DOMAIN seeds |-> x["full"][seeds[k]].rate - MinimumRate])
        ELSE Untested(Len(seeds))
-----------------------------------------------------------------------------
(***************************************************************************)
(* materialize_seed_statistics: one record for each method whose           *)
(* confirmatory seeds are complete; the mean is over all of its summaries, *)
(* those of development seeds (dev[m], a sequence of rates) included.      *)
(***************************************************************************)
GroupValues(x, dev, m) ==
    LET seeds == Ascending(Observed(x, m))
    IN  dev[m] \o [k \in DOMAIN seeds |-> x[m][seeds[k]].rate]

\* p-values over samples of different sizes share the scale 2^Longest.
SeedLevel(x, dev) ==
    LET groups == {m \in DOMAIN x : GroupValues(x, dev, m) # <<>> /\ IsComplete(Observed(x, m))}
        values == [m \in groups |-> GroupValues(x, dev, m)]
        longest == Max({Len(values[m]) : m \in groups} \cup {0})
        methods == SetToSeq(groups)
        P(v) == IF Len(v) < 2 THEN 2^longest ELSE ExtremeCount(v) * 2^(longest - Len(v))
        adjusted == Adjusted([k \in DOMAIN methods |-> P(values[methods[k]])], 2^longest)
    IN  [m \in groups |->
            LET k == CHOOSE h \in DOMAIN methods : methods[h] = m
            IN  [units |-> Len(values[m]),
                 estimate |-> <<Sum(values[m]), Len(values[m])>>,
                 p |-> P(values[m]),
                 meets |-> adjusted[k] * Alpha[2] < Alpha[1] * 2^longest]]
-----------------------------------------------------------------------------
(***************************************************************************)
(* The common-mode test: the windows of the held-out benign epochs with    *)
(* the most events (experiments/robustness.py).                            *)
(***************************************************************************)
\* rolling_benign_horizons over epochs 1 .. n: the first epochs of the windows.
WindowStarts(n, length, stride) ==
    {1 + stride * k : k \in {h \in 0 .. n : stride * h + length <= n}}

\* federation_wide_epoch_event_counts and window_event_counts
WindowCount(events, start, length) ==
    SumOf([e \in start .. start + length - 1 |->
        SumOf([c \in DOMAIN events |-> events[c][e]])])

\* Mutant: one window more.
VolumeThresholdOneMore(counts, fraction) ==
    LET selected == (fraction[1] * Cardinality(DOMAIN counts)) \div fraction[2]
        AtLeast(v) == Cardinality({w \in DOMAIN counts : counts[w] >= v})
    IN  Max({v \in Range(counts) : AtLeast(v) >= selected + 1} \cup {Min(Range(counts))})

\* _top_event_count_threshold: the count in the last of the selected places, and the
\* smallest count when not one whole window is in the fraction.
VolumeThreshold(counts, fraction) ==
    LET selected == (fraction[1] * Cardinality(DOMAIN counts)) \div fraction[2]
        AtLeast(v) == Cardinality({w \in DOMAIN counts : counts[w] >= v})
    IN  IF selected = 0 THEN Min(Range(counts))
        ELSE Max({v \in Range(counts) : AtLeast(v) >= selected})

\* select_high_volume_windows: ties at the border are kept.
HighVolume(counts, fraction) ==
    {w \in DOMAIN counts : counts[w] >= VolumeThreshold(counts, fraction)}

\* _stress_window_false_declaration_rate: the windows with a stop, None without a
\* threshold or a window.
FalseDeclarations(stops, windows, hasThreshold) ==
    IF ~hasThreshold \/ windows = {} THEN None ELSE Cardinality(stops \cap windows)

(***************************************************************************)
(* A seed of the common-mode test, o: the false declarations of the full   *)
(* method and of the raw mean rank in the stress windows (None without a   *)
(* threshold), and the detection rates with and without an outside context *)
(* (None without a campaign).  Floor stands for the floor of denominators. *)
(***************************************************************************)
\* _benign_common_mode_seed_fcr
SeedFcr(o) == IF o.emhi = None \/ o.raw = None THEN None ELSE <<o.emhi, o.raw>>

\* _benign_common_mode_seed_difference
SeedDifference(o) == IF SeedFcr(o) = None THEN None ELSE o.raw - o.emhi

\* _benign_common_mode_positive_power_seed_worker: the power lost and, as a fraction,
\* the share of the false declarations that are suppressed.
SeedPower(o) ==
    IF SeedFcr(o) = None \/ o.with = None \/ o.without = None THEN None
    ELSE [loss |-> o.without - o.with, suppressed |-> <<o.raw - o.emhi + Floor, o.raw + Floor>>]

\* materialize_benign_common_mode_statistic: a seed without a difference is left out.
\* None when there is no record.
CommonMode(outcome) ==
    LET covered == {s \in Expected : SeedDifference(outcome[s]) # None}
        seeds == Ascending(covered)
    IN  IF ~IsComplete(covered) THEN None
        ELSE Tested([k \in DOMAIN seeds |-> SeedDifference(outcome[seeds[k]])])

\* materialize_benign_common_mode_positive_power_measurement
PositivePower(outcome, maximumLoss, minimumSuppressed) ==
    LET covered == {s \in Expected : SeedPower(outcome[s]) # None}
        power == [s \in covered |-> SeedPower(outcome[s])]
        \* the denominators of the suppressed shares, multiplied
        common == ProductOf([s \in covered |-> power[s].suppressed[2]])
        Share(s) == power[s].suppressed[1] * (common \div power[s].suppressed[2])
    IN  IF ~IsComplete(covered) THEN None
        ELSE [units |-> Cardinality(covered),
              lossWithin |-> SumOf([s \in covered |-> power[s].loss])
                                <= maximumLoss * Cardinality(covered),
              suppressionMet |-> SumOf([s \in covered |-> Share(s)]) * minimumSuppressed[2]
                                    >= minimumSuppressed[1] * Cardinality(covered) * common]
-----------------------------------------------------------------------------
(***************************************************************************)
(* materialize_confirmatory_odi_inferences: the records an experiment      *)
(* leaves.  x is its sample; notTested says that its dataset has too few   *)
(* clients or campaigns.  One comparator stands for those of an ablation.  *)
(***************************************************************************)
Inferences(experiment, notTested, x) ==
    LET contrast == Contrast(x, "comparator")
        support == PrimarySupport(x, "comparator", contrast)
    IN  CASE experiment = "primary" /\ notTested -> {}
          [] experiment = "primary" /\ ~notTested ->
                {[contrast |-> contrast, claim |-> support]}
          [] experiment = "order ablation" ->
                {[contrast |-> contrast, claim |-> OrderThreeIsMaterial(contrast)]}
          [] experiment = "exclusion ablation" ->
                {[contrast |-> contrast, claim |-> None]}
=============================================================================

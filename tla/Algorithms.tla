------------------------------- MODULE Algorithms -------------------------------
(***************************************************************************)
(* The pure parts of the program on bounded inputs: the statistics of the  *)
(* seeds, the ranking metrics, the epochs an EMHI fit reads, the choice of *)
(* its ridge penalty, the rank lookups of a worker, the comparators, the   *)
(* local policies, the measurements of the scalability harness, and the    *)
(* generators, samples and claims of the synthetic experiments.  Each      *)
(* action hands one of them an input; a property compares what the program *)
(* computes with what it stands for.                                       *)
(***************************************************************************)
EXTENDS
    SeedStatistics, RankingMetrics, RankStreams, Comparators, TimingMeasurement,
    SyntheticGenerators, SampleRoles, SyntheticStatistics

CONSTANTS
    Deviations, MaxSample,   \* bound: the differences of a sample and their number
    PValues, MaxFamily,      \* bound: the p-values of a family and their number
    Scale,                   \* the p-value of one
    Studies,                 \* bound: what is on disk of the methods and seeds
    Windows,                 \* bound: [epochs, length, stride, fraction]
    EventCounts,             \* bound: the events of a client in an epoch
    Scores, MaxEpochs,       \* bound: the scores of a stream and its epochs
    Fits,                    \* bound: fits of coalitions
    Errors, Tolerances,      \* bound: held-fold errors of the ridge candidates
    MaxCandidates,
    Tasks, MaxTasks,         \* bound: tasks of one worker, as the lookups they make
    Comparisons,             \* bound: ranks, a comparator and its cells
    Factors, Thresholds,     \* bound: evidence factors, and thresholds of the state
    MaxHorizon,              \* bound: epochs of a horizon
    Candidates,              \* bound: comparators to choose the strongest of
    Policies,                \* bound: scores to choose a local policy from
    Layouts,                 \* bound: cuts of a generated stream
    Passes,                  \* bound: measured epochs and their policies
    Rows, MaxRows,           \* bound: measured latencies of seeds, and their number
    Effects,                 \* bound: generators and their effects
    Explanations,            \* bound: cells of the self-explanation grid and their draws
    Worlds,                  \* bound: how far the fits of a feasibility seed get
    Sizes,                   \* bound: the sizes of a synthetic experiment
    Dropouts,                \* bound: targets and masks of their clients
    Paths,                   \* bound: coalitions with a drift
    Claims                   \* bound: observations of a synthetic experiment

\* A fit is of one coalition of the selected clients, and its rows have an order.
ASSUME FitsAssumption ==
    /\ \A f \in Fits :
        /\ DOMAIN f = {"ranks", "method", "coalition", "order", "lag", "heldLag", "route", "purified",
                       "forced"}
        /\ DOMAIN f.ranks = Clients
        /\ f.method \in {"exact", "forced", "shuffled", "inclusive", "leave_one_out", "partial",
                         "local_history", "no_outside"}
        /\ f.coalition \subseteq Clients
        /\ f.forced \in BOOLEAN
        /\ LET rows == Coalitions(Order(f.coalition)) \X Range(Nuisance)
           IN  \A x \in rows :
                /\ f.order[x] \in Int
                /\ \A y \in rows : f.order[x] = f.order[y] => x = y
    /\ Errors \subseteq Int /\ Tolerances \subseteq Nat /\ MaxCandidates \in Nat

\* Scores are compared, events are counted; no more than all windows are selected, as
\* _top_event_count_threshold requires.
ASSUME RankingsAssumption ==
    /\ Scores \subseteq Int /\ EventCounts \subseteq Nat
    /\ \A w \in Windows :
        /\ w.epochs \in Nat /\ w.length \in Nat /\ w.stride \in Nat
        /\ w.fraction \in (Nat \ {0}) \X (Nat \ {0}) /\ w.fraction[1] <= w.fraction[2]

\* A client count is timed on a stream cut by the counts of the configuration.
ASSUME TimingAssumption ==
    /\ \A t \in Layouts : IsLayout(t)
    /\ \A x \in Passes : IsPass(x)

\* A comparator reads streams of ranks, at the epoch before the one it scores as EMHI does
\* (the check of lag semantics of evaluation/validation.py), and orders all cells by their
\* distance; evidence and its thresholds are numbers.
ASSUME ComparatorsAssumption ==
    /\ Lag = 1 /\ Drift \in Int /\ Whole \in Nat \ {0} /\ AcceptedStops \in Int /\ MaxHorizon \in Nat
    /\ Nothing \notin Int
    /\ Factors \subseteq Nat /\ Thresholds \subseteq Int /\ IsFiniteSet(Thresholds)
    /\ \A x \in Comparisons :
        /\ DOMAIN x.ranks = Clients
        /\ \A c \in Clients :
            /\ DOMAIN x.ranks[c] \subseteq Int /\ IsFiniteSet(DOMAIN x.ranks[c])
            /\ \A e \in DOMAIN x.ranks[c] : x.ranks[c][e] \in Int \cup {Nothing}
        /\ \A h \in [Bins -> 0 .. Cardinality(Clients)] :
            x.nearest[h] \in Seq(Cells) /\ Cells \subseteq Range(x.nearest[h])

\* The workers of a pool share the tasks of one experiment.
ASSUME TasksAssumption ==
    \A pool \in Tasks :
        \/ \A task \in pool : \E seed \in Expected : task = Evaluation(seed)
        \/ \A task \in pool : \E seed \in Expected : task = Dropout(seed)

VARIABLE case

vars == <<case>>

Samples == UNION {[1 .. n -> Deviations] : n \in 1 .. MaxSample}

Kinds ==
    {"differences", "family", "sample", "robustness", "windows", "metrics", "fit", "ridge",
     "lookups", "comparison", "backend", "composition", "policy", "layout", "repetitions",
     "latencies", "generator", "derivatives", "reuse", "roles", "dropout", "path",
     "claims"}

\* An input of a kind is about to be chosen.
Waiting(kind) == [kind |-> "waiting", for |-> kind]

Init == \E kind \in Kinds : case = Waiting(kind)

\* sign_flip_p_value of paired differences
Differ ==
    /\ case = Waiting("differences")
    /\ \E d \in Samples : case' = [kind |-> "differences", d |-> d]

\* fixed_holm_family
Correct ==
    /\ case = Waiting("family")
    /\ \E n \in 1 .. MaxFamily : \E p \in [1 .. n -> PValues \cup {None}] :
        case' = [kind |-> "family", p |-> p]

\* materialize_primary_strict_odi_support and the contrast it reads
Summarise ==
    /\ case = Waiting("sample")
    /\ \E x \in Studies : case' = [kind |-> "sample", x |-> x]

\* materialize_benign_common_mode_statistic and ..._positive_power_measurement: the
\* thresholds and campaigns of a method and seed are there or not.
Robust ==
    /\ case = Waiting("robustness")
    /\ \E o \in [Expected -> [emhi: {0, 1, None}, raw: {0, 2}, with: {0, 1, None}, without: {1}]] :
        case' = [kind |-> "robustness", outcome |-> o]

\* select_high_volume_windows
Stress ==
    /\ case = Waiting("windows")
    /\ \E w \in Windows : \E events \in [Clients -> [1 .. w.epochs -> EventCounts]] :
        case' = [kind |-> "windows", window |-> w, events |-> events]

\* detector_ranking_metrics
Measure ==
    /\ case = Waiting("metrics")
    /\ \E n \in 1 .. MaxEpochs :
        \E scores \in [1 .. n -> Scores], labels \in [1 .. n -> BOOLEAN] :
            case' = [kind |-> "metrics", scores |-> scores, labels |-> labels]

\* build_emhi_fit_artifact
FitCoalition ==
    /\ case = Waiting("fit")
    /\ \E f \in Fits : case' = [kind |-> "fit", f |-> f]

\* select_ridge_penalty
Penalise ==
    /\ case = Waiting("ridge")
    /\ \E n \in 1 .. MaxCandidates, t \in Tolerances : \E mse \in [1 .. n -> Errors] :
        case' = [kind |-> "ridge", mse |-> mse, tolerance |-> t]

\* A worker of a pool, forked with an empty or a filled cache, runs some of the tasks of
\* an experiment: whichever the other workers leave to it.
LookUp ==
    /\ case = Waiting("lookups")
    /\ \E pool \in Tasks : \E n \in 1 .. MaxTasks : \E t \in [1 .. n -> pool] :
        \E inherited \in {Nobody} \cup {task[Len(task) - 1] : task \in pool} :
            case' = [kind |-> "lookups", requests |-> FlattenSeq(t), inherited |-> inherited]

\* The pure-order grid of a method and seed.
LookUpPureOrder ==
    /\ case = Waiting("lookups")
    /\ \E seed \in Expected :
        case' = [kind |-> "lookups", requests |-> PureOrderGrid(seed, "full"), inherited |-> Nobody]

\* comparator_epoch_scores
Compare ==
    /\ case = Waiting("comparison")
    /\ \E x \in Comparisons : case' = [kind |-> "comparison", x |-> x]

\* calibrate_comparator_operating_point over evidence at some of the epochs
Calibrate ==
    /\ case = Waiting("backend")
    /\ \E S \in SUBSET (1 .. MaxHorizon) : \E factors \in [S -> Factors] :
        case' = [kind |-> "backend", factors |-> factors]

\* build_composition_selection_record
Compose ==
    /\ case = Waiting("composition")
    /\ \E x \in Candidates : case' = [kind |-> "composition", x |-> x]

\* calibrate_client_local_operating_point
CalibrateLocally ==
    /\ case = Waiting("policy")
    /\ \E x \in Policies : case' = [kind |-> "policy", x |-> x]

\* generate_epoch_client_scores and the ranges of a client count
LayOut ==
    /\ case = Waiting("layout")
    /\ \E t \in Layouts : case' = [kind |-> "layout", t |-> t]

\* collect_scalability_measurements
Repeat ==
    /\ case = Waiting("repetitions")
    /\ \E x \in Passes : case' = [kind |-> "repetitions", x |-> x]

\* summarize_scalability
SummariseLatencies ==
    /\ case = Waiting("latencies")
    /\ \E n \in 1 .. MaxRows : \E rows \in [1 .. n -> Rows] :
        case' = [kind |-> "latencies", rows |-> rows]

\* sample_generator_row
Generate ==
    /\ case = Waiting("generator")
    /\ \E x \in Effects : case' = [kind |-> "generator", x |-> x]

\* evaluate_self_explanation_seed
Explain ==
    /\ case = Waiting("derivatives")
    /\ \E x \in Explanations : case' = [kind |-> "derivatives", x |-> x]

\* evaluate_estimator_feasibility_seed
Assess ==
    /\ case = Waiting("reuse")
    /\ \E w \in Worlds : case' = [kind |-> "reuse", world |-> w]

\* The draws of the cells of the synthetic experiments.
AssignRoles ==
    /\ case = Waiting("roles")
    /\ \E p \in Sizes : case' = [kind |-> "roles", p |-> p]

\* _dropout_sparsity_record
DropOut ==
    /\ case = Waiting("dropout")
    /\ \E x \in Dropouts : case' = [kind |-> "dropout", x |-> x]

\* evaluate_fitted_pure_order_grid
FollowPath ==
    /\ case = Waiting("path")
    /\ \E x \in Paths : case' = [kind |-> "path", x |-> x]

\* The records of the synthetic experiments.
Claim ==
    /\ case = Waiting("claims")
    /\ \E x \in Claims : case' = [kind |-> "claims", x |-> x]

Next ==
    \/ Differ
    \/ Correct
    \/ Summarise
    \/ Robust
    \/ Stress
    \/ Measure
    \/ FitCoalition
    \/ Penalise
    \/ LookUp
    \/ Compare
    \/ Calibrate
    \/ Compose
    \/ CalibrateLocally
    \/ LayOut
    \/ Repeat
    \/ SummariseLatencies
    \/ Generate
    \/ Explain
    \/ Assess
    \/ AssignRoles
    \/ DropOut
    \/ FollowPath
    \/ Claim

Spec == Init /\ [][Next]_vars

\* The lookups of the pure-order experiment alone.
PureOrderSpec == Init /\ [][LookUpPureOrder]_vars
-----------------------------------------------------------------------------
(***************************************************************************)
(* Statistics.                                                             *)
(***************************************************************************)
\* The sign-flip test holds its level exactly: when the signs of the differences are
\* arbitrary, a p-value of at most c out of 2^n comes up for at most c of the 2^n
\* assignments of signs.
SignTestIsExact ==
    case.kind = "differences" =>
        LET n == Len(case.d)
            count == [k \in Assignments(n) |-> ExtremeCount(Flipped(case.d, k))]
        IN  \A c \in 1 .. 2^n : Cardinality({k \in Assignments(n) : count[k] <= c}) <= c

Inputs(p, q) == [i \in DOMAIN p |-> IF p[i] = None THEN q[i] ELSE p[i]]

\* Holm's step-down adjustment is the closure of the Bonferroni tests, ties included:
\* a hypothesis is rejected when every set of hypotheses it belongs to is.
HolmIsClosedTesting ==
    case.kind = "family" =>
        LET p == Inputs(case.p, [i \in DOMAIN case.p |-> Scale])
        IN  Adjusted(p, Scale) = ClosedAdjusted(p, Scale)

\* A hypothesis that was not tested never helps the others: whatever its p-value would
\* have been, no other would have been adjusted to a larger one.
UntestedIsConservative ==
    case.kind = "family" =>
        LET untested == {i \in DOMAIN case.p : case.p[i] = None}
            family == HolmFamily(case.p, Scale)
        IN  \A q \in [untested -> PValues] : \A i \in DOMAIN case.p \ untested :
                Adjusted(Inputs(case.p, q), Scale)[i] <= family[i]

\* What is claimed of an experiment rests on a test: the support record of the primary
\* experiment, which decides on completeness and operating points anew and over other
\* seeds, and the outcome on order three never claim more than a contrast that was tested.
SupportRestsOnATest ==
    case.kind = "sample" =>
        \A experiment \in {"primary", "order ablation", "exclusion ablation"}, notTested \in BOOLEAN :
            \A r \in Inferences(experiment, notTested, case.x) :
                r.claim = TRUE => r.contrast.p # None

Suffice(units) == units >= Cardinality(Expected) - Tolerance

\* No p-value and no measurement is over fewer seeds than the tolerance for missing cells
\* allows, whichever of the seeds' files are there, and the power of the common-mode
\* experiment is never reported without its test or over more seeds than it.
TestsRestOnCompleteSamples ==
    /\ case.kind = "sample" =>
        /\ \A r \in {Contrast(case.x, "comparator"), StrongLocal(case.x, FALSE)} \ {None} :
                r.p # None => Suffice(r.units)
        /\ LET dev == [m \in DOMAIN case.x |-> <<0>>]
               level == SeedLevel(case.x, dev)
           IN  \A m \in DOMAIN level : Suffice(level[m].units - 1)
    /\ case.kind = "robustness" =>
        LET test == CommonMode(case.outcome)
            power == PositivePower(case.outcome, 1, <<1, 2>>)
        IN  /\ test # None => Suffice(test.units)
            /\ power # None => test # None /\ power.units <= test.units

Counts(w, events) ==
    [s \in WindowStarts(w.epochs, w.length, w.stride) |-> WindowCount(events, s, w.length)]

\* The stress windows are the smallest set of windows that is closed upwards in the
\* number of events and holds the configured fraction of them.
WindowsAreTheTopFraction ==
    case.kind = "windows" =>
        LET w == case.window
            counts == Counts(w, case.events)
            high == HighVolume(counts, w.fraction)
            selected == (w.fraction[1] * Cardinality(DOMAIN counts)) \div w.fraction[2]
            lowest == Min({counts[s] : s \in high})
        IN  selected > 0 =>
                /\ \A s \in high, t \in DOMAIN counts \ high : counts[s] > counts[t]
                /\ Cardinality(high) >= selected
                /\ Cardinality({s \in high : counts[s] > lowest}) < selected

\* The area under the ROC curve is the share of pairs of epochs that are ranked rightly,
\* ties counting half.
AurocIsPairwise ==
    case.kind = "metrics" /\ IsDefined(case.labels) =>
        LET a == Auroc(case.scores, case.labels)
            b == PairwiseAuroc(case.scores, case.labels)
        IN  a[1] * b[2] = b[1] * a[2]

\* The average precision does not depend on the order of tied epochs: it is the mean
\* over the epochs of campaigns of the precision among all that score as much.
AuprcIsMeanPrecision ==
    case.kind = "metrics" /\ IsDefined(case.labels) =>
        Auprc(case.scores, case.labels, 12) = MeanPrecision(case.scores, case.labels, 12)
-----------------------------------------------------------------------------
(***************************************************************************)
(* The fit.                                                                *)
(***************************************************************************)
\* The ranks without those at the epochs of S.
Without(r, S) == [c \in DOMAIN r |-> [e \in DOMAIN r[c] |-> IF e \in S THEN Nothing ELSE r[c][e]]]

\* Cross-fitting: what a cell of a fold is trained on does not change when the ranks of
\* the held epochs are taken away, in spite of the lag and of the rows that are sampled.
TrainingNeverReadsHeldEpochs ==
    case.kind = "fit" =>
        \A fold \in Fold, cell \in CellsOf(case.f.method) :
            TrainingCell([case.f EXCEPT !.ranks = Without(case.f.ranks, HeldEpochs(fold))], fold, cell)
                = TrainingCell(case.f, fold, cell)

\* Without forced assignment the moments of the cells are over disjoint held epochs.
HeldEpochsCountOnce ==
    case.kind = "fit" /\ ~case.f.forced =>
        \A fold \in Fold : \A one, other \in CellsOf(case.f.method) :
            one # other => HeldInnovations(case.f, fold, one) \cap HeldInnovations(case.f, fold, other) = {}

\* Of the epochs of the fit, a cell scores those it was fitted on: the context, the
\* members and the abstention of the fit and of the scoring are implemented twice.
ScoringRoutesAsFitted ==
    case.kind = "fit" /\ ~case.f.forced =>
        LET f == case.f
            fitted == FittedCells(f)
            scored == [e \in Range(Nuisance) |-> ScoredBy(f, fitted, e, f.lag[CrossFolds])]
        IN  \A cell \in CellsOf(f.method) :
                {e \in Range(Nuisance) : scored[e] = cell}
                    = IF cell \in fitted THEN ConditionedRows(f, FitEpochs(f, cell)) ELSE {}

\* The rows are sampled among those that can be built, so that the sample is not
\* silently smaller than the limit allows.
SelectedRowsAreTrained ==
    case.kind = "fit" /\ case.f.method # "no_outside" =>
        LET f == case.f
            k == Order(f.coalition)
        IN  \A fold \in 0 .. CrossFolds :
                LET epochs == IF fold = CrossFolds THEN Range(Nuisance) ELSE TrainingEpochs(fold)
                    permitted == IF fold = CrossFolds THEN Nothing ELSE epochs
                IN  Cardinality(TrainingRows(f.ranks, f.method, k, epochs, f.lag[fold], permitted, f.order))
                      = Min({RowLimit, Cardinality({x \in Coalitions(k) \X epochs :
                                ContextRow(f.ranks, f.method, x[1], x[2], f.lag[fold], permitted) # Nothing})})

\* The ridge penalty is the largest one whose error is within the tolerance of the least:
\* ties do not add up along the candidates.
RidgeTiesGoToTheLargest ==
    case.kind = "ridge" =>
        LET least == Min(Range(case.mse))
        IN  SelectRidge(case.mse, case.tolerance)
                = Max({i \in DOMAIN case.mse : case.mse[i] <= least + case.tolerance})
-----------------------------------------------------------------------------
\* Scoring reads the ranks of the artifact it is given, whatever the process looked up
\* before.
LookedUpRanksAreThoseAsked ==
    case.kind = "lookups" => ServesWhatIsAsked(case.requests, case.inherited)
-----------------------------------------------------------------------------
(***************************************************************************)
(* Comparators and local policies.                                         *)
(***************************************************************************)
\* The epochs after e.
Later(r, e) == {d \in UNION {DOMAIN r[c] : c \in Clients} : d > e}

\* A comparator does not look ahead: the ranks after an epoch that is not fitted on change
\* neither its score nor what its evidence is computed from, conditioning, the running
\* statistic of the CUSUM and gaps of clients included.
ComparatorScoresReadThePast ==
    case.kind = "comparison" =>
        LET Scored(r) == EpochScores(r, case.x.method, case.x.nearest)
            now == Scored(case.x.ranks)
        IN  \A e \in {d \in DOMAIN now : \A n \in Range(Nuisance) : n < d}, standardized \in BOOLEAN :
                LET past == Scored(Without(case.x.ranks, Later(case.x.ranks, e)))
                    Evidence(scores) == EvidenceScores(scores, standardized)
                IN  ~EvidenceFails(now) /\ e \in DOMAIN Evidence(now) =>
                        /\ ~EvidenceFails(past)
                        /\ e \in DOMAIN Evidence(past) /\ Evidence(past)[e] = Evidence(now)[e]

\* The comparators that are called exclusion-matched see the context of EMHI: where the
\* epoch of the lag has a row it is the same histogram of the same clients, or both abstain.
ComparatorsSeeTheContextOfEmhi ==
    case.kind = "comparison" /\ case.x.method \in DOMAIN NativeOrder =>
        LET r == case.x.ranks
            k == NativeOrder[case.x.method]
        IN  \A e \in CommonEpochs(r) :
                e - Lag \in CommonEpochs(r) =>
                    PanelContext(r, k, e)
                        = ContextRow(r, "exact", MembersOf(k), e, LaggedEpoch({e}), Nothing)

\* The CUSUM of a client is the largest sum of increments over the epochs up to now.
CusumIsTheLargestRecentSum ==
    case.kind = "comparison" =>
        LET r == case.x.ranks
            epochs == CommonEpochs(r)
        IN  \A c \in Clients : \A e \in epochs :
                Cusum(epochs, r[c])[e]
                    = Max({SumOver({d \in epochs : from <= d /\ d <= e}, LAMBDA d : 2 * r[c][d] - Drift) :
                            from \in epochs \cup {e + 1}})

Halves == <<[e \in 1 .. MaxHorizon \div 2 |-> e],
            [e \in 1 .. MaxHorizon - MaxHorizon \div 2 |-> e + MaxHorizon \div 2]>>

\* Comparators are held to the backend of EMHI: over the same evidence both stop at the
\* same epoch, a comparator without a score at some epochs never earlier, and the
\* threshold that is calibrated is the least of those with no more false stops.
BackendIsShared ==
    case.kind = "backend" =>
        LET epochs == [e \in 1 .. MaxHorizon |-> e]
            point == ComparatorPoint(case.factors, Halves, Halves, Thresholds)
        IN  /\ \A h \in Thresholds :
                LET emhi == EmhiStop(case.factors, epochs, h)
                    comparator == ComparatorStop(case.factors, epochs, h)
                IN  /\ DOMAIN case.factors = Range(epochs) => comparator = emhi
                    /\ comparator # Nothing => emhi # Nothing /\ emhi <= comparator
            /\ point.threshold # Nothing =>
                /\ point.heldout <= AcceptedStops
                /\ \A h \in Thresholds :
                    ComparatorFalseStops(case.factors, Halves, h) <= AcceptedStops
                        <=> h >= point.threshold

\* The strongest comparator is eligible, its error is as near to the least one as its
\* rivals are many, and when being within the tolerances is transitive it is the one the
\* rule names: the first name among the fastest among those of least error.
CompositionStaysNearTheBest ==
    case.kind = "composition" =>
        LET eligible == {x \in Range(case.x) : IsEligible(x)}
            tolerance == [error |-> 1, runtime |-> 1]
            selected == Composition(case.x, tolerance)
            Near(field, x, y) == x[field] - y[field] \in -tolerance[field] .. tolerance[field]
            Ties(field) == {p \in eligible \X eligible : Near(field, p[1], p[2])}
            IsTransitive(field) ==
                \A p \in Ties(field), q \in Ties(field) : p[2] = q[1] => Near(field, p[1], q[2])
            Best(field, S) == {x \in S : \A y \in S : x[field] <= y[field] + tolerance[field]}
        IN  /\ selected = Nothing <=> eligible = {}
            /\ eligible # {} =>
                /\ selected \in eligible
                /\ \A x \in eligible :
                    selected.error <= x.error + (Cardinality(eligible) - 1) * tolerance.error
                /\ IsTransitive("error") /\ IsTransitive("runtime") =>
                    LET best == Best("runtime", Best("error", eligible))
                    IN  selected \in best /\ \A x \in best : selected.name <= x.name

\* The local policy is the least stringent one that passes: no other that passes has a
\* lower threshold, and with the same threshold none stops in more of the held-out
\* horizons, although policies are ordered by their numbers and not by how often they stop.
LocalPolicyIsLeastStringent ==
    case.kind = "policy" =>
        LET x == case.x
            thresholds == {Quantile(SortSeq(x.nuisance, <), q) : q \in x.quantiles}
            passing == {p \in CandidatePolicies(thresholds, x.persistence) :
                            FalseStopCount(x.calibration, p, x.scale) <= AllowedStops}
            point == LocalPoint(x)
        IN  /\ point.policy = NoPolicy <=> passing = {}
            /\ \A p \in passing :
                \/ p.threshold > point.policy.threshold
                \/ /\ p.threshold = point.policy.threshold
                   /\ FalseStopCount(x.heldout, p, x.scale) <= point.heldout
-----------------------------------------------------------------------------
(***************************************************************************)
(* The scalability harness.                                                *)
(***************************************************************************)
\* What is fitted, calibrated, warmed up and measured are epochs of their own, none is
\* beyond the end of the stream, and each calibration horizon follows a warm-up that
\* belongs to nothing else.
TimedEpochsAreFresh ==
    case.kind = "layout" =>
        LET t == case.t
            horizons == [i \in 0 .. t.horizons - 1 |-> CalibrationHorizon(t, i)]
            warmups == [i \in 0 .. t.horizons - 1 |->
                            Min(horizons[i]) - t.warmup .. Min(horizons[i]) - 1]
            roles == <<DetectorFitRange(t), NuisanceRange(t), WarmupRange(t), MeasuredRange(t)>>
                        \o [i \in 1 .. t.horizons |-> horizons[i - 1]]
                        \o [i \in 1 .. t.horizons |-> warmups[i - 1]]
        IN  /\ \A i, j \in DOMAIN roles : i # j => roles[i] \cap roles[j] = {}
            /\ UNION Range(roles) = 0 .. TotalEpochs(t) - 1

\* A repetition measures what the others measure, and in it a client's policy triggers at
\* some epoch just when the evaluation of the same scores says that it stops.
RepetitionsAreAlike ==
    case.kind = "repetitions" =>
        LET x == case.x
            paths == Repetitions(x)
        IN  \A n \in DOMAIN paths : \A c \in {d \in DOMAIN x.scores : x.policies[d] # NoPolicy} :
                (\E e \in DOMAIN paths[n] : Triggered(paths[n][e].seen[c], x.policies[c]))
                    <=> StopsLocally(Exceedances(x.scores[c], x.policies[c].threshold, 1), x.policies[c])

\* The latency target is met only if enough seeds have enough epochs within it, although
\* both quantiles are interpolated.
LatencyTargetHoldsForSeeds ==
    case.kind = "latencies" =>
        \A q \in {<<1, 2>>, <<3, 4>>, <<1, 1>>} : \A limit \in 1 .. 2 :
            LatencyMeetsTarget(case.rows, q, limit) => EnoughSeedsAreFast(case.rows, q, limit)
-----------------------------------------------------------------------------
(***************************************************************************)
(* The synthetic experiments.                                              *)
(***************************************************************************)
\* The coalitions whose interaction the rows of a law carry.
Carried(law) ==
    {A \in SUBSET (1 .. 3) \ {{}} : Plus([u \in Corners |-> law[u] * Product(u, A)]) # 0}

\* The rows of a generator carry just the interactions it is named after, although it
\* only decides which proposals are rejected: no proper subset of the clients of a pure
\* order betrays it.  (The context-dependent triple is left out, which carries a pair: one
\* seed draws its state and its ranks.)  Effects that pass the purity check can be sampled.
GeneratorsCarryTheirOrders ==
    case.kind = "generator" =>
        LET generator == case.x.generator
            law == SampleGeneratorRow(generator, case.x.effect)
        IN  /\ law # Unset /\ case.x.effect # 0 /\ generator # "context" =>
                /\ Carried(law) = {1 .. k : k \in EnabledOrders[generator]}
                /\ generator # "one_two" => 1 .. TargetOrder(generator) \in Carried(law)
            /\ generator \in PureGenerators => (PurityFailures({case.x}) = {} <=> law # Unset)

\* Only a context without members of the coalition keeps the nuisance free of what the
\* coalition does, through every transform and the lag; otherwise, where the transform is
\* linear, it takes over the members' share of the context, and nothing is ever attenuated
\* below zero.
OnlyExclusionShieldsTheNuisance ==
    case.kind = "derivatives" =>
        LET cell == case.x.cell
            d == Derivatives(cell, case.x.latent, SubSeq(case.x.noise, 1, cell.clients))
            coalition == 1 .. cell.order
            context == ContextIndices(cell.method, cell.clients, cell.order)
            IsShielded ==
                \/ cell.method \in {"exact", "oracle"}
                \/ cell.method = "partial" /\ cell.order = 1
        IN  /\ Attenuation(d) >= 0
            /\ IsShielded => d.nuisance = 0 /\ Attenuation(d) = 0
            /\ cell.transform = "linear" =>
                d.nuisance * Cardinality(context) = Cardinality(coalition \cap context) * d.direct

\* A condition that takes over the metrics of another gets those it would have computed,
\* whichever fits raise, find no support or fail before it.
BaselineReuseIsExact ==
    case.kind = "reuse" =>
        EvaluateSeed(case.world, Conditions)
            = [i \in DOMAIN Conditions |-> EvaluateCondition(case.world, Conditions[i])]

\* No sample of a cell has two roles, whatever conditions cannot be fitted, and where rows
\* are the epochs of a stream neither has an epoch whose context is read: the horizon and
\* the epoch before it are of one block.  Comparators are selected and evaluated on the
\* same nuisance and reference rows.
SampleRolesAreDisjoint ==
    case.kind = "roles" =>
        LET p == case.p
            AreDisjoint(roles) ==
                \A i, j \in DOMAIN roles : i # j => roles[i].samples \cap roles[j].samples = {}
            Contexts(role) == {e - Lag : e \in role.samples}
        IN  /\ \A fates \in [1 .. 2 -> {"fitted", "unfitted"}] : AreDisjoint(HofdRoles(p, fates))
            /\ \A roles \in {CandidateRoles(p), ComparatorPureOrderRoles(p), PureOrderRoles(p)} :
                AreDisjoint(roles)
            /\ SubSeq(CandidateRoles(p), 1, 2) = StrongComparatorRoles(p)
            /\ \A roles \in {ContaminationRoles(p, 2), DropoutRoles(p), CommonModeRoles(p)} :
                /\ AreDisjoint(roles)
                /\ \A i, j \in DOMAIN roles :
                    roles[i].role \in {"calibration", "held out", "campaign"} /\ i # j =>
                        Contexts(roles[i]) \cap roles[j].samples = {}
            /\ \A role \in Range(Tail(CommonModeRoles(p))) :
                BlockStarts(p) \cap Min(Contexts(role)) + 1 .. Max(role.samples) = {}

\* The epochs of a dropout condition at which the coalition is scored.
ScoredUnder(x) ==
    LET r == [c \in Clients |-> [e \in 0 .. Max(DOMAIN x.masks) |-> e % 2]]
    IN  ScoredEpochs(FilteredStreams(r, x.masks), x.target, DOMAIN x.masks)

\* The context coverage that is reported of a dropout condition, and with it the
\* abstention, is that of the epochs the coalition is scored at while the clients that are
\* there stay the same.  (At the epochs at which they change it is not: the mask is counted
\* at the epoch itself, not at that of the context.)
SteadyCoverageIsOfScoredEpochs ==
    case.kind = "dropout" =>
        LET Mask(e) == IF e \in DOMAIN case.x.masks THEN case.x.masks[e] ELSE Clients
        IN  \A e \in DOMAIN case.x.masks : Mask(e) = Mask(e - Lag) =>
                (e \in CoveredEpochs(case.x.target, case.x.masks) <=> e \in ScoredUnder(case.x))

\* A path is complete just when the method is not made for the order, or every coalition
\* within the target has a drift: drifts are counted, not looked up.
PureOrderPathIsComplete ==
    case.kind = "path" =>
        LET maximum == MethodOrder[case.x.method]
        IN  PureOrderPath(case.x.order, maximum, case.x.drifts)
                <=> case.x.order > maximum \/ SUBSET (1 .. case.x.order) \ {{}} \subseteq case.x.drifts

\* The evidence process that the synthetic experiments implement once more stops where
\* that of EMHI does, is calibrated to the same threshold, and starts anew with each
\* trajectory.  The divergence of two trajectories bounds how far their stops are apart,
\* and when it is zero the two methods have no difference that is reported.
SyntheticBackendAgrees ==
    case.kind = "backend" /\ DOMAIN case.factors = 1 .. MaxHorizon =>
        LET n == MaxHorizon \div 2
            Stop(from, h) == EmhiStop(case.factors, [i \in 1 .. n |-> from + i], h)
            left == SubSeq(case.factors, 1, n)
            right == SubSeq(case.factors, n + 1, 2 * n)
            divergence == MaxDivergence(left, right)
        IN  /\ CalibrateThreshold(<<left, right>>, <<left, right>>, Thresholds)
                    = ComparatorPoint(case.factors, Halves, Halves, Thresholds)
            /\ \A h \in Thresholds :
                LET first == Stop(0, h)
                    second == Stop(IF first = Nothing THEN n ELSE first, h)
                    late == FirstStop(right, h + divergence)
                IN  /\ RestrictedStop(left, h) = IF first = Nothing THEN <<n, FALSE>> ELSE <<first, TRUE>>
                    /\ SignedTrajectories(case.factors, n, 2, h).stopped
                            = Len(SelectSeq(<<first, second>>, LAMBDA stop : stop # Nothing))
                    /\ late # Nothing =>
                        FirstStop(left, h) # Nothing /\ FirstStop(left, h) <= late
                    /\ LET point == [threshold |-> h, heldout |-> 0]
                           metric == HofdCondition(<<<<left, right>>, <<right, right>>>>, point, point)
                       IN  divergence = 0 =>
                            metric.divergence = 0 /\ metric.detection = 0 /\ metric.stop \in {0, Nothing}

\* What is claimed of a synthetic experiment is of all the seeds, but for the tolerance,
\* and of each of them at every condition and with an operating point.
SyntheticClaimsAreComplete ==
    case.kind = "claims" =>
        LET o == case.x.o
            c == Confirmatory(o)
            experiment == case.x.experiment
        IN  IF experiment = "composition"
            THEN LET selected == CompositionSelection(o, case.x.methods)
                 IN  selected # None =>
                        \A s \in Range(Development) :
                            \E x \in Range(o) : /\ x.method = selected.name /\ x.seed = s
                                                /\ x.threshold # None
            ELSE LET claim == ClaimOf(experiment, o)
                 IN  claim # None /\ claim.meets =>
                        /\ Cardinality(Expected \ ObservedSeeds(c)) <= Tolerance
                        /\ experiment = "equivalence" =>
                            \A x \in Range(c) : \A condition \in HofdConditions :
                                condition \in DOMAIN x.conditions /\ x.conditions[condition].pfa
                        /\ experiment = "finite horizon" => \A x \in Range(c) : x.threshold # None

\* What a seed leaves that fails: without a condition, with favourable zeros, without a
\* threshold.
Failed(experiment, x) ==
    CASE experiment = "equivalence" -> [x EXCEPT !.conditions = <<>>]
      [] experiment = "feasibility" ->
            [x EXCEPT !.coverage = 0, !.nrmse = 0, !.bias = 0, !.failure = TRUE]
      [] experiment = "finite horizon" -> [x EXCEPT !.threshold = None, !.upper = None]

\* A seed that fails never turns a claim that is not made into one that is.
NoFailureHelps ==
    case.kind = "claims" /\ case.x.experiment \in {"equivalence", "feasibility", "finite horizon"} =>
        LET o == case.x.o
            Meets(observations) ==
                LET claim == ClaimOf(case.x.experiment, observations) IN claim # None /\ claim.meets
        IN  \A i \in DOMAIN o :
                Meets([o EXCEPT ![i] = Failed(case.x.experiment, o[i])]) => Meets(o)

-----------------------------------------------------------------------------
(***************************************************************************)
(* What the run checks: one statement of each kind of computation.         *)
(***************************************************************************)
\* The statistics of the seeds (statistics.py, seed_statistics.py, results.py): the tests
\* hold their level, alone and in a family, and nothing is claimed of too few seeds.
StatisticsAreSound ==
    /\ SignTestIsExact
    /\ HolmIsClosedTesting
    /\ UntestedIsConservative
    /\ SupportRestsOnATest
    /\ TestsRestOnCompleteSamples

\* What ranks and thresholds with ties (metrics.py, robustness.py) does not depend on the
\* order of what is tied.
RankingsAreRight ==
    /\ WindowsAreTheTopFraction
    /\ AurocIsPairwise
    /\ AuprcIsMeanPrecision

\* A fit (emhi/calibration.py) reads, holds out and later scores the epochs it says, and
\* as many as it may.
FitsDoNotLeak ==
    /\ TrainingNeverReadsHeldEpochs
    /\ HeldEpochsCountOnce
    /\ ScoringRoutesAsFitted
    /\ SelectedRowsAreTrained
    /\ RidgeTiesGoToTheLargest

\* The comparators (comparators/) are held to what EMHI is held to: the past, the same
\* context, the same backend.
ComparatorsAreComparable ==
    /\ ComparatorScoresReadThePast
    /\ ComparatorsSeeTheContextOfEmhi
    /\ CusumIsTheLargestRecentSum
    /\ BackendIsShared

\* What is timed (evaluation/scalability.py) is epochs that nothing was fitted on, the same
\* in each repetition.
TimingsAreFair ==
    /\ TimedEpochsAreFresh
    /\ RepetitionsAreAlike

\* What is chosen by tolerances, orders and quantiles: the strongest comparator (comparators/
\* fusion.py) is nearly the best, the local policy (detection.py) the least stringent one
\* that meets its target, and enough seeds are fast when the latency target is met
\* (evaluation/scalability.py).
ChoicesAreJustified ==
    /\ CompositionStaysNearTheBest
    /\ LocalPolicyIsLeastStringent
    /\ LatencyTargetHoldsForSeeds

\* The cells of the synthetic experiments (synthetic/, experiments/synthetic.py): samples
\* carry the orders they are named after, keep the coalition out of its nuisance where they
\* are said to and share nothing between roles; a condition that takes over results, and
\* the evidence process written once more, give what the originals would.
SyntheticCellsAreAsDeclared ==
    /\ GeneratorsCarryTheirOrders
    /\ OnlyExclusionShieldsTheNuisance
    /\ BaselineReuseIsExact
    /\ SampleRolesAreDisjoint
    /\ SteadyCoverageIsOfScoredEpochs
    /\ SyntheticBackendAgrees

=============================================================================

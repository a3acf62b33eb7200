--------------------------- MODULE SyntheticStatistics ---------------------------
(***************************************************************************)
(* What the synthetic experiments claim of the observations of their seeds *)
(* (experiments/synthetic_execution.py, materialize_...).                  *)
(*                                                                         *)
(* An observation has a role, a seed and the metrics of its experiment, in *)
(* whole numbers; the observations of an experiment are a sequence.  None  *)
(* is a record that is not written, a threshold that could not be          *)
(* calibrated and a difference of stopping times that does not exist.  The *)
(* bootstrap interval of a mean, which lies between the least and the      *)
(* largest value of the sample, is taken to be all of that.                *)
(***************************************************************************)
EXTENDS SeedStatistics, Comparators

CONSTANTS
    Development,     \* the development roots, in order
    HofdConditions,  \* orders and primary support levels
    Limits           \* what the study regards as material

Confirmatory(o) == SelectSeq(o, LAMBDA x : x.role = "confirmatory")

ObservedSeeds(o) == {o[i].seed : i \in DOMAIN o}

\* confirmatory_completeness_within_tolerance of the observations
AreComplete(o) == IsComplete(ObservedSeeds(Confirmatory(o)))

ValuesOf(o, field) == [i \in DOMAIN o |-> o[i][field]]

\* The mean of a sample is at most, or at least, a limit.
MeanWithin(values, limit) == Sum(values) <= limit * Len(values)
MeanReaches(values, limit) == Sum(values) >= limit * Len(values)

\* paired_mean_bca_interval and mean_bca_one_sided_lower_bound
Interval(values) == <<Min(Range(values)), Max(Range(values))>>

\* interval_establishes_equivalence and stopping_time_equivalence_criterion
Establishes(interval, region) == interval[1] >= region[1] /\ interval[2] <= region[2]
-----------------------------------------------------------------------------
\* materialize_self_explanation_statistics
SelfExplanation(o) ==
    LET c == Confirmatory(o)
        margin == Limits.derivative
    IN  IF ~AreComplete(o) THEN None
        ELSE [units |-> Len(c), meets |-> IsSignificant(ValuesOf(c, "contrast")),
              equivalent |-> Establishes(Interval(ValuesOf(c, "derivative")), <<-margin, margin>>)]

\* materialize_pure_order_statistics
PureOrder(o) ==
    LET c == Confirmatory(o)
    IN  IF ~AreComplete(o) THEN None
        ELSE [units |-> Len(c), meets |-> IsSignificant(ValuesOf(c, "drift"))]

\* materialize_signed_theorem_statistics
SignedTheorem(o) ==
    LET c == Confirmatory(o)
    IN  IF ~AreComplete(o) THEN None
        ELSE [units |-> Len(c), meets |-> Interval(ValuesOf(c, "arl"))[1] >= Limits.arl]
-----------------------------------------------------------------------------
(***************************************************************************)
(* The equivalence with the decomposition: the metrics of a seed are those *)
(* of the conditions it could evaluate.                                    *)
(***************************************************************************)
\* The criteria over the metrics of one condition.
IsEquivalent(matched) ==
    LET pfa == \A i \in DOMAIN matched : matched[i].pfa
        stops == SelectSeq(ValuesOf(matched, "stop"), LAMBDA d : d # None)
    IN  /\ Interval(ValuesOf(matched, "nrmse"))[2] < Limits.nrmse
        /\ MeanReaches(ValuesOf(matched, "cosine"), Limits.cosine)
        /\ pfa
        /\ \/ stops # <<>> /\ Establishes(Interval(stops), Limits.stop)
           \/ MeanWithin(ValuesOf(matched, "divergence"), Limits.divergence)

\* The metrics the seeds have of a condition.
Matched(c, condition) ==
    LET seeds == SelectSeq(c, LAMBDA x : condition \in DOMAIN x.conditions)
    IN  [i \in DOMAIN seeds |-> seeds[i].conditions[condition]]

\* Mutant: a condition is judged by the seeds that have it.
HofdOfSomeSeeds(o) ==
    LET c == Confirmatory(o)
    IN  IF ~AreComplete(o) THEN None
        ELSE [units |-> Len(c),
              meets |-> \A condition \in HofdConditions :
                            LET matched == Matched(c, condition)
                            IN  matched # <<>> /\ IsEquivalent(matched)]

\* materialize_hofd_equivalence_statistics
Hofd(o) ==
    LET c == Confirmatory(o)
    IN  IF ~AreComplete(o) THEN None
        ELSE [units |-> Len(c),
              meets |-> \A condition \in HofdConditions :
                            LET matched == Matched(c, condition)
                            IN  Len(matched) = Len(c) /\ IsEquivalent(matched)]
-----------------------------------------------------------------------------

\* materialize_estimator_feasibility_statistics; the limit on failures is a / b of the seeds.
Feasibility(o) ==
    LET c == Confirmatory(o)
        failures == Len(SelectSeq(c, LAMBDA x : x.failure))
    IN  IF ~AreComplete(o) THEN None
        ELSE [units |-> Len(c),
              meets |-> /\ MeanReaches(ValuesOf(c, "coverage"), Limits.coverage)
                        /\ MeanWithin(ValuesOf(c, "nrmse"), Limits.projection)
                        /\ MeanWithin(ValuesOf(c, "bias"), Limits.bias)
                        /\ failures * Limits.failures[2] <= Limits.failures[1] * Len(c)]

\* materialize_finite_horizon_statistics
FiniteHorizon(o) ==
    LET c == Confirmatory(o)
        bounds == {c[i].upper : i \in DOMAIN c} \ {None}
    IN  IF ~AreComplete(o) THEN None
        ELSE [units |-> Len(c),
              meets |-> /\ \A i \in DOMAIN c : c[i].threshold # None
                        /\ bounds # {} /\ Max(bounds) <= Limits.pfa]
-----------------------------------------------------------------------------
\* materialize_strong_comparator_composition_selection: the candidate that the seeds of a
\* method make, if they are just the development roots.  The median runtime is doubled.
CandidateOf(o, method) ==
    LET seeds == SelectSeq(o, LAMBDA x : x.method = method)
    IN  IF ValuesOf(seeds, "seed") # Development THEN None
        ELSE [name |-> method, error |-> Sum(ValuesOf(seeds, "error")),
              runtime |-> TwiceMedian(ValuesOf(seeds, "runtime")),
              stops |-> Sum(ValuesOf(seeds, "stops")), invariants |-> TRUE,
              calibrated |-> \A i \in DOMAIN seeds : seeds[i].threshold # None]

\* The record, None when there is no candidate or none is eligible.
CompositionSelection(o, methods) ==
    LET all == [i \in DOMAIN methods |-> CandidateOf(o, methods[i])]
        candidates == SelectSeq(all, LAMBDA x : x # None)
        selected == Composition(candidates, [error |-> 0, runtime |-> 0])
    IN  IF selected = Nothing THEN None ELSE selected

\* The methods whose cells carry the metrics that an experiment's claim is made of.
MethodsWithMetrics(experiment) == IF experiment = "equivalence" THEN <<"full", "hofd">> ELSE <<"primary">>

\* _synthetic_dispatch_method: the two methods of the equivalence share an evaluation.
DispatchMethod(experiment, method) ==
    IF experiment = "equivalence" /\ method = "hofd" THEN "full" ELSE method

\* The observations made of the executions: every cell observes the execution that it
\* was dispatched as.
Collected(experiment, executions) ==
    LET observing == SelectSeq(MethodsWithMetrics(experiment),
                               LAMBDA m : DispatchMethod(experiment, m) \in {"full", "primary"})
    IN  FlattenSeq([i \in DOMAIN executions |-> [j \in DOMAIN observing |-> executions[i]]])

\* The record an experiment makes of its executions.
ClaimOf(experiment, executions) ==
    LET o == Collected(experiment, executions)
    IN  CASE experiment = "self-explanation" -> SelfExplanation(o)
          [] experiment = "pure order" -> PureOrder(o)
          [] experiment = "signed theorem" -> SignedTheorem(o)
          [] experiment = "equivalence" -> Hofd(o)
          [] experiment = "feasibility" -> Feasibility(o)
          [] experiment = "finite horizon" -> FiniteHorizon(o)
=============================================================================

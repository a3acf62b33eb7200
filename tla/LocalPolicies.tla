----------------------------- MODULE LocalPolicies -----------------------------
(***************************************************************************)
(* The choice of the local policy of a client (detection.py,               *)
(* evaluation/sequential.py): thresholds are quantiles of its nuisance      *)
(* scores, a policy [threshold, required, window] stops when enough of the  *)
(* last epochs exceed the threshold, and the first policy in order whose    *)
(* false stops on the calibration horizons are few enough is taken.         *)
(***************************************************************************)
EXTENDS Integers, Sequences, FiniteSets, FiniteSetsExt, SequencesExt

CONSTANTS
    AllowedStops,   \* the false stops whose confidence bound meets the target
    NoPolicy

\* numpy.quantile of an ascending sequence at q[1] / q[2], times q[2]: the two values next
\* to the place (Len(s) - 1) * q[1] / q[2] are interpolated.
Quantile(s, q) ==
    LET place == (Len(s) - 1) * q[1]
        lower == s[place \div q[2] + 1]
        upper == s[Min({place \div q[2] + 2, Len(s)})]
    IN  lower * q[2] + (upper - lower) * (place % q[2])

\* candidate_thresholds_from_nuisance_scores; the scores are given times the denominator.
CandidateThresholds(nuisance, quantiles) ==
    {Quantile(SortSeq(nuisance, <), q) : q \in quantiles}

\* score_exceeds_threshold
Exceedances(scores, threshold, scale) == [e \in DOMAIN scores |-> scores[e] * scale >= threshold]

\* persistence_is_triggered
Triggered(seen, policy) ==
    LET examined == SubSeq(seen, Max({1, Len(seen) - policy.window + 1}), Len(seen))
    IN  /\ Len(examined) >= policy.required
        /\ Cardinality({i \in DOMAIN examined : examined[i]}) >= policy.required

\* first_local_stop_epoch is not None
StopsLocally(seen, policy) == \E n \in 1 .. Len(seen) : Triggered(SubSeq(seen, 1, n), policy)

\* heldout_false_stop_count, of the horizons that are given as scores
FalseStopCount(horizons, policy, scale) ==
    Cardinality({h \in DOMAIN horizons :
        StopsLocally(Exceedances(horizons[h], policy.threshold, scale), policy)})

\* The candidates of calibrate_client_local_operating_point.
CandidatePolicies(thresholds, persistence) ==
    {[threshold |-> t, required |-> p.required, window |-> p.window] :
        t \in thresholds, p \in persistence}

\* Mutant: the required exceedances come before the threshold.
PrecedesByPersistence(p, q) ==
    \/ p.required < q.required
    \/ p.required = q.required /\ p.threshold < q.threshold
    \/ p.required = q.required /\ p.threshold = q.threshold /\ p.window < q.window

Precedes(p, q) ==
    \/ p.threshold < q.threshold
    \/ p.threshold = q.threshold /\ p.required < q.required
    \/ p.threshold = q.threshold /\ p.required = q.required /\ p.window < q.window

\* select_immutable_local_policy
SelectPolicy(candidates, horizons, scale) ==
    LET accepted == {p \in candidates : FalseStopCount(horizons, p, scale) <= AllowedStops}
    IN  IF accepted = {} THEN NoPolicy
        ELSE CHOOSE p \in accepted : \A q \in accepted \ {p} : Precedes(p, q)

\* calibrate_client_local_operating_point: nothing without horizons or nuisance scores.
LocalPoint(x) ==
    LET candidates == CandidatePolicies(CandidateThresholds(x.nuisance, x.quantiles), x.persistence)
        policy == SelectPolicy(candidates, x.calibration, x.scale)
    IN  IF x.calibration = <<>> \/ x.nuisance = <<>> \/ policy = NoPolicy
        THEN [policy |-> NoPolicy, calibration |-> 0, heldout |-> 0]
        ELSE [policy |-> policy,
              calibration |-> FalseStopCount(x.calibration, policy, x.scale),
              heldout |-> FalseStopCount(x.heldout, policy, x.scale)]
=============================================================================

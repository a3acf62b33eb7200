------------------------------ MODULE SampleRoles ------------------------------
(***************************************************************************)
(* The samples of the synthetic experiments (experiments/synthetic.py,     *)
(* experiments/calibration.py, synthetic/sequential.py): which draws, as   *)
(* offsets of a root seed, each role of a cell is given, which rows the    *)
(* scoring reads, and what is made of the evidence.                        *)
(*                                                                         *)
(* An experiment's sizes are a record p: support, heldout, nuisance,       *)
(* evaluation, samples, warmup, length, calibration, held and replicates,  *)
(* the numbers of samples, epochs and horizons the configuration names.    *)
(***************************************************************************)
EXTENDS Comparators

\* n samples from an offset on.
From(offset, n) == offset .. offset + n - 1

\* A role and the samples it is given.
Role(name, samples) == [role |-> name, samples |-> samples]

HorizonOffsets(p, offset, count) ==
    [i \in 1 .. count |-> From(offset + (i - 1) * p.length, p.length)]
-----------------------------------------------------------------------------
(***************************************************************************)
(* Cells that draw each row with a seed of its own.                        *)
(***************************************************************************)
\* Mutant: the offset moves on by the calibration horizons only.
HofdRolesOverlapping(p, fates) ==
    LET Step(s, fate) ==
            LET heldout == s.offset + p.support
                horizons == heldout + p.heldout
                replicates == horizons + p.calibration * p.length
                fit == <<Role("nuisance", From(s.offset, p.support)), Role("held out", From(heldout, p.heldout))>>
                null == HorizonOffsets(p, horizons, p.calibration + p.held)
                effect == HorizonOffsets(p, replicates, p.replicates)
            IN  IF fate # "fitted" THEN [offset |-> horizons, roles |-> s.roles \o fit]
                ELSE [offset |-> replicates + p.replicates * p.length,
                      roles |-> s.roles \o fit \o [i \in DOMAIN null |-> Role("null", null[i])]
                                  \o [i \in DOMAIN effect |-> Role("effect", effect[i])]]
    IN  FoldLeft(Step, [offset |-> 0, roles |-> <<>>], fates).roles

\* _evaluate_hofd_equivalence_seed, for conditions of which some cannot be fitted or have
\* no moments: the offset runs over the conditions.
HofdRoles(p, fates) ==
    LET Step(s, fate) ==
            LET heldout == s.offset + p.support
                horizons == heldout + p.heldout
                replicates == horizons + (p.calibration + p.held) * p.length
                fit == <<Role("nuisance", From(s.offset, p.support)), Role("held out", From(heldout, p.heldout))>>
                null == HorizonOffsets(p, horizons, p.calibration + p.held)
                effect == HorizonOffsets(p, replicates, p.replicates)
            IN  IF fate # "fitted" THEN [offset |-> horizons, roles |-> s.roles \o fit]
                ELSE [offset |-> replicates + p.replicates * p.length,
                      roles |-> s.roles \o fit \o [i \in DOMAIN null |-> Role("null", null[i])]
                                  \o [i \in DOMAIN effect |-> Role("effect", effect[i])]]
    IN  FoldLeft(Step, [offset |-> 0, roles |-> <<>>], fates).roles

\* evaluate_composition_candidate_seed
CandidateRoles(p) ==
    LET horizons == HorizonOffsets(p, 2 * p.samples, p.calibration)
        heldout == HorizonOffsets(p, 2 * p.samples + p.calibration * p.length, p.held)
    IN  <<Role("nuisance", From(0, p.samples)), Role("reference", From(p.samples, p.samples))>>
          \o [i \in DOMAIN horizons |-> Role("calibration", horizons[i])]
          \o [i \in DOMAIN heldout |-> Role("held out", heldout[i])]

\* _strong_comparator_outcome, without the diagnostics of mixed orders, which take the
\* first seeds of the alternatives again.
StrongComparatorRoles(p) ==
    <<Role("nuisance", From(0, p.samples)), Role("reference", From(p.samples, p.samples))>>

\* evaluate_comparator_pure_order_cell
ComparatorPureOrderRoles(p) ==
    <<Role("nuisance", From(0, p.samples)), Role("alternative", From(p.samples, p.samples))>>

\* _pure_order_prefix_rows and _pure_order_evaluation_artifact
PureOrderRoles(p) ==
    <<Role("nuisance", From(0, p.nuisance)), Role("null", From(p.nuisance, p.evaluation)),
      Role("alternative", From(p.nuisance + p.evaluation, p.evaluation))>>
-----------------------------------------------------------------------------
(***************************************************************************)
(* Cells whose rows are the epochs of a stream: row e is drawn e after the *)
(* first.  A block is a warm-up and a horizon.                             *)
(***************************************************************************)
BlockLength(p) == p.warmup + p.length

\* _horizons
HorizonEpochs(p, origin, i) == From(origin + (i - 1) * BlockLength(p) + p.warmup, p.length)

Horizons(p, name, origin, count) ==
    [i \in 1 .. count |-> Role(name, HorizonEpochs(p, origin, i))]

\* _evaluate_outside_contamination_seed, with a campaign for each of n fractions
ContaminationRoles(p, n) ==
    LET origin == p.nuisance + p.evaluation
        heldout == origin + p.calibration * BlockLength(p)
        campaigns == heldout + p.held * BlockLength(p)
    IN  <<Role("nuisance", From(0, p.nuisance)), Role("null", From(p.nuisance, p.evaluation))>>
          \o Horizons(p, "calibration", origin, p.calibration)
          \o Horizons(p, "held out", heldout, p.held) \o Horizons(p, "campaign", campaigns, n)

\* _evaluate_dropout_sparsity_seed: all fractions score the same campaign.
DropoutRoles(p) ==
    LET heldout == p.nuisance + p.calibration * BlockLength(p)
        prefix == heldout + p.held * BlockLength(p)
    IN  <<Role("nuisance", From(0, p.nuisance))>>
          \o Horizons(p, "calibration", p.nuisance, p.calibration)
          \o Horizons(p, "held out", heldout, p.held)
          \o <<Role("campaign", From(prefix + p.warmup, p.length))>>

\* evaluate_finite_horizon_common_mode_seed: the blocks are generated one by one, the
\* epochs of the horizons counted again.
CommonModeRoles(p) ==
    LET specifications ==
            [i \in 1 .. p.calibration + p.held |-> IF i <= p.calibration THEN "calibration" ELSE "held out"]
        Step(s, name) ==
            [offset |-> s.offset + BlockLength(p),
             roles |-> Append(s.roles, Role(name, From(s.offset + p.warmup, p.length)))]
    IN  FoldLeft(Step, [offset |-> p.nuisance, roles |-> <<Role("nuisance", From(0, p.nuisance))>>],
                 specifications).roles

\* The first rows of the blocks of that experiment.
BlockStarts(p) ==
    {0} \cup {p.nuisance + i * BlockLength(p) : i \in 0 .. p.calibration + p.held - 1}
-----------------------------------------------------------------------------
(***************************************************************************)
(* Contamination and dropout.                                              *)
(***************************************************************************)
\* contaminated_outside_clients: round_half_up of a / b of the complement
ContaminatedClients(target, share) ==
    LET outside == Clients \ target
    IN  Smallest(outside, (2 * share[1] * Cardinality(outside) + share[2]) \div (2 * share[2]))

\* Mutant: the members of the coalition need not be there.
IsActiveWithoutMembers(target, available) ==
    Cardinality(available \ target) >= RequiredOutside(Cardinality(Clients \ target))

\* dropout_coalition_is_active
IsActive(target, available) ==
    /\ target \subseteq available
    /\ Cardinality(available \ target) >= RequiredOutside(Cardinality(Clients \ target))

\* The context coverage _dropout_sparsity_record reports, as the epochs it counts.
CoveredEpochs(target, masks) == {e \in DOMAIN masks : IsActive(target, masks[e])}

\* The streams it scores: a client is missing at the scored epochs of its dropout.
FilteredStreams(r, masks) ==
    [c \in DOMAIN r |-> [e \in {d \in DOMAIN r[c] : d \in DOMAIN masks => c \in masks[d]} |-> r[c][e]]]

\* The epochs at which a fitted coalition is scored (coalition_evidence_at_epoch).
ScoredEpochs(r, A, epochs) ==
    {e \in epochs : /\ \A c \in A : RankAt(r, c, e) # Nothing
                    /\ ContextRow(r, "exact", A, e, LaggedEpoch({e}), Nothing) # Nothing}
-----------------------------------------------------------------------------
(***************************************************************************)
(* The pure-order grid of an EMHI method.                                  *)
(***************************************************************************)
\* Mutant: the coalitions smaller than a pair are not counted.
PureOrderPathOfPairs(order, maximum, drifts) ==
    \/ order > maximum
    \/ /\ 1 .. order \in drifts
       /\ Cardinality({A \in drifts : A \subseteq 1 .. order /\ A # 1 .. order /\ Cardinality(A) > 1})
              = Cardinality({A \in SUBSET (1 .. order) : Cardinality(A) \in 2 .. order - 1})

\* evaluate_fitted_pure_order_grid and _pure_order_drift_metrics: whether the path of a
\* cell is complete when the coalitions in drifts have a drift.  The result of a target
\* order beyond the method is zero and complete.
PureOrderPath(order, maximum, drifts) ==
    \/ order > maximum
    \/ /\ 1 .. order \in drifts
       /\ Cardinality({A \in drifts : A \subseteq 1 .. order /\ A # 1 .. order /\ A # {}}) = 2^order - 2

\* emhi_method_settings: the maximum order of an EMHI method
MethodOrder == [full |-> 3, order_one |-> 1, order_two |-> 2, no_purification |-> 3]
-----------------------------------------------------------------------------
(***************************************************************************)
(* The evidence process, implemented once more.                            *)
(***************************************************************************)
StatesOf(factors) ==
    LET state[i \in 0 .. Len(factors)] == IF i = 0 THEN 0 ELSE NextState(state[i - 1], factors[i])
    IN  state

\* Mutant: the state is compared before the factor is applied.
FirstStopLate(factors, threshold) ==
    LET stops == {i \in DOMAIN factors : StatesOf(factors)[i - 1] >= threshold}
    IN  IF stops = {} THEN Nothing ELSE Min(stops) - 1

\* _first_eprocess_stop: the index of the factor, from zero
FirstStop(factors, threshold) ==
    LET stops == {i \in DOMAIN factors : StatesOf(factors)[i] >= threshold}
    IN  IF stops = {} THEN Nothing ELSE Min(stops) - 1

StopCount(horizons, threshold) == Cardinality({i \in DOMAIN horizons : FirstStop(horizons[i], threshold) # Nothing})

\* _calibrate_eprocess_threshold
CalibrateThreshold(calibration, heldout, candidates) ==
    LET accepted == {h \in candidates : StopCount(calibration, h) <= AcceptedStops}
    IN  IF accepted = {} \/ heldout = <<>> THEN [threshold |-> Nothing, heldout |-> 0]
        ELSE [threshold |-> Min(accepted), heldout |-> StopCount(heldout, Min(accepted))]

\* _trajectory_max_divergence
MaxDivergence(left, right) ==
    Max({0} \cup {Max({StatesOf(left)[i] - StatesOf(right)[i], StatesOf(right)[i] - StatesOf(left)[i]}) :
                      i \in DOMAIN left})

\* The metrics of a condition: replicates is a sequence of the factors of both methods on
\* the same effect, the points are their thresholds and held-out false stops.  Means are
\* sums; a difference of stopping times needs a replicate in which both stop.
HofdCondition(replicates, emhi, hofd) ==
    LET Stop(factors, point) ==
            IF point.threshold = Nothing THEN Nothing ELSE FirstStop(factors, point.threshold)
        stops == [i \in DOMAIN replicates |->
                      <<Stop(replicates[i][1], emhi), Stop(replicates[i][2], hofd)>>]
        paired == {i \in DOMAIN stops : stops[i][1] # Nothing /\ stops[i][2] # Nothing}
        Detected(stop) == IF stop = Nothing THEN 0 ELSE 1
    IN  [pfa |-> \A point \in {emhi, hofd} :
                    point.threshold # Nothing /\ point.heldout <= AcceptedStops,
         stop |-> IF paired = {} THEN Nothing ELSE SumOver(paired, LAMBDA i : stops[i][1] - stops[i][2]),
         detection |-> SumOver(DOMAIN stops, LAMBDA i : Detected(stops[i][1]) - Detected(stops[i][2])),
         divergence |-> SumOver(DOMAIN stops, LAMBDA i : MaxDivergence(replicates[i][1], replicates[i][2]))]

\* trajectory_restricted_stop: the epochs it takes and whether it stopped
RestrictedStop(factors, threshold) ==
    LET stop == FirstStop(factors, threshold)
    IN  IF stop = Nothing THEN <<Len(factors), FALSE>> ELSE <<stop + 1, TRUE>>

\* evaluate_signed_theorem_seed: the trajectories take their draws from one generator,
\* one after the other, each as many as it lasts.
SignedTrajectories(draws, maximum, count, threshold) ==
    LET Step(s, n) ==
            LET outcome == RestrictedStop(SubSeq(draws, s.used + 1, s.used + maximum), threshold)
            IN  [used |-> s.used + outcome[1], stopped |-> s.stopped + (IF outcome[2] THEN 1 ELSE 0)]
    IN  FoldLeft(Step, [used |-> 0, stopped |-> 0], [n \in 1 .. count |-> n])
=============================================================================

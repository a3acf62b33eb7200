------------------------------ MODULE Comparators ------------------------------
(***************************************************************************)
(* The baselines that EMHI is compared with: which epochs and ranks a      *)
(* score is computed from (comparators/conditioning.py, experiments/       *)
(* seed_evaluation.py), when a comparator stops and how its threshold is   *)
(* calibrated, and how the strongest comparator is chosen (comparators/    *)
(* fusion.py).                                                             *)
(*                                                                         *)
(* The dependence measures are outside: the score of a conditioned method  *)
(* is what it is computed from, the conditional ranks of the members and   *)
(* those of the nuisance epochs the method is fitted on.  So is the        *)
(* evidence factor: the score and the nuisance scores it is compared with. *)
(***************************************************************************)
EXTENDS EmhiFit, SequencesExt

CONSTANTS
    NativeOrder,     \* of each conditioned method: conditioned_comparator_order
    Drift,           \* twice rank_center + drift_subtraction of the multistream CUSUM
    Whole,           \* the number one, in the fixed point of evidence factors
    AcceptedStops    \* the false stops whose confidence bound meets the target

ComparatorMethods == {"mean", "max", "cusum"} \cup DOMAIN NativeOrder

\* The epochs at which every client has a rank.
CommonEpochs(r) ==
    {e \in UNION {DOMAIN r[c] : c \in Clients} : \A c \in Clients : RankAt(r, c, e) # Nothing}

NuisanceRows(r) == CommonEpochs(r) \cap Range(Nuisance)

\* The rows of the panel.
PanelRows(epochs) ==
    [i \in 1 .. Cardinality(epochs) |-> CHOOSE e \in epochs : Cardinality({d \in epochs : d <= e}) = i]

SumOver(S, f(_)) == FoldSet(LAMBDA x, y : f(x) + y, 0, S)
-----------------------------------------------------------------------------
(***************************************************************************)
(* Conditioning on the clients outside the coalition.                      *)
(***************************************************************************)
\* The coalition is always that of the first clients.
MembersOf(k) == Smallest(Clients, k)

\* Mutant: the row after an epoch.
RowAfter(epochs, e) ==
    IF \E d \in epochs : d > e THEN Min({d \in epochs : d > e}) ELSE Nothing

\* The row before an epoch in the panel of common epochs, however long ago that is.
RowBefore(epochs, e) ==
    IF \E d \in epochs : d < e THEN Max({d \in epochs : d < e}) ELSE Nothing

\* Mutant: the members are counted as outside clients too.
PanelContextOfAll(r, k, e) ==
    LET before == RowBefore(CommonEpochs(r), e)
    IN  IF before = Nothing THEN Nothing ELSE Histogram(r, Clients, before)

\* _context_histogram of that row; every outside client has a rank there.
PanelContext(r, k, e) ==
    LET outside == Clients \ MembersOf(k)
        before == RowBefore(CommonEpochs(r), e)
    IN  IF \/ before = Nothing
           \/ outside = {}
           \/ Cardinality(outside) < RequiredOutside(Cardinality(outside))
        THEN Nothing
        ELSE Histogram(r, outside, before)

\* fit_comparator_conditioning: the epochs each usable cell takes its references from.
\* nearest[h] is the cells in the order of the distance of their centroids from h.
Conditioning(r, k, nearest) ==
    LET training == {e \in NuisanceRows(r) : PanelContext(r, k, e) # Nothing}
        cell == [e \in training |-> nearest[PanelContext(r, k, e)][1]]
        usable == {c \in Cells : Cardinality({e \in training : cell[e] = c}) >= 2}
    IN  IF k > Cardinality(Clients) \/ Cardinality(training) < Cardinality(Cells) \/ usable = {}
        THEN Nothing
        ELSE [c \in usable |-> {e \in training : cell[e] = c}]

\* The nearest of the usable cells.
NearestUsable(model, order) == order[Min({i \in DOMAIN order : order[i] \in DOMAIN model})]

\* Twice the midrank of a member among its references, and their number.
MidrankOf(r, c, e, references) ==
    <<2 * Cardinality({d \in references : r[c][d] < r[c][e]})
        + Cardinality({d \in references : r[c][d] = r[c][e]}), Cardinality(references)>>

\* condition_epoch_ranks
ConditionedRanks(r, k, model, nearest, e) ==
    LET context == PanelContext(r, k, e)
    IN  IF context = Nothing THEN Nothing
        ELSE LET cell == NearestUsable(model, nearest[context])
             IN  [c \in MembersOf(k) |-> MidrankOf(r, c, e, model[cell])]
-----------------------------------------------------------------------------
(***************************************************************************)
(* Scores.                                                                 *)
(***************************************************************************)
\* Mutant: the statistic may fall below zero.
CusumUnbounded(epochs, ranks) ==
    LET ordered == PanelRows(epochs)
        state[i \in 0 .. Len(ordered)] ==
            IF i = 0 THEN 0 ELSE state[i - 1] + 2 * ranks[ordered[i]] - Drift
    IN  [e \in epochs |-> state[Cardinality({d \in epochs : d <= e})]]

\* Twice next_cusum_state over the epochs of the panel; it is never reset.
Cusum(epochs, ranks) ==
    LET ordered == PanelRows(epochs)
        state[i \in 0 .. Len(ordered)] ==
            IF i = 0 THEN 0 ELSE Max({0, state[i - 1] + 2 * ranks[ordered[i]] - Drift})
    IN  [e \in epochs |-> state[Cardinality({d \in epochs : d <= e})]]

\* comparator_epoch_scores
EpochScores(r, method, nearest) ==
    LET epochs == CommonEpochs(r)
        cusum == [c \in Clients |-> Cusum(epochs, r[c])]
        model == Conditioning(r, NativeOrder[method], nearest)
        conditioned == [e \in epochs |-> ConditionedRanks(r, NativeOrder[method], model, nearest, e)]
        fitted == [e \in {d \in NuisanceRows(r) : conditioned[d] # Nothing} |-> conditioned[e]]
    IN  CASE method = "mean" -> [e \in epochs |-> SumOver(Clients, LAMBDA c : r[c][e])]
          [] method = "max" -> [e \in epochs |-> Max({r[c][e] : c \in Clients})]
          [] method = "cusum" -> [e \in epochs |-> Max({cusum[c][e] : c \in Clients})]
          [] OTHER ->
                IF model = Nothing THEN <<>>
                ELSE [e \in {d \in epochs : conditioned[d] # Nothing} |-> <<conditioned[e], fitted>>]

\* There is nothing to compare the scores with: a ValueError, of the standardization or of
\* the reference quantile.
EvidenceFails(scores) == DOMAIN scores # {} /\ DOMAIN scores \cap Range(Nuisance) = {}

\* comparator_evidence_scores: no evidence at all when the nuisance scores do not vary.
EvidenceScores(scores, isStandardized) ==
    LET nuisance == [e \in DOMAIN scores \cap Range(Nuisance) |-> scores[e]]
    IN  IF EvidenceFails(scores) THEN Nothing
        ELSE IF ~isStandardized /\ Cardinality(Range(nuisance)) = 1 THEN <<>>
        ELSE [e \in DOMAIN scores |-> <<scores[e], nuisance>>]
-----------------------------------------------------------------------------
(***************************************************************************)
(* Stopping and calibration.                                               *)
(***************************************************************************)
NextState(state, factor) == ((state + Whole) * factor) \div Whole

\* Mutant: the threshold has to be exceeded.
ComparatorStopAbove(factors, epochs, threshold) ==
    LET state[i \in 0 .. Len(epochs)] ==
            IF i = 0 THEN 0
            ELSE IF epochs[i] \in DOMAIN factors THEN NextState(state[i - 1], factors[epochs[i]])
            ELSE state[i - 1]
        stops == {i \in DOMAIN epochs : epochs[i] \in DOMAIN factors /\ state[i] > threshold}
    IN  IF stops = {} THEN Nothing ELSE epochs[Min(stops)]

\* comparator_stop: an epoch without a score is passed over.
ComparatorStop(factors, epochs, threshold) ==
    LET state[i \in 0 .. Len(epochs)] ==
            IF i = 0 THEN 0
            ELSE IF epochs[i] \in DOMAIN factors THEN NextState(state[i - 1], factors[epochs[i]])
            ELSE state[i - 1]
        stops == {i \in DOMAIN epochs : epochs[i] \in DOMAIN factors /\ state[i] >= threshold}
    IN  IF stops = {} THEN Nothing ELSE epochs[Min(stops)]

\* global_stop_epoch with support at every epoch: one that abstains has the factor one.
EmhiStop(factors, epochs, threshold) ==
    LET factor(e) == IF e \in DOMAIN factors THEN factors[e] ELSE Whole
        state[i \in 0 .. Len(epochs)] ==
            IF i = 0 THEN 0 ELSE NextState(state[i - 1], factor(epochs[i]))
        stops == {i \in DOMAIN epochs : state[i] >= threshold}
    IN  IF stops = {} THEN Nothing ELSE epochs[Min(stops)]

ComparatorFalseStops(factors, horizons, threshold) ==
    Cardinality({i \in DOMAIN horizons : ComparatorStop(factors, horizons[i], threshold) # Nothing})

\* calibrate_comparator_operating_point: the threshold and the false stops of the held-out
\* horizons.
ComparatorPoint(factors, calibration, heldout, candidates) ==
    LET accepted == {h \in candidates :
            ComparatorFalseStops(factors, calibration, h) <= AcceptedStops}
    IN  IF DOMAIN factors = {} \/ accepted = {} THEN [threshold |-> Nothing, heldout |-> 0]
        ELSE [threshold |-> Min(accepted),
              heldout |-> ComparatorFalseStops(factors, heldout, Min(accepted))]

\* A campaign is evaluated with that threshold.
CampaignStop(factors, point, epochs) ==
    IF point.threshold = Nothing THEN Nothing ELSE ComparatorStop(factors, epochs, point.threshold)
-----------------------------------------------------------------------------
(***************************************************************************)
(* The strongest comparator.  A candidate is [name, error, runtime, stops, *)
(* invariants, calibrated]: its mean standardized error, median runtime    *)
(* and held-out false stops.                                               *)
(***************************************************************************)
IsEligible(x) == x.invariants /\ x.calibrated /\ x.stops <= AcceptedStops

\* Mutant: a worse error is no obstacle.
PrefersRuntime(x, y, tolerance) ==
    \/ x.error < y.error - tolerance.error
    \/ x.runtime < y.runtime - tolerance.runtime
    \/ /\ x.runtime <= y.runtime + tolerance.runtime
       /\ x.name < y.name

\* _prefer_candidate
Prefers(x, y, tolerance) ==
    \/ x.error < y.error - tolerance.error
    \/ /\ x.error <= y.error + tolerance.error
       /\ \/ x.runtime < y.runtime - tolerance.runtime
          \/ /\ x.runtime <= y.runtime + tolerance.runtime
             /\ x.name < y.name

\* select_strongest_comparator
Strongest(candidates, tolerance) ==
    FoldLeft(LAMBDA selected, x : IF Prefers(x, selected, tolerance) THEN x ELSE selected,
             candidates[1], Tail(candidates))

\* build_composition_selection_record; Nothing when it fails.
Composition(candidates, tolerance) ==
    LET eligible == SelectSeq(candidates, IsEligible)
    IN  IF eligible = <<>> THEN Nothing ELSE Strongest(eligible, tolerance)
=============================================================================

-------------------------- MODULE SyntheticGenerators --------------------------
(***************************************************************************)
(* The synthetic generators and the estimator experiments that rest on     *)
(* them (synthetic/pure_order.py, generators.py, self_explanation.py,      *)
(* feasibility.py).                                                        *)
(*                                                                         *)
(* A rank is the half of the unit interval it falls in, so that the basis  *)
(* function is -1 or 1 and a density is a whole number of units; the law   *)
(* of a generator is the number of ways each row of ranks comes about.     *)
(***************************************************************************)
EXTENDS Integers, Sequences, FiniteSets, Functions, FiniteSetsExt, SequencesExt

CONSTANTS
    Density,        \* the units of a density of one
    ContextMethods, \* context_methods of the self-explanation experiment
    ClientCounts,   \* scalability_client_counts
    MeanUnit,       \* a multiple of every number of clients a mean is over
    Perturbations,  \* derivative_regression_perturbations
    MaximumOrder,   \* study.maximum_coalition_order
    Settling,       \* lag-settling epochs that are discarded
    Supports, OneFactorSupports, MainSupport, \* support grids of the feasibility experiment
    Unset           \* no row, no centroids, no ridge penalty, no metrics

ASSUME GeneratorsAssumption ==
    /\ Density \in Nat \ {0} /\ MaximumOrder \in 1 .. 3 /\ Settling \in Nat
    /\ IsFiniteSet(ClientCounts) /\ \A n \in ClientCounts : n > MaximumOrder
    /\ MeanUnit \in Nat /\ \A n \in ClientCounts : \A k \in 1 .. n : MeanUnit % k = 0

Plus(f) == FoldFunction(LAMBDA x, y : x + y, 0, f)
-----------------------------------------------------------------------------
(***************************************************************************)
(* Pure orders.                                                            *)
(***************************************************************************)
Corners == [1 .. 3 -> {0, 1}]

States == {-1, 1}

\* The product of the basis functions of the clients of A (pure_order_one_response).
Product(u, A) == IF Cardinality({i \in A : u[i] = 0}) % 2 = 0 THEN 1 ELSE -1

\* generator_enabled_orders
EnabledOrders ==
    [one |-> {1}, two |-> {2}, triple |-> {3}, xor |-> {3}, context |-> {3},
     one_two |-> {1, 2}, one_three |-> {1, 3}, two_three |-> {2, 3}, all |-> {1, 2, 3}]

\* generator_target_order
TargetOrder(generator) ==
    CASE generator = "one" -> 1 [] generator = "two" -> 2 [] OTHER -> 3

PureGenerators == {"one", "two", "triple", "xor"}

\* polynomial_density_is_valid
IsValidEffect(theta) == theta \in -Density .. Density

\* polynomial_density, context_conditional_density and mixed_order_density
DensityOf(generator, theta, state, u) ==
    LET orders == EnabledOrders[generator]
        terms == Plus([k \in orders |-> Product(u, 1 .. k)])
    IN  Density + theta * terms * (IF generator = "context" THEN state ELSE 1)

\* polynomial_envelope and mixed_order_envelope
Envelope(generator, theta) ==
    Density + (IF theta < 0 THEN -theta ELSE theta) * Cardinality(EnabledOrders[generator])

\* The state is drawn from a generator of its own with the seed of the ranks, hence from
\* the uniform that is the first rank proposed.
StateOf(u) == 2 * u[1] - 1

\* sample_pure_polynomial_ranks: a proposal is accepted with the share its density has of
\* the envelope, and another one is drawn otherwise; two proposals stand for all.
RejectionLaw(density, envelope) ==
    LET rejected == [s \in States |->
            Plus([u \in {v \in Corners : StateOf(v) = s} |-> envelope - density[s][u]])]
    IN  [u \in Corners |->
            density[StateOf(u)][u] * Cardinality(Corners) * envelope
                + Plus([s \in States |-> rejected[s] * density[s][u]])]

\* sample_context_dependent_pure_triple_ranks and sample_mixed_order_ranks: an effect that
\* is out of range raises, and so does a density that is not positive.
SamplePolynomialRanks(generator, theta) ==
    LET density == [s \in States |-> [u \in Corners |-> DensityOf(generator, theta, s, u)]]
    IN  IF \/ generator \in {"one", "two", "triple", "context"} /\ ~IsValidEffect(theta)
           \/ \E s \in States, u \in Corners : density[s][u] <= 0
        THEN Unset
        ELSE RejectionLaw(density, Envelope(generator, theta))

\* Mutant: the third bit is compared with the first alone.
SampleXorRanksOfTwo(strength) ==
    LET Matches(first, third) == third = first
        draws == [first: {0, 1}, second: {0, 1}, match: 0 .. 2 * Density - 1, third: {0, 1}]
    IN  [u \in Corners |-> Cardinality({d \in draws :
            /\ u = <<d.first, d.second, d.third>>
            /\ d.match < Density + strength <=> Matches(d.first, d.third)})]

\* sample_xor_ranks
SampleXorRanks(strength) ==
    LET draws == [first: {0, 1}, second: {0, 1}, match: 0 .. 2 * Density - 1, third: {0, 1}]
    IN  [u \in Corners |-> Cardinality({d \in draws :
            /\ u = <<d.first, d.second, d.third>>
            /\ d.match < Density + strength <=> d.third = (d.first + d.second) % 2})]

\* sample_generator_row
SampleGeneratorRow(generator, effect) ==
    IF generator = "xor" THEN SampleXorRanks(effect) ELSE SamplePolynomialRanks(generator, effect)

\* xor_exact_marginals, with the marginals and the pairs it adds up
XorExactMarginals(strength) ==
    LET p == [u \in Corners |->
                  IF (u[1] + u[2]) % 2 = u[3] THEN Density + strength ELSE Density - strength]
        High(A) == Plus([u \in {v \in Corners : \A i \in A : v[i] = 1} |-> p[u]])
    IN  /\ strength \in 0 .. Density
        /\ High({}) = 8 * Density
        /\ \A i \in 1 .. 3 : High({i}) = 4 * Density
        /\ \A i, j \in 1 .. 3 : i < j => High({i, j}) = 2 * Density

\* validate_generator_purity: the generators that are not pure are only asked whether
\* order three is absent.
IsPure(generator, effect) ==
    CASE generator \in {"one", "two", "triple"} -> IsValidEffect(effect)
      [] generator = "xor" -> XorExactMarginals(effect)
      [] OTHER -> 3 \notin EnabledOrders[generator]

\* _pure_order_outcome: the failures of the cell of a method
PurityFailures(grid) ==
    {x.generator : x \in {y \in grid : y.generator \in PureGenerators /\ ~IsPure(y.generator, y.effect)}}
-----------------------------------------------------------------------------
(***************************************************************************)
(* Self-explanation.  A mean is scaled by MeanUnit, a derivative by what   *)
(* the regression divides by.                                              *)
(***************************************************************************)
\* enumerate_self_exclusion_grid, but for the perturbation a measurement is listed under
SelfExclusionGrid ==
    [clients: ClientCounts, order: 1 .. MaximumOrder, transform: {"linear", "tanh", "softplus"},
     method: ContextMethods]

\* equally_spaced_loadings, from zero
Loadings(n) == [i \in 1 .. n |-> i - 1]

\* generate_common_mode_scores
CommonModeScores(latent, noise) ==
    [e \in DOMAIN latent |-> [i \in DOMAIN noise |-> Loadings(Len(noise))[i] * latent[e] + noise[i][e]]]

\* apply_persistent_perturbation
Perturbed(scores, targets, p) ==
    [i \in DOMAIN scores |-> scores[i] + (IF i \in targets THEN p ELSE 0)]

\* coalition_mean
CoalitionMean(scores, A) == (MeanUnit \div Cardinality(A)) * Plus([i \in A |-> scores[i]])

\* transform_nuisance: the hyperbolic tangent saturates, the softplus is nearly constant
\* below zero.
TransformNuisance(x, transform) ==
    CASE transform = "linear" -> x
      [] transform = "tanh" -> Max({-MeanUnit, Min({MeanUnit, x})})
      [] transform = "softplus" -> Max({0, x})

\* Mutant: exclusion leaves the last member of the coalition in.
ContextIndicesWithMember(method, n, k) ==
    CASE method = "oracle" -> {}
      [] method = "exact" -> k .. n
      [] method = "inclusive" -> 1 .. n
      [] method = "leave_one_out" -> 2 .. n
      [] method = "partial" -> (IF k >= 3 THEN 3 ELSE 2) .. n

\* _context_indices: the coalition is that of the first clients.
ContextIndices(method, n, k) ==
    CASE method = "oracle" -> {}
      [] method = "exact" -> k + 1 .. n
      [] method = "inclusive" -> 1 .. n
      [] method = "leave_one_out" -> 2 .. n
      [] method = "partial" -> (IF k >= 3 THEN 3 ELSE 2) .. n

\* _ols_slope, times the sum of squares it divides by and the number of perturbations
OlsSlope(responses) ==
    LET n == Len(Perturbations)
        mean == Plus(Perturbations)
        centre == Plus(responses)
    IN  Plus([i \in 1 .. n |-> (n * Perturbations[i] - mean) * (n * responses[i] - centre)])

\* evaluate_self_explanation_seed: the derivatives of the response, the nuisance and the
\* innovation of a cell of the grid.
Derivatives(x, latent, noise) ==
    LET scores == CommonModeScores(latent, noise)
        coalition == 1 .. x.order
        context == ContextIndices(x.method, x.clients, x.order)
        epochs == {e \in DOMAIN latent : e > Settling + 1}
        Response(e, p) == CoalitionMean(Perturbed(scores[e], coalition, p), coalition)
        NuisanceRank(e, p) ==
            TransformNuisance(
                IF x.method = "oracle" THEN MeanUnit * latent[e - 1]
                ELSE CoalitionMean(Perturbed(scores[e - 1], coalition, p), context), x.transform)
        responses == [i \in DOMAIN Perturbations |->
                          Plus([e \in epochs |-> Response(e, Perturbations[i])])]
        nuisances == [i \in DOMAIN Perturbations |->
                          Plus([e \in epochs |-> NuisanceRank(e, Perturbations[i])])]
    IN  [direct |-> OlsSlope(responses), nuisance |-> OlsSlope(nuisances),
         innovation |-> OlsSlope([i \in DOMAIN responses |-> responses[i] - nuisances[i]])]

\* self_explanation_attenuation, times the derivative it divides by
Attenuation(d) == d.direct - (IF d.innovation < 0 THEN -d.innovation ELSE d.innovation)
-----------------------------------------------------------------------------
(***************************************************************************)
(* Feasibility of the estimator.                                           *)
(***************************************************************************)
\* feasibility_conditions of a development seed, in order and without repetition; a
\* condition is a key, its ridge candidates and whether abstention is forbidden.
Conditions ==
    LET Of(order, support, basis, cells, ridge, forced) ==
            [key |-> <<order, support, basis, cells>>, ridge |-> ridge, forced |-> forced]
        grid == [i \in 1 .. 3 * Len(Supports) |->
            Of((i - 1) \div Len(Supports) + 1, Supports[((i - 1) % Len(Supports)) + 1], 1, 1, Unset, FALSE)]
        OneFactor(n) ==
            <<Of(3, n, 2, 1, Unset, FALSE), Of(3, n, 1, 2, Unset, FALSE),
              Of(3, n, 1, 1, "forced", FALSE), Of(3, n, 1, 1, Unset, TRUE)>>
        all == <<Of(3, MainSupport, 1, 1, "primary", FALSE)>> \o grid
                 \o FlattenSeq([i \in DOMAIN OneFactorSupports |-> OneFactor(OneFactorSupports[i])])
    IN  SelectSeq([i \in DOMAIN all |-> IF \E j \in 1 .. i - 1 : all[j] = all[i] THEN Unset ELSE all[i]],
                  LAMBDA c : c # Unset)

\* evaluate_estimator_feasibility_condition, in a world that says how far the fit of a key
\* and a ridge penalty gets: without support an evaluation that may not abstain raises.
EvaluateCondition(world, c) ==
    LET reached == world[c.key, c.ridge]
    IN  CASE reached = "raises" \/ reached = "no fit" -> [failed |-> TRUE, of |-> Unset]
          [] reached = "no support" ->
                [failed |-> TRUE, of |-> IF c.forced THEN "IndexError" ELSE Unset]
          [] reached = "complete" -> [failed |-> FALSE, of |-> <<c.key, c.ridge>>]

\* Mutant: whatever was evaluated with the key is kept, with any ridge penalty.
EvaluateSeedOfAnyRidge(world, conditions) ==
    LET Step(s, c) ==
            LET kept == {m \in s.baselines : m[1] = c.key}
                metrics == IF c.forced /\ c.ridge = Unset /\ kept # {}
                           THEN (CHOOSE m \in kept : TRUE)[2] ELSE EvaluateCondition(world, c)
            IN  [metrics |-> Append(s.metrics, metrics),
                 baselines |-> IF c.forced \/ metrics.failed THEN s.baselines
                               ELSE {m \in s.baselines : m[1] # c.key} \cup {<<c.key, metrics>>}]
    IN  FoldLeft(Step, [metrics |-> <<>>, baselines |-> {}], conditions).metrics

\* evaluate_estimator_feasibility_seed: a condition that may not abstain takes the metrics
\* of the one that may.
EvaluateSeed(world, conditions) ==
    LET Step(s, c) ==
            LET kept == {m \in s.baselines : m[1] = c.key}
                metrics == IF c.forced /\ c.ridge = Unset /\ kept # {}
                           THEN (CHOOSE m \in kept : TRUE)[2] ELSE EvaluateCondition(world, c)
            IN  [metrics |-> Append(s.metrics, metrics),
                 baselines |-> IF c.forced \/ c.ridge # Unset \/ metrics.failed THEN s.baselines
                               ELSE {m \in s.baselines : m[1] # c.key} \cup {<<c.key, metrics>>}]
    IN  FoldLeft(Step, [metrics |-> <<>>, baselines |-> {}], conditions).metrics
=============================================================================

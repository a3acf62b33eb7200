----------------------------- MODULE MCAlgorithms -----------------------------
(***************************************************************************)
(* Bounded inputs of Algorithms: three clients, six nuisance epochs, three  *)
(* confirmatory seeds.                                                     *)
(***************************************************************************)
EXTENDS Algorithms

MCDeviations == -2 .. 2

\* The configurations of the repository have 1/2 as the outside share.
MCOutsideShare == <<1, 2>>
MCNuisance == <<1, 2, 3, 4, 5, 6>>
MCSupport == <<1, 2, 2>>
MCAlpha == <<1, 2>>

Within(contract, rate, leads) ==
    [point |-> "within", contract |-> contract, rate |-> rate, leads |-> leads]

Over == [point |-> "over", contract |-> 1, rate |-> 0, leads |-> <<>>]

\* What there may be of a seed: nothing, an evaluation that misses the target PFA, one
\* without a campaign, and one whose campaign is missed or detected early.
OfFull == <<None, Over, Within(1, None, <<>>), Within(1, 0, <<>>), Within(1, 2, <<1>>)>>

OfComparator ==
    {None, Over} \cup {Within(contract, rate, <<>>) : contract \in {1, 2}, rate \in {None, 0, 2}}

\* The seeds are alike: those of the full method are in the order of OfFull.
MCStudies ==
    {("full" :> [s \in Expected |-> OfFull[k[s]]]) @@ ("comparator" :> y) :
        k \in {h \in [Expected -> DOMAIN OfFull] : h[1] <= h[2] /\ h[2] <= h[3]},
        y \in [Expected -> OfComparator]}

MCWindows ==
    {[epochs |-> 4, length |-> 2, stride |-> 1, fraction |-> <<1, 2>>],
     [epochs |-> 4, length |-> 1, stride |-> 1, fraction |-> <<1, 2>>],
     [epochs |-> 3, length |-> 1, stride |-> 2, fraction |-> <<1, 4>>]}
-----------------------------------------------------------------------------
(* Fits. *)

Epochs == 0 .. 6

\* Streams without a gap, with gaps, and one that begins late.
Streams ==
    {[e \in Epochs |-> e % 2], [e \in Epochs |-> IF e = 3 THEN Nothing ELSE 0],
     [e \in 2 .. 6 |-> 1]}

\* A shuffled range is read in rotation.
Rotation(S) == [e \in S |-> IF e = Min(S) THEN Max(S) ELSE Max({d \in S : d < e})]

LagOf(method, S) == IF method = "shuffled" THEN ShuffledLag(Rotation(S)) ELSE LaggedEpoch(S)

\* Rows are sampled by epoch, or by coalition.
Rankings ==
    {[x \in (SUBSET Clients) \X Epochs |-> 100 * x[2] + SumOf([c \in x[1] |-> 2^c])],
     [x \in (SUBSET Clients) \X Epochs |-> 100 * SumOf([c \in x[1] |-> 2^c]) + 6 - x[2]]}

Histograms == [Bins -> 0 .. Cardinality(Clients)]

Routes ==
    {[h \in Histograms |-> IF h[0] > h[1] THEN 0 ELSE 1], [h \in Histograms |-> h[0] % 2]}

Methods ==
    {"exact", "shuffled", "inclusive", "leave_one_out", "partial", "local_history", "no_outside"}

MCFits ==
    {[ranks |-> r, method |-> m, coalition |-> A, order |-> o,
      lag |-> [fold \in 0 .. CrossFolds |->
                  LagOf(m, IF fold = CrossFolds THEN Range(MCNuisance) ELSE TrainingEpochs(fold))],
      heldLag |-> [fold \in Fold |-> LagOf(m, HeldEpochs(fold))],
      route |-> [fold \in 0 .. CrossFolds |-> route[IF fold = CrossFolds THEN 2 ELSE 1]],
      purified |-> p, forced |-> forced] :
        r \in [Clients -> Streams], m \in Methods, A \in {{2}, {1, 3}}, o \in Rankings,
        route \in {g \in [{1, 2} -> Routes] : g[1] # g[2]}, p \in BOOLEAN, forced \in BOOLEAN}
-----------------------------------------------------------------------------
(* Tasks: two seeds of a real-data experiment, and of the dropout experiment. *)

MCScales == <<2, 3>>
MCFractions == <<0, 50>>
MCGridCells == <<"order one", "triple">>

MCTasks == {{Evaluation(1), Evaluation(2)}, {Dropout(1), Dropout(2)}}
-----------------------------------------------------------------------------
(* Comparators. *)

MCNativeOrder == [pair |-> 2, triple |-> 3, single |-> 1]

\* Streams around the nuisance epochs: of low and high ranks, and with gaps among the
\* nuisance epochs and after them.
LongStreams ==
    {[e \in -1 .. 8 |-> e % 2], [e \in 0 .. 8 |-> IF e \in {3, 8} THEN Nothing ELSE (e \div 2) % 2],
     [e \in 1 .. 8 |-> IF e < 5 THEN 0 ELSE 1]}

MCComparisons ==
    {[ranks |-> r, method |-> m, nearest |-> g] :
        r \in [Clients -> LongStreams], m \in {"mean", "max", "cusum"} \cup DOMAIN MCNativeOrder,
        g \in {[h \in Histograms |-> IF h[0] > h[1] THEN <<0, 1>> ELSE <<1, 0>>],
               [h \in Histograms |-> IF h[1] = 0 THEN <<1, 0>> ELSE <<0, 1>>]}}

Comparator(name, error, runtime, stops) ==
    [name |-> name, error |-> error, runtime |-> runtime, stops |-> stops,
     invariants |-> TRUE, calibrated |-> TRUE]

\* Up to three comparators in two orders of their names; some are not eligible.
MCCandidates ==
    {[i \in 1 .. n |-> Comparator(names[i], error[i], runtime[i], stops[i])] :
        n \in {2, 3}, names \in {<<1, 2, 3>>, <<3, 1, 2>>}, error \in [1 .. 3 -> 0 .. 2],
        runtime \in [1 .. 3 -> 0 .. 2], stops \in [1 .. 3 -> {0, 2}]}
-----------------------------------------------------------------------------
(* Local policies and the harness. *)

Persistence == {[required |-> 1, window |-> 1], [required |-> 2, window |-> 3],
                [required |-> 3, window |-> 5]}

Horizon == {<<1, 3, 1, 3, 3>>, <<3, 1, 1, 1, 1>>, <<2, 1, 2, 1, 2>>, <<1, 1, 1, 1, 1>>}

MCPolicies ==
    {[nuisance |-> <<2, 1, 3>>, quantiles |-> {<<2, 4>>, <<3, 4>>, <<4, 4>>}, scale |-> 4,
      persistence |-> Persistence, calibration |-> <<h, g>>, heldout |-> <<Reverse(h), g>>] :
        h \in [1 .. 5 -> 1 .. 3], g \in Horizon}

MCLayouts ==
    [nuisance: {1, 2}, horizons: 0 .. 3, warmup: 0 .. 2, horizon: 1 .. 3, harness: 0 .. 1,
     measured: 1 .. 2]

MCPasses ==
    {[factors |-> f, scores |-> <<s, [e \in 1 .. 3 |-> 2]>>,
      policies |-> <<[threshold |-> 2, required |-> p.required, window |-> p.window], q>>,
      repetitions |-> 2] :
        f \in {<<2, 2, 2>>, <<1, 4, 2>>}, s \in [1 .. 3 -> 1 .. 2], p \in Persistence,
        q \in {NoPolicy, [threshold |-> 3, required |-> 1, window |-> 1]}}

MCRows == [seed: {1, 2, 3}, latency: 1 .. 3]
-----------------------------------------------------------------------------
(* The synthetic experiments. *)

MCPerturbations == <<-1, 0, 2>>
MCSupports == <<1, 2>>
MCOneFactorSupports == <<2, 1>>
MCDevelopment == <<7, 8>>
MCLimits ==
    [derivative |-> 1, arl |-> 2, nrmse |-> 2, cosine |-> 2, stop |-> <<-1, 1>>, divergence |-> 1,
     coverage |-> 1, projection |-> 1, bias |-> 1, failures |-> <<1, 100>>, pfa |-> 1]

\* The density of an effect as large as the density vanishes at a corner of the cube: it
\* is left out, as such a corner has the probability zero.
MCEffects ==
    [generator: {"one", "two", "triple", "context"}, effect: {-3, -1, 0, 2, 5}]
        \cup [generator: {"xor"}, effect: 0 .. Density]
        \cup [generator: {"one_two", "one_three", "two_three", "all"}, effect: {0, 1, 2}]

MCExplanations ==
    [cell: SelfExclusionGrid, latent: [1 .. 3 -> {-1, 1}],
     noise: {<<<<0, 1, 0>>, <<1, -1, 1>>, <<-2, 0, 1>>, <<0, 0, 0>>, <<1, 1, -1>>>>,
             <<<<1, 1, 1>>, <<0, 2, -1>>, <<0, 0, 0>>, <<-1, 0, 1>>, <<0, 1, 1>>>>}]

\* How far the fits of the smallest support and order three get, the others being alike.
MCWorlds ==
    {[k \in ((1 .. 3) \X {1, 2} \X {1, 2} \X {1, 2}) \X {Unset, "primary", "forced"} |->
        IF k[1] = <<3, 1, 1, 1>> THEN reached[k[2]] ELSE other] :
        reached \in [{Unset, "primary", "forced"} -> {"raises", "no fit", "no support", "complete"}],
        other \in {"raises", "no support", "complete"}}

MCSizes ==
    [support: {1, 2}, heldout: {2}, nuisance: {1, 3}, evaluation: {1, 2}, samples: {1, 2},
     warmup: {1, 2}, length: {1, 2}, calibration: 0 .. 2, held: {1, 2}, replicates: {1, 2}]

MCDropouts == [target: {{1}, {1, 2}}, masks: [3 .. 5 -> SUBSET Clients]]

MCPaths ==
    [order: 1 .. 3, method: DOMAIN MethodOrder, drifts: SUBSET (SUBSET (1 .. 3) \ {{}})]

\* The observations of a development seed and of some of the expected ones.
Observations(metrics) ==
    {<<[seed |-> 7, role |-> "development"] @@ metrics[1]>>
        \o [i \in DOMAIN s |-> [seed |-> s[i], role |-> "confirmatory"] @@ m[i]] :
        s \in {<<1, 2, 3>>, <<1, 3>>, <<2>>}, m \in [1 .. 3 -> Range(metrics)]}

Metric(nrmse, pfa, stop, divergence) ==
    [nrmse |-> nrmse, cosine |-> 2, pfa |-> pfa, stop |-> stop, divergence |-> divergence]

MCHofdConditions == {<<1, 10>>, <<2, 10>>}

OfEquivalence ==
    LET good == Metric(1, TRUE, 1, 2)
        first == {good, Metric(1, TRUE, None, 0), Metric(2, TRUE, 0, 0), Metric(1, FALSE, 0, 0),
                  Metric(1, TRUE, 3, 2)}
    IN  <<[conditions |-> (<<1, 10>> :> good) @@ (<<2, 10>> :> good)],
          [conditions |-> <<1, 10>> :> good]>>
        \o SetToSeq({[conditions |-> (<<1, 10>> :> m) @@ (<<2, 10>> :> good)] : m \in first \ {good}})

OfFeasibility ==
    <<[coverage |-> 0, nrmse |-> 0, bias |-> 0, failure |-> TRUE],
      [coverage |-> 2, nrmse |-> 1, bias |-> 1, failure |-> FALSE],
      [coverage |-> 2, nrmse |-> 2, bias |-> 0, failure |-> FALSE],
      [coverage |-> 1, nrmse |-> 0, bias |-> 2, failure |-> FALSE],
      [coverage |-> 0, nrmse |-> 1, bias |-> 1, failure |-> FALSE]>>

OfHorizon ==
    <<[threshold |-> None, upper |-> None], [threshold |-> 1, upper |-> None],
      [threshold |-> 1, upper |-> 1], [threshold |-> 2, upper |-> 2]>>

OfExplanation ==
    <<[contrast |-> 1, derivative |-> 0], [contrast |-> 2, derivative |-> -2],
      [contrast |-> -1, derivative |-> 0]>>

\* The development seeds of two candidates, some missing or in another order.
OfComposition ==
    {[i \in DOMAIN s |-> [seed |-> s[i], method |-> 1, error |-> e, runtime |-> i,
                          stops |-> n, threshold |-> t[i]]]
       \o [i \in 1 .. 2 |-> [seed |-> MCDevelopment[i], method |-> 2, error |-> 1, runtime |-> 1,
                             stops |-> 0, threshold |-> u]] :
        s \in {<<7, 8>>, <<8, 7>>, <<7>>, <<>>}, e \in {0, 1, 2}, n \in {0, 1},
        t \in [{1, 2} -> {None, 1}], u \in {None, 1}}

MCClaims ==
    [experiment: {"equivalence"}, o: Observations(OfEquivalence)]
        \cup [experiment: {"feasibility"}, o: Observations(OfFeasibility)]
        \cup [experiment: {"finite horizon"}, o: Observations(OfHorizon)]
        \cup [experiment: {"self-explanation"}, o: Observations(OfExplanation)]
        \cup [experiment: {"pure order"}, o: Observations(<<[drift |-> 1], [drift |-> -1], [drift |-> 2]>>)]
        \cup [experiment: {"signed theorem"}, o: Observations(<<[arl |-> 1], [arl |-> 3]>>)]
        \cup [experiment: {"composition"}, methods: {<<1, 2>>, <<2, 1>>}, o: OfComposition]
=============================================================================

---------------------------- MODULE RankingMetrics ----------------------------
(***************************************************************************)
(* How well a detector ranks the epochs of campaigns above the others      *)
(* (evaluation/metrics.py): the area under the ROC curve from midranks,    *)
(* and the average precision from the groups of tied scores, both as       *)
(* <<numerator, denominator>>.                                             *)
(***************************************************************************)
EXTENDS Integers, FiniteSets, Functions, FiniteSetsExt

CONSTANT NoMetric

Positives(labels) == {i \in DOMAIN labels : labels[i]}
Negatives(labels) == DOMAIN labels \ Positives(labels)

\* Both kinds of epochs are there.
IsDefined(labels) == Positives(labels) # {} /\ Negatives(labels) # {}

Total(S, f(_)) == FoldSet(LAMBDA x, y : f(x) + y, 0, S)

\* detector_ranking_metrics: an epoch of a stream is malicious when the client takes part
\* in a campaign that is going on.
Labels(client, epochs, campaigns) == [e \in epochs |->
    \E k \in campaigns : client \in k.clients /\ k.start <= e /\ e <= k.end]

\* Mutant: tied epochs are ranked by their place.
TwiceRankByPlace(scores, i) ==
    2 * Cardinality({j \in DOMAIN scores : scores[j] < scores[i] \/ (scores[j] = scores[i] /\ j <= i)})

\* Twice the average of the places that the epochs with one score take.
TwiceRank(scores, i) ==
    2 * Cardinality({j \in DOMAIN scores : scores[j] < scores[i]})
        + Cardinality({j \in DOMAIN scores : scores[j] = scores[i]}) + 1

\* auroc
Auroc(scores, labels) ==
    LET p == Cardinality(Positives(labels))
        n == Cardinality(Negatives(labels))
        Rank(i) == TwiceRank(scores, i)
    IN  IF ~IsDefined(labels) THEN NoMetric
        ELSE <<Total(Positives(labels), Rank) - p * (p + 1), 2 * p * n>>

\* The chance that an epoch of a campaign scores higher than another, a tie counting half.
PairwiseAuroc(scores, labels) ==
    LET pairs == Positives(labels) \X Negatives(labels)
    IN  <<2 * Cardinality({x \in pairs : scores[x[1]] > scores[x[2]]})
            + Cardinality({x \in pairs : scores[x[1]] = scores[x[2]]}),
          2 * Cardinality(pairs)>>

\* Epochs that score at least v.
AtLeast(scores, v) == {i \in DOMAIN scores : scores[i] >= v}

\* Mutant: precision before the group of tied epochs is examined as a whole.
AuprcBeforeTheGroup(scores, labels, scale) ==
    LET Group(v) == (scale \div Cardinality(AtLeast(scores, v)))
                        * Cardinality({i \in Positives(labels) : scores[i] > v})
                        * Cardinality({i \in Positives(labels) : scores[i] = v})
    IN  IF ~IsDefined(labels) THEN NoMetric ELSE Total(Range(scores), Group)

\* auprc: from the highest score down, precision times the recall gained by the group,
\* in units of 1 / (scale * positives).  scale is a multiple of every number of epochs.
Auprc(scores, labels, scale) ==
    LET Gained(v) == Cardinality({i \in Positives(labels) : scores[i] = v})
        Found(v) == AtLeast(scores, v) \cap Positives(labels)
        Group(v) == (scale \div Cardinality(AtLeast(scores, v))) * Cardinality(Found(v)) * Gained(v)
    IN  IF ~IsDefined(labels) THEN NoMetric
        ELSE Total(Range(scores), Group)

\* The mean, over the epochs of campaigns, of the precision at their score.
MeanPrecision(scores, labels, scale) ==
    LET At(i) == LET above == AtLeast(scores, scores[i])
                 IN  (scale \div Cardinality(above)) * Cardinality(above \cap Positives(labels))
    IN  Total(Positives(labels), At)
=============================================================================

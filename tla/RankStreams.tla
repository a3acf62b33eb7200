------------------------------ MODULE RankStreams ------------------------------
(***************************************************************************)
(* Whose ranks a scoring reads (emhi/structure.py).  rank_at_epoch looks   *)
(* ranks up in the streams of the artifact of the last lookup, kept in two *)
(* variables of the process and recognised by the artifact's fingerprint   *)
(* alone.  A worker of a pool takes one task after another; its lookups    *)
(* are the sequence of the artifacts its tasks ask for.                    *)
(*                                                                         *)
(* An artifact is a fingerprint and what its streams were computed from.   *)
(***************************************************************************)
EXTENDS Integers, Sequences, SequencesExt

CONSTANTS
    Folds,        \* context.nuisance_crossfit.fold_count
    GridCells,    \* the cells of the pure-order grid of one method, in grid order
    Scales,       \* robustness.scalability_client_counts, a sequence
    Fractions,    \* generators.client_dropout.unavailable_fractions, in hundredths
    Nobody        \* no artifact

ASSUME StreamsAssumption ==
    /\ Folds \in Nat \ {0}
    /\ Scales \in Seq(Nat) /\ Scales # <<>>
    \* The configurations of the repository have fractions: a cache is of filtered ranks
    \* when a scale ends.
    /\ Fractions \in Seq(Nat) /\ Fractions # <<>>

Artifact(fingerprint, streams) == [fingerprint |-> fingerprint, streams |-> streams]

\* clear_rank_lookup_cache in place of a lookup
Clear == Nobody

\* Mutant: the training range is left out.
FoldFingerprintOfScores(base, fold) == <<"fold", base, 1>>

\* fold_rank_fingerprint
FoldFingerprint(base, fold) == <<"fold", base, fold>>

\* build_marginal_rank_artifact, with all nuisance epochs as the reference
Complete(base, rows) == Artifact(base, <<rows, "all">>)

\* and with those outside of a fold
OfFold(base, rows, fold) == Artifact(FoldFingerprint(base, fold), <<rows, fold>>)

\* The lookups of build_emhi_fit_artifact: a context over the complete ranks, each
\* fold, and the projection over the complete ranks.
Fit(base, rows) ==
    <<Complete(base, rows)>>
        \o [fold \in 1 .. Folds |-> OfFold(base, rows, fold)]
        \o <<Complete(base, rows)>>
-----------------------------------------------------------------------------
(* What the tasks of the experiments look up. *)

\* _evaluate_emhi_seed_cell: a seed of a real-data experiment, whose EMHI methods are
\* fitted and scored over the same ranks one after the other.
EmhiCell(seed) == Fit(<<"ranks", seed>>, <<"ranks", seed>>) \o <<Complete(<<"ranks", seed>>, <<"ranks", seed>>)>>

Evaluation(seed) == EmhiCell(seed) \o EmhiCell(seed)

\* _evaluate_dropout_sparsity_seed: the seed of a scale's artifact is moved by the
\* number of clients; the filtered ranks carry the seed, the scale and the fraction.
DropoutOfScale(seed, n) ==
    LET base == <<"dropout", seed + n>>
        rows == <<"dropout", seed, n>>
    IN  Fit(base, rows) \o <<Complete(base, rows)>>
            \o [k \in DOMAIN Fractions |->
                    Artifact(<<"sparse", seed, n, Fractions[k]>>, <<rows, Fractions[k]>>)]
            \o <<Clear>>

Dropout(seed) == FlattenSeq([k \in DOMAIN Scales |-> DropoutOfScale(seed, Scales[k])])

\* _pure_order_evaluation_artifact: producer, seed and method make the fingerprint; the
\* rows are of the cell as well.
PureOrderArtifact(seed, method, cell) ==
    Complete(<<"pure order", seed, method>>, <<"pure order", seed, cell>>)

\* evaluate_fitted_pure_order_grid: one fit over the first cell, then every cell is
\* scored.
PureOrderGrid(seed, method) ==
    Fit(<<"pure order", seed, method>>, <<"pure order", seed, GridCells[1]>>)
        \o [k \in DOMAIN GridCells |-> PureOrderArtifact(seed, method, GridCells[k])]
-----------------------------------------------------------------------------
(* The cache of a process that was forked with the cache of its parent. *)

\* _client_rank_streams, for each lookup of a sequence
Found(requests, inherited) ==
    LET Cached[k \in 0 .. Len(requests)] ==
            IF k = 0 THEN inherited
            ELSE IF requests[k] = Clear THEN Nobody
            ELSE LET last == Cached[k - 1]
                 IN  IF last # Nobody /\ last.fingerprint = requests[k].fingerprint
                     THEN last
                     ELSE requests[k]
    IN  [k \in DOMAIN requests |-> Cached[k]]

\* The streams that were looked up are those of the artifact that was asked for.
ServesWhatIsAsked(requests, inherited) ==
    LET found == Found(requests, inherited)
    IN  \A k \in DOMAIN requests :
            requests[k] # Clear => found[k].streams = requests[k].streams
=============================================================================

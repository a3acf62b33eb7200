-------------------------------- MODULE EmhiFit --------------------------------
(***************************************************************************)
(* The fit of a coalition (emhi/calibration.py, emhi/contexts.py,          *)
(* emhi/projection.py) and the route an epoch takes through it when it is  *)
(* scored (evaluation/sequential.py): which epochs are read where.         *)
(*                                                                         *)
(* Of a rank only its histogram bin is kept, and None for no rank.  K-means*)
(* is outside: a context is its route, any function from histograms to     *)
(* cells.  Regression, moments and the numerical checks of a design are    *)
(* outside too: what is kept of them is the set of epochs they are over.   *)
(***************************************************************************)
EXTENDS Integers, Sequences, FiniteSets, Functions, FiniteSetsExt

CONSTANTS
    Clients,         \* the selected clients, numbers in the order of their names
    Nuisance,        \* nuisance_fit_epochs, in ascending order
    Lag,             \* context.outside_lag_epochs
    MinimumOutside,  \* context.minimum_available_outside_clients
    OutsideShare,    \* <<a, b>>: minimum_available_outside_fraction is a / b
    Bins,            \* histogram bins
    Cells,           \* 0 .. primary_cell_count - 1
    RowLimit,        \* context.kmeans.max_fit_rows
    Support,         \* minimum_support_epochs of each order
    CrossFolds,      \* context.nuisance_crossfit.fold_count
    RidgeFolds,      \* projection.cross_validation.fold_count
    Nothing          \* no rank, no row, no cell

ASSUME FitAssumption ==
    /\ Clients \subseteq Int /\ IsFiniteSet(Clients)
    /\ Lag \in Nat /\ MinimumOutside \in Nat \ {0} /\ RowLimit \in Nat
    /\ CrossFolds \in Nat \ {0} /\ RidgeFolds \in Nat \ {0}
    /\ OutsideShare \in Nat \X (Nat \ {0})
    /\ Nuisance \in Seq(Int)
    \* nothing is neither an epoch's cell nor its row nor a set of epochs
    /\ Nothing \notin Cells /\ Nothing # 0 /\ Nothing # <<>>
    /\ \A row \in [Bins -> 0 .. Cardinality(Clients)] : row # Nothing
    /\ \A S \in SUBSET Range(Nuisance) : S # Nothing

Order(A) == Cardinality(A)

Coalitions(k) == {A \in SUBSET Clients : Order(A) = k}

\* rank_at_epoch
RankAt(r, c, e) == IF e \in DOMAIN r[c] THEN r[c][e] ELSE Nothing
-----------------------------------------------------------------------------
(***************************************************************************)
(* Blocked folds.                                                          *)
(***************************************************************************)
\* blocked_fold_bounds: the positions before and at the end of each fold.
FoldStart(n, k, fold) == fold * (n \div k) + (IF fold < n % k THEN fold ELSE n % k)

FoldEnd(n, k, fold) == FoldStart(n, k, fold + 1)

\* fold_observation_indexes
HeldEpochs(fold) ==
    {Nuisance[i] : i \in FoldStart(Len(Nuisance), CrossFolds, fold) + 1
                            .. FoldEnd(Len(Nuisance), CrossFolds, fold)}

TrainingEpochs(fold) == Range(Nuisance) \ HeldEpochs(fold)
-----------------------------------------------------------------------------
(***************************************************************************)
(* The context of a coalition at an epoch.                                 *)
(***************************************************************************)
Smallest(A, k) == {c \in A : Cardinality({d \in A : d < c}) < k}

\* Whose ranks make up the context (_context_members).
ContextMembers(method, A) ==
    CASE method \in {"exact", "forced", "shuffled"} -> Clients \ A
      [] method = "inclusive" -> Clients
      [] method = "leave_one_out" -> Clients \ Smallest(A, 1)
      [] method = "partial" -> Clients \ Smallest(A, IF Order(A) >= 3 THEN 2 ELSE 1)
      [] method = "local_history" -> A
      [] method = "no_outside" -> {}

\* required_outside_client_count
RequiredOutside(n) ==
    Max({MinimumOutside, (OutsideShare[1] * n + OutsideShare[2] - 1) \div OutsideShare[2]})

Available(r, members, e) == {c \in members : RankAt(r, c, e) # Nothing}

\* outside_context_histogram, before it is divided by the number available
Histogram(r, members, e) ==
    [b \in Bins |-> Cardinality({c \in members : RankAt(r, c, e) = b})]

\* Mutant: a row may look back across the border of its fold.
ContextRowOfAnyLag(r, method, A, e, lag, permitted) ==
    LET members == ContextMembers(method, A)
    IN  IF method = "no_outside" THEN <<>>
        ELSE IF Cardinality(Available(r, members, lag[e])) < RequiredOutside(Cardinality(members))
        THEN Nothing
        ELSE Histogram(r, members, lag[e])

\* _context_row.  lag[e] is the epoch whose ranks are the context of e.
ContextRow(r, method, A, e, lag, permitted) ==
    LET members == ContextMembers(method, A)
    IN  IF method = "no_outside" THEN <<>>
        ELSE IF \/ permitted # Nothing /\ lag[e] \notin permitted
                \/ Cardinality(Available(r, members, lag[e]))
                        < RequiredOutside(Cardinality(members))
        THEN Nothing
        ELSE Histogram(r, members, lag[e])

\* lagged_context_epoch
LaggedEpoch(epochs) == [e \in epochs |-> e - Lag]

\* shuffled_outside_context_lag_lookup, for a permutation of the epochs
ShuffledLag(permutation) == [e \in DOMAIN permutation |-> permutation[e] - Lag]

\* Mutant: one client fewer is enough to be trained on.
CandidateRowsOneFewer(r, method, k, epochs, lag, permitted) ==
    {x \in Coalitions(k) \X epochs :
        LET members == ContextMembers(method, x[1])
            at == lag[x[2]]
        IN  /\ permitted = Nothing \/ at \in permitted
            /\ Cardinality(Available(r, members, at)) >= RequiredOutside(Cardinality(members)) - 1}

\* fit_order_context: the rows that may be trained on, before any is built.
CandidateRows(r, method, k, epochs, lag, permitted) ==
    {x \in Coalitions(k) \X epochs :
        LET members == ContextMembers(method, x[1])
            at == lag[x[2]]
        IN  /\ permitted = Nothing \/ at \in permitted
            /\ Cardinality(Available(r, members, at)) >= RequiredOutside(Cardinality(members))}

\* Those that are built: the ones of least rank in an order of all coalitions and epochs.
SelectedRows(candidates, order) ==
    {x \in candidates : Cardinality({y \in candidates : order[y] < order[x]}) < RowLimit}

TrainingRows(r, method, k, epochs, lag, permitted, order) ==
    {x \in SelectedRows(CandidateRows(r, method, k, epochs, lag, permitted), order) :
        ContextRow(r, method, x[1], x[2], lag, permitted) # Nothing}

\* The context of an order is fitted when there is a row for each cell.
ContextIsFitted(r, method, k, epochs, lag, permitted, order) ==
    \/ method = "no_outside"
    \/ Cardinality(TrainingRows(r, method, k, epochs, lag, permitted, order)) >= Cardinality(Cells)

\* _effective_cell_count
CellsOf(method) == IF method = "no_outside" THEN {0} ELSE Cells

\* assign_context_cell
CellOf(method, route, row) == IF method = "no_outside" THEN 0 ELSE route[row]

\* _context_cell_epoch_assignment
CellEpochs(r, method, A, epochs, lag, permitted, route, cell) ==
    {e \in epochs :
        LET row == ContextRow(r, method, A, e, lag, permitted)
        IN  row # Nothing /\ CellOf(method, route, row) = cell}
-----------------------------------------------------------------------------
(***************************************************************************)
(* A fit f is of one coalition: the rank artifact, its method and order of *)
(* rows, the route and the lag of each fold and, at CrossFolds, those of   *)
(* the complete fit, the lag of each held range, whether it is purified    *)
(* and whether abstention is forbidden.  A shuffled lag is a permutation   *)
(* of its own range.                                                       *)
(***************************************************************************)
IsPresent(f, e) == \A c \in f.coalition : RankAt(f.ranks, c, e) # Nothing

\* _conditioned_rows: the epochs at which every member has a rank.
ConditionedRows(f, epochs) == {e \in epochs : IsPresent(f, e)}

\* _conditional_rank_references: each member has a rank to be compared with.
HasReferences(f, epochs) ==
    \A c \in f.coalition : \E e \in epochs : RankAt(f.ranks, c, e) # Nothing

\* calibrate_innovations_on_nuisance_fit gives a result.
IsCalibrated(f, epochs) ==
    Cardinality(ConditionedRows(f, epochs)) >= Max({RidgeFolds, 2})

FoldContextIsFitted(f, fold) ==
    ContextIsFitted(f.ranks, f.method, Order(f.coalition), TrainingEpochs(fold),
                    f.lag[fold], TrainingEpochs(fold), f.order)

\* The epochs a cell of a fold is trained on; none when the cell is skipped.
TrainingCell(f, fold, cell) ==
    LET training == TrainingEpochs(fold)
        epochs == CellEpochs(f.ranks, f.method, f.coalition, training, f.lag[fold], training,
                             f.route[fold], cell)
    IN  IF ~FoldContextIsFitted(f, fold) THEN {}
        ELSE IF Cardinality(epochs) >= Support[Order(f.coalition)] THEN epochs
        ELSE IF f.forced THEN training
        ELSE {}

\* Mutant: a held epoch counts in every cell.
HeldInnovationsOfEveryCell(f, fold, cell) ==
    LET training == TrainingCell(f, fold, cell)
    IN  {e \in HeldEpochs(fold) :
            /\ training # {} /\ (f.purified => IsCalibrated(f, training))
            /\ ContextRow(f.ranks, f.method, f.coalition, e, f.heldLag[fold], Nothing) # Nothing
            /\ IsPresent(f, e) /\ HasReferences(f, training)}

\* _cross_fitted_coalition_statistics: the held epochs a fold adds to a cell.
HeldInnovations(f, fold, cell) ==
    LET training == TrainingCell(f, fold, cell)
        Row(e) == ContextRow(f.ranks, f.method, f.coalition, e, f.heldLag[fold], Nothing)
    IN  {e \in HeldEpochs(fold) :
            /\ training # {} /\ (f.purified => IsCalibrated(f, training))
            /\ IF Row(e) = Nothing THEN f.forced
               ELSE CellOf(f.method, f.route[fold], Row(e)) = cell
            /\ IsPresent(f, e) /\ HasReferences(f, training)}

Fold == 0 .. CrossFolds - 1

\* A cell has moments when there are two innovations to take them over.
HasStatistics(f, cell) ==
    /\ Len(Nuisance) >= CrossFolds
    /\ Cardinality({x \in Fold \X Range(Nuisance) : x[2] \in HeldInnovations(f, x[1], cell)}) >= 2

\* The epochs of a cell of the complete fit (build_emhi_fit_artifact).
FitEpochs(f, cell) ==
    LET epochs == CellEpochs(f.ranks, f.method, f.coalition, Range(Nuisance), f.lag[CrossFolds], Nothing,
                             f.route[CrossFolds], cell)
    IN  IF f.forced /\ Cardinality(epochs) < Support[Order(f.coalition)] THEN Range(Nuisance)
        ELSE epochs

OrderContextIsFitted(f) ==
    ContextIsFitted(f.ranks, f.method, Order(f.coalition), Range(Nuisance), f.lag[CrossFolds], Nothing, f.order)

\* _fit_projection_cell, for a design that is finite and well conditioned.
CellIsFitted(f, cell) ==
    /\ OrderContextIsFitted(f) /\ cell \in CellsOf(f.method)
    /\ f.forced \/ Cardinality(FitEpochs(f, cell)) >= Support[Order(f.coalition)]
    /\ HasStatistics(f, cell)
    /\ f.purified => IsCalibrated(f, FitEpochs(f, cell))
-----------------------------------------------------------------------------
(***************************************************************************)
(* Scoring.                                                                *)
(***************************************************************************)
\* Mutant: a coalition of one keeps its member in the partial context.
ScoringMembersOfPartial(method, A) ==
    IF method = "partial" /\ Order(A) = 1 THEN Clients ELSE ContextMembers(method, A)

\* _context_members of evaluation/sequential.py
ScoringMembers(method, A) ==
    CASE method \in {"exact", "forced", "shuffled"} -> Clients \ A
      [] method = "inclusive" -> Clients
      [] method = "leave_one_out" -> Clients \ Smallest(A, 1)
      [] method = "partial" -> Clients \ Smallest(A, IF Order(A) >= 3 THEN 2 ELSE 1)
      [] method = "local_history" -> A
      [] method = "no_outside" -> {}

\* _coalition_context_cell, for an order whose context is fitted
ScoringCell(f, e, lag) ==
    LET members == ScoringMembers(f.method, f.coalition)
    IN  IF f.method = "no_outside" THEN 0
        ELSE IF Cardinality(Available(f.ranks, members, lag[e])) >= RequiredOutside(Cardinality(members))
        THEN f.route[CrossFolds][Histogram(f.ranks, members, lag[e])]
        ELSE IF f.forced THEN 0
        ELSE Nothing

\* The cells of an artifact that are fitted.
FittedCells(f) == {cell \in CellsOf(f.method) : CellIsFitted(f, cell)}

\* _coalition_standardized_atom_and_norm_at_epoch: the cell that scores an epoch.
ScoredBy(f, fitted, e, lag) ==
    LET cell == ScoringCell(f, e, lag)
    IN  IF /\ OrderContextIsFitted(f) /\ cell \in fitted
           /\ IsPresent(f, e) /\ HasReferences(f, FitEpochs(f, cell))
        THEN cell ELSE Nothing
-----------------------------------------------------------------------------
(***************************************************************************)
(* The ridge penalty: candidates 1 .. Len(mse) in ascending order, mse the *)
(* weighted held-fold error of each.                                       *)
(***************************************************************************)
\* Mutant: the error to beat is that of the penalty selected last.
SelectRidgeDrifting(mse, tolerance) ==
    LET Pick[i \in DOMAIN mse] ==
            IF i = 1 THEN 1
            ELSE IF mse[i] + tolerance < mse[Pick[i - 1]] THEN i
            ELSE IF mse[i] <= mse[Pick[i - 1]] + tolerance THEN i
            ELSE Pick[i - 1]
    IN  Pick[Len(mse)]

\* select_ridge_penalty: the selected penalty, and the least error so far.
SelectRidge(mse, tolerance) ==
    LET Pick[i \in DOMAIN mse] ==
            IF i = 1 THEN <<1, mse[1]>>
            ELSE LET last == Pick[i - 1]
                 IN  IF mse[i] + tolerance < last[2] THEN <<i, mse[i]>>
                     ELSE IF mse[i] <= last[2] + tolerance
                     THEN <<i, Min({last[2], mse[i]})>>
                     ELSE last
    IN  Pick[Len(mse)][1]
=============================================================================

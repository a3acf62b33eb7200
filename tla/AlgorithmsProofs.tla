--------------------------- MODULE AlgorithmsProofs ---------------------------
(***************************************************************************)
(* Proofs about Algorithms: the epochs that a fit reads, holds out and     *)
(* scores, and its ridge penalty; the ranks that a worker looks up; the    *)
(* areas under the curves and the windows with the most events; the epochs *)
(* that are timed; and what the comparators are computed from and how they *)
(* stop.                                                                   *)
(***************************************************************************)
EXTENDS Algorithms, FiniteSetTheorems, SequenceTheorems, WellFoundedInduction, TLAPS

-----------------------------------------------------------------------------
(***************************************************************************)
(* Numbers and finite sets of them.                                        *)
(***************************************************************************)
\* A nonempty set of numbers has a least one, which is its Min.
LEMMA LeastNumber ==
    ASSUME NEW S, S \subseteq Nat, S # {}
    PROVE  Min(S) \in S /\ \A x \in S : Min(S) <= x
<1> DEFINE less == OpToRel(<, Nat)
<1>1. \A x, y \in Nat : <<x, y>> \in less <=> x < y
  BY Zenon DEF OpToRel
<1>2. IsWellFoundedOn(less, Nat)
  BY NatLessThanWellFounded, Zenon
<1> HIDE DEF less
<1>3. PICK m \in S : \A x \in S : <<x, m>> \notin less
  BY <1>2, WFMin
<1>4. \A x \in S : x \in Nat /\ m \in Nat /\ ~(x < m)
  BY <1>1, <1>3
<1>5. \A x \in S : m <= x
  BY <1>4
<1> QED BY <1>5 DEF Min

\* Induction, for a set of numbers.
LEMMA AllNumbers ==
    ASSUME NEW S, 0 \in S, \A n \in Nat : n \in S => n + 1 \in S
    PROVE  Nat \subseteq S
<1> SUFFICES ASSUME Nat \ S # {} PROVE FALSE
  OBVIOUS
<1> DEFINE m == Min(Nat \ S)
<1>1. m \in Nat \ S /\ \A x \in Nat \ S : m <= x
  BY LeastNumber
<1> HIDE DEF m
<1>2. m - 1 \in Nat
  BY <1>1
<1>3. m - 1 \in S
  BY <1>1, <1>2
<1>4. m \in S
  BY <1>1, <1>2, <1>3
<1> QED BY <1>1, <1>4

\* Of finitely many integers one is least: the one with the fewest of them before it.
LEMMA LeastOfFinite ==
    ASSUME NEW S, S \subseteq Int, IsFiniteSet(S), S # {}
    PROVE  \E m \in S : \A x \in S : m <= x
<1> DEFINE Before(x) == {y \in S : y < x}
           Ranks == {Cardinality(Before(x)) : x \in S}
<1>1. \A x \in S : IsFiniteSet(Before(x)) /\ Cardinality(Before(x)) \in Nat
  <2> TAKE x \in S
  <2>1. Before(x) \subseteq S
    OBVIOUS
  <2> QED BY <2>1, FS_Subset, FS_CardinalityType
<1>2. PICK m \in S : \A x \in S : Cardinality(Before(m)) <= Cardinality(Before(x))
  <2> HIDE DEF Before
  <2>1. Ranks \subseteq Nat /\ Ranks # {}
    BY <1>1
  <2>2. PICK r \in Ranks : \A q \in Ranks : r <= q
    <3> HIDE DEF Ranks
    <3> QED BY <2>1, LeastNumber
  <2> QED BY <2>2
<1>3. ASSUME NEW x \in S, x < m PROVE FALSE
  <2>1. x \in Int /\ m \in Int /\ \A y \in S : y \in Int
    OBVIOUS
  <2>2. ~(x < x) /\ \A y \in S : y < x => y < m
    BY <1>3, <2>1
  <2>3. Before(x) \subseteq Before(m) /\ x \in Before(m) /\ x \notin Before(x)
    BY <1>3, <2>2
  <2> HIDE DEF Before
  <2>4. Cardinality(Before(x)) \in Nat /\ Cardinality(Before(m)) \in Nat /\ IsFiniteSet(Before(m))
    BY <1>1
  <2>5. Cardinality(Before(x)) <= Cardinality(Before(m))
    BY <2>3, <2>4, FS_Subset
  <2>6. Cardinality(Before(x)) # Cardinality(Before(m))
    BY <2>3, <2>4, FS_Subset
  <2>7. Cardinality(Before(m)) <= Cardinality(Before(x))
    BY <1>2
  <2> QED BY <2>4, <2>5, <2>6, <2>7
<1>4. \A x \in S : x \in Int /\ m \in Int /\ ~(x < m)
  BY <1>3
<1>5. \A x \in S : m <= x
  BY <1>4
<1> QED BY <1>5

\* The values of a function of finitely many arguments are finitely many.
LEMMA FiniteImage ==
    ASSUME NEW f, IsFiniteSet(DOMAIN f)
    PROVE  IsFiniteSet({f[x] : x \in DOMAIN f})
<1> DEFINE T == {f[x] : x \in DOMAIN f} g == [x \in DOMAIN f |-> f[x]]
<1>1. g \in Surjection(DOMAIN f, T)
  BY DEF Surjection
<1> HIDE DEF g, T
<1>2. IsFiniteSet(T)
  BY <1>1, FS_Surjection
<1> QED BY <1>2 DEF T

\* They have a first and a last one.
LEMMA FirstAndLast ==
    ASSUME NEW S, S \subseteq Int, IsFiniteSet(S), S # {}
    PROVE  /\ Min(S) \in S /\ \A x \in S : Min(S) <= x
           /\ Max(S) \in S /\ \A x \in S : x <= Max(S)
<1>1. Min(S) \in S /\ \A x \in S : Min(S) <= x
  BY LeastOfFinite DEF Min
<1>2. \E m \in S : \A x \in S : m >= x
  <2> DEFINE negated == {-x : x \in S}
  <2>1. IsFiniteSet(negated) /\ negated # {}
    <3> DEFINE f == [x \in S |-> -x]
    <3>1. DOMAIN f = S /\ {f[x] : x \in DOMAIN f} = negated
      OBVIOUS
    <3> HIDE DEF f, negated
    <3>2. IsFiniteSet(negated)
      BY <3>1, FiniteImage
    <3> QED BY <3>2 DEF negated
  <2>2. negated \subseteq Int
    OBVIOUS
  <2>3. PICK n \in negated : \A y \in negated : n <= y
    <3> HIDE DEF negated
    <3> QED BY <2>1, <2>2, LeastOfFinite
  <2>4. PICK m \in S : n = -m
    OBVIOUS
  <2>5. \A x \in S : x \in Int /\ m \in Int /\ -m <= -x
    BY <2>3, <2>4
  <2>6. \A x \in S : m >= x
    BY <2>5
  <2> QED BY <2>6
<1>3. Max(S) \in S /\ \A x \in S : Max(S) >= x
  BY <1>2 DEF Max
<1>4. \A x \in S : x \in Int /\ Max(S) \in Int
  BY <1>3
<1> QED BY <1>1, <1>3, <1>4
-----------------------------------------------------------------------------
(***************************************************************************)
(* The fit.                                                                *)
(***************************************************************************)
\* The clients of a context are selected clients.
LEMMA MembersAreClients ==
    ASSUME NEW f \in Fits, NEW A \in Coalitions(Order(f.coalition))
    PROVE  ContextMembers(f.method, A) \subseteq Clients
<1>1. A \subseteq Clients
  BY DEF Coalitions
<1>2. f.method \in {"exact", "forced", "shuffled", "inclusive", "leave_one_out", "partial",
                    "local_history", "no_outside"}
  BY FitsAssumption
<1>3. CASE f.method \in {"exact", "forced", "shuffled"}
  BY <1>3 DEF ContextMembers
<1>4. CASE f.method = "inclusive"
  BY <1>4 DEF ContextMembers
<1>5. CASE f.method = "leave_one_out"
  BY <1>5 DEF ContextMembers
<1>6. CASE f.method = "partial"
  BY <1>6 DEF ContextMembers
<1>7. CASE f.method = "local_history"
  BY <1>1, <1>7 DEF ContextMembers
<1>8. CASE f.method = "no_outside"
  BY <1>8 DEF ContextMembers
<1> QED BY <1>2, <1>3, <1>4, <1>5, <1>6, <1>7, <1>8

\* What is taken away at some epochs is not missed at another.
LEMMA WithoutElsewhere ==
    ASSUME NEW r, DOMAIN r = Clients, NEW S, NEW e, e \notin S, NEW members, members \subseteq Clients
    PROVE  /\ \A c \in Clients : RankAt(Without(r, S), c, e) = RankAt(r, c, e)
           /\ Available(Without(r, S), members, e) = Available(r, members, e)
           /\ Histogram(Without(r, S), members, e) = Histogram(r, members, e)
<1>1. \A c \in Clients : RankAt(Without(r, S), c, e) = RankAt(r, c, e)
  BY DEF RankAt, Without
<1>2. Available(Without(r, S), members, e) = Available(r, members, e)
  BY <1>1 DEF Available
<1>3. \A b : {c \in members : RankAt(Without(r, S), c, e) = b} = {c \in members : RankAt(r, c, e) = b}
  BY <1>1
<1>4. Histogram(Without(r, S), members, e) = Histogram(r, members, e)
  BY <1>3 DEF Histogram
<1> QED BY <1>1, <1>2, <1>4

\* The rows of a fold look only at its training epochs.
LEMMA RowsOfAFold ==
    ASSUME NEW f \in Fits, NEW fold \in Fold, NEW A \in Coalitions(Order(f.coalition)), NEW e
    PROVE  LET T == TrainingEpochs(fold)
               without == Without(f.ranks, HeldEpochs(fold))
           IN  ContextRow(without, f.method, A, e, f.lag[fold], T)
                 = ContextRow(f.ranks, f.method, A, e, f.lag[fold], T)
<1> DEFINE T == TrainingEpochs(fold)
           without == Without(f.ranks, HeldEpochs(fold))
           members == ContextMembers(f.method, A)
           at == f.lag[fold][e]
<1> SUFFICES ContextRow(without, f.method, A, e, f.lag[fold], T)
               = ContextRow(f.ranks, f.method, A, e, f.lag[fold], T)
  OBVIOUS
<1>1. DOMAIN f.ranks = Clients
  BY FitsAssumption
<1>2. members \subseteq Clients
  BY MembersAreClients
<1>3. T # Nothing
  BY FitAssumption DEF TrainingEpochs
<1>4. CASE at \in T
  <2>1. at \notin HeldEpochs(fold)
    BY <1>4 DEF TrainingEpochs
  <2>2. /\ Available(without, members, at) = Available(f.ranks, members, at)
        /\ Histogram(without, members, at) = Histogram(f.ranks, members, at)
    <3> HIDE DEF members, at
    <3> QED BY <1>1, <1>2, <2>1, WithoutElsewhere
  <2> HIDE DEF without, T
  <2> QED BY <2>2 DEF ContextRow
<1>5. CASE at \notin T
  <2> HIDE DEF without, T
  <2> QED BY <1>3, <1>5 DEF ContextRow
<1> QED BY <1>4, <1>5

\* So do the rows it may be trained on.
LEMMA CandidatesOfAFold ==
    ASSUME NEW f \in Fits, NEW fold \in Fold
    PROVE  LET T == TrainingEpochs(fold)
               without == Without(f.ranks, HeldEpochs(fold))
               k == Order(f.coalition)
           IN  /\ CandidateRows(without, f.method, k, T, f.lag[fold], T)
                    = CandidateRows(f.ranks, f.method, k, T, f.lag[fold], T)
               /\ TrainingRows(without, f.method, k, T, f.lag[fold], T, f.order)
                    = TrainingRows(f.ranks, f.method, k, T, f.lag[fold], T, f.order)
<1> DEFINE T == TrainingEpochs(fold)
           without == Without(f.ranks, HeldEpochs(fold))
           k == Order(f.coalition)
           ofAll == CandidateRows(f.ranks, f.method, k, T, f.lag[fold], T)
           ofTraining == CandidateRows(without, f.method, k, T, f.lag[fold], T)
<1>1. DOMAIN f.ranks = Clients
  BY FitsAssumption
<1>2. T # Nothing
  BY FitAssumption DEF TrainingEpochs
<1>3. \A x \in Coalitions(k) \X T : f.lag[fold][x[2]] \in T =>
        Available(without, ContextMembers(f.method, x[1]), f.lag[fold][x[2]])
          = Available(f.ranks, ContextMembers(f.method, x[1]), f.lag[fold][x[2]])
  <2> SUFFICES ASSUME NEW x \in Coalitions(k) \X T, f.lag[fold][x[2]] \in T
               PROVE  Available(without, ContextMembers(f.method, x[1]), f.lag[fold][x[2]])
                        = Available(f.ranks, ContextMembers(f.method, x[1]), f.lag[fold][x[2]])
    OBVIOUS
  <2>1. ContextMembers(f.method, x[1]) \subseteq Clients
    BY MembersAreClients
  <2>2. f.lag[fold][x[2]] \notin HeldEpochs(fold)
    BY DEF TrainingEpochs
  <2> QED BY <1>1, <2>1, <2>2, WithoutElsewhere
<1> HIDE DEF T, without, k
<1>4. ofTraining = ofAll
  BY <1>2, <1>3 DEF CandidateRows
<1>5. \A x \in ofAll : x[1] \in Coalitions(k)
  BY DEF CandidateRows
<1> HIDE DEF ofAll, ofTraining
<1>6. \A x \in SelectedRows(ofAll, f.order) :
        ContextRow(without, f.method, x[1], x[2], f.lag[fold], T)
          = ContextRow(f.ranks, f.method, x[1], x[2], f.lag[fold], T)
  <2> TAKE x \in SelectedRows(ofAll, f.order)
  <2>1. x[1] \in Coalitions(k)
    BY <1>5 DEF SelectedRows
  <2> QED BY <2>1, RowsOfAFold DEF T, without, k
<1>7. TrainingRows(without, f.method, k, T, f.lag[fold], T, f.order)
        = TrainingRows(f.ranks, f.method, k, T, f.lag[fold], T, f.order)
  BY <1>4, <1>6 DEF TrainingRows, ofAll, ofTraining
<1> QED BY <1>4, <1>7 DEF T, without, k, ofAll, ofTraining

\* The coalition of a fit is one of its order.
LEMMA FitsAreOfCoalitions ==
    ASSUME NEW f \in Fits PROVE f.coalition \in Coalitions(Order(f.coalition))
BY FitsAssumption DEF Coalitions

\* A fold is trained without the ranks of the epochs it holds out.
LEMMA TrainingIsBlind ==
    ASSUME NEW f \in Fits, NEW fold \in Fold, NEW cell
    PROVE  TrainingCell([f EXCEPT !.ranks = Without(f.ranks, HeldEpochs(fold))], fold, cell)
             = TrainingCell(f, fold, cell)
<1> DEFINE T == TrainingEpochs(fold)
           without == Without(f.ranks, HeldEpochs(fold))
           g == [f EXCEPT !.ranks = without]
           k == Order(f.coalition)
<1> SUFFICES TrainingCell(g, fold, cell) = TrainingCell(f, fold, cell)
  OBVIOUS
<1>1. /\ g.ranks = without /\ g.method = f.method /\ g.coalition = f.coalition /\ g.order = f.order
      /\ g.lag = f.lag /\ g.route = f.route /\ g.forced = f.forced
  BY FitsAssumption
<1>2. FoldContextIsFitted(g, fold) <=> FoldContextIsFitted(f, fold)
  <2>1. TrainingRows(without, f.method, k, T, f.lag[fold], T, f.order)
          = TrainingRows(f.ranks, f.method, k, T, f.lag[fold], T, f.order)
    BY CandidatesOfAFold
  <2> HIDE DEF g, without, T
  <2> QED BY <1>1, <2>1 DEF FoldContextIsFitted, ContextIsFitted, T
<1>3. CellEpochs(without, f.method, f.coalition, T, f.lag[fold], T, f.route[fold], cell)
        = CellEpochs(f.ranks, f.method, f.coalition, T, f.lag[fold], T, f.route[fold], cell)
  <2>1. \A e : ContextRow(without, f.method, f.coalition, e, f.lag[fold], T)
                 = ContextRow(f.ranks, f.method, f.coalition, e, f.lag[fold], T)
    BY FitsAreOfCoalitions, RowsOfAFold
  <2> HIDE DEF without, T
  <2> QED BY <2>1 DEF CellEpochs
<1> HIDE DEF g, without
<1> QED BY <1>1, <1>2, <1>3 DEF TrainingCell, T

\* Without forced assignment no held epoch counts in two cells.
LEMMA HeldOnce ==
    ASSUME NEW f, ~f.forced, NEW fold, NEW one, NEW other, one # other
    PROVE  HeldInnovations(f, fold, one) \cap HeldInnovations(f, fold, other) = {}
BY DEF HeldInnovations
-----------------------------------------------------------------------------
(***************************************************************************)
(* The route of a scored epoch.                                            *)
(***************************************************************************)
\* The larger of two numbers.
LEMMA MaxOfTwo ==
    ASSUME NEW a \in Int, NEW b \in Int
    PROVE  Max({a, b}) = IF a >= b THEN a ELSE b
<1>1. CASE a >= b
  <2>1. \A x \in {a, b} : a >= x
    BY <1>1
  <2>2. \A y \in {a, b} : (\A x \in {a, b} : y >= x) => y = a
    BY <1>1
  <2> QED BY <1>1, <2>1, <2>2 DEF Max
<1>2. CASE ~(a >= b)
  <2>1. \A x \in {a, b} : b >= x
    BY <1>2
  <2>2. \A y \in {a, b} : (\A x \in {a, b} : y >= x) => y = b
    BY <1>2
  <2> QED BY <1>2, <2>1, <2>2 DEF Max
<1> QED BY <1>1, <1>2

\* How many clients a context needs, and how many it has, are numbers.
LEMMA AvailabilityIsCounted ==
    ASSUME NEW f \in Fits, NEW A \in Coalitions(Order(f.coalition)), NEW at
    PROVE  LET members == ContextMembers(f.method, A)
           IN  /\ Cardinality(Available(f.ranks, members, at)) \in Nat
               /\ RequiredOutside(Cardinality(members)) \in Int
               /\ Histogram(f.ranks, members, at) # Nothing
<1> DEFINE members == ContextMembers(f.method, A) n == Cardinality(members)
           a == OutsideShare[1] b == OutsideShare[2]
<1>1. members \subseteq Clients /\ IsFiniteSet(Clients) /\ Cardinality(Clients) \in Nat
  BY MembersAreClients, FitAssumption, FS_CardinalityType
<1> HIDE DEF members
<1>2. \A S \in SUBSET members :
        IsFiniteSet(S) /\ Cardinality(S) \in Nat /\ Cardinality(S) <= Cardinality(Clients)
  BY <1>1, FS_Subset, FS_CardinalityType
<1>3. Available(f.ranks, members, at) \in SUBSET members /\ members \in SUBSET members
  BY DEF Available
<1>4. n \in Nat
  BY <1>2
<1>5. RequiredOutside(n) \in Int
  <2>1. a \in Nat /\ b \in Nat \ {0} /\ MinimumOutside \in Int
    BY FitAssumption
  <2> HIDE DEF a, b, n
  <2>2. a * n + b - 1 \in Int
    BY <1>4, <2>1
  <2>3. (a * n + b - 1) \div b \in Int
    BY <2>1, <2>2
  <2> DEFINE q == (a * n + b - 1) \div b
  <2> HIDE DEF q
  <2>4. Max({MinimumOutside, q}) \in Int
    BY <2>1, <2>3, MaxOfTwo DEF q
  <2> QED BY <2>4 DEF RequiredOutside, q, a, b
<1>6. Histogram(f.ranks, members, at) \in [Bins -> 0 .. Cardinality(Clients)]
  <2>1. \A bin \in Bins :
          Cardinality({c \in members : RankAt(f.ranks, c, at) = bin}) \in 0 .. Cardinality(Clients)
    <3> TAKE bin \in Bins
    <3> DEFINE S == {c \in members : RankAt(f.ranks, c, at) = bin}
    <3>1. S \in SUBSET members
      OBVIOUS
    <3> HIDE DEF S
    <3>2. Cardinality(S) \in Nat /\ Cardinality(S) <= Cardinality(Clients)
      BY <1>2, <3>1
    <3>3. Cardinality(S) \in 0 .. Cardinality(Clients)
      BY <1>1, <3>2
    <3> QED BY <3>3 DEF S
  <2> QED BY <2>1 DEF Histogram
<1> QED BY <1>2, <1>3, <1>5, <1>6, FitAssumption DEF members

\* The fit and the scoring agree on the cell of an epoch: both abstain, or both find it.
LEMMA RoutesAgree ==
    ASSUME NEW f \in Fits, ~f.forced, NEW e, NEW cell \in CellsOf(f.method)
    PROVE  LET row == ContextRow(f.ranks, f.method, f.coalition, e, f.lag[CrossFolds], Nothing)
           IN  ScoringCell(f, e, f.lag[CrossFolds]) = cell
                 <=> row # Nothing /\ CellOf(f.method, f.route[CrossFolds], row) = cell
<1> DEFINE members == ContextMembers(f.method, f.coalition)
           at == f.lag[CrossFolds][e]
           row == ContextRow(f.ranks, f.method, f.coalition, e, f.lag[CrossFolds], Nothing)
           count == Cardinality(Available(f.ranks, members, at))
           required == RequiredOutside(Cardinality(members))
           histogram == Histogram(f.ranks, members, at)
<1>1. ScoringMembers(f.method, f.coalition) = members
  BY DEF ScoringMembers, ContextMembers
<1>2. count \in Nat /\ required \in Int /\ histogram # Nothing
  BY FitsAreOfCoalitions, AvailabilityIsCounted
<1>3. row = IF f.method = "no_outside" THEN <<>> ELSE IF count < required THEN Nothing ELSE histogram
  BY DEF ContextRow
<1>4. ScoringCell(f, e, f.lag[CrossFolds])
        = IF f.method = "no_outside" THEN 0
          ELSE IF count >= required THEN f.route[CrossFolds][histogram] ELSE Nothing
  BY <1>1 DEF ScoringCell
<1>5. cell # Nothing
  BY FitAssumption DEF CellsOf
<1> SUFFICES ScoringCell(f, e, f.lag[CrossFolds]) = cell
               <=> row # Nothing /\ CellOf(f.method, f.route[CrossFolds], row) = cell
  OBVIOUS
<1> HIDE DEF members, at, row, count, required, histogram
<1>6. CASE f.method = "no_outside"
  BY <1>3, <1>4, <1>6, FitAssumption DEF CellOf
<1>7. CASE f.method # "no_outside"
  <2>1. CASE count < required
    <3>1. ~(count >= required)
      BY <1>2, <2>1
    <3> QED BY <1>3, <1>4, <1>5, <1>7, <2>1, <3>1
  <2>2. CASE ~(count < required)
    <3>1. count >= required
      BY <1>2, <2>2
    <3> QED BY <1>2, <1>3, <1>4, <1>7, <2>2, <3>1 DEF CellOf
  <2> QED BY <2>1, <2>2
<1> QED BY <1>6, <1>7

\* Of the epochs of the fit, a cell scores those it was fitted on.
LEMMA FittedAreScored ==
    ASSUME NEW f \in Fits, ~f.forced, NEW cell \in CellsOf(f.method)
    PROVE  {e \in Range(Nuisance) : ScoredBy(f, FittedCells(f), e, f.lag[CrossFolds]) = cell}
             = IF cell \in FittedCells(f) THEN ConditionedRows(f, FitEpochs(f, cell)) ELSE {}
<1> DEFINE lag == f.lag[CrossFolds]
           fitted == FittedCells(f)
           Score(e) == ScoringCell(f, e, lag)
<1>1. cell # Nothing
  BY FitAssumption DEF CellsOf
<1>2. \A e \in Range(Nuisance) : e \in FitEpochs(f, cell) <=> Score(e) = cell
  BY RoutesAgree DEF FitEpochs, CellEpochs
<1>3. FitEpochs(f, cell) \subseteq Range(Nuisance)
  BY DEF FitEpochs, CellEpochs
<1>4. \A e : ScoredBy(f, fitted, e, lag) = cell
        <=> /\ OrderContextIsFitted(f) /\ cell \in fitted /\ Score(e) = cell
            /\ IsPresent(f, e) /\ HasReferences(f, FitEpochs(f, cell))
  <2> HIDE DEF fitted, lag
  <2> QED BY <1>1 DEF ScoredBy
<1>5. cell \in fitted => OrderContextIsFitted(f)
  BY DEF FittedCells, CellIsFitted
<1>6. \A e \in FitEpochs(f, cell) : IsPresent(f, e) => HasReferences(f, FitEpochs(f, cell))
  BY DEF IsPresent, HasReferences
<1> HIDE DEF fitted, lag, Score
<1>7. CASE cell \in fitted
  <2>1. \A e \in Range(Nuisance) :
          ScoredBy(f, fitted, e, lag) = cell <=> e \in FitEpochs(f, cell) /\ IsPresent(f, e)
    BY <1>2, <1>4, <1>5, <1>6, <1>7
  <2>2. {e \in Range(Nuisance) : ScoredBy(f, fitted, e, lag) = cell}
          = ConditionedRows(f, FitEpochs(f, cell))
    BY <1>3, <2>1 DEF ConditionedRows
  <2> QED BY <1>7, <2>2 DEF fitted, lag
<1>8. CASE cell \notin fitted
  <2>1. {e \in Range(Nuisance) : ScoredBy(f, fitted, e, lag) = cell} = {}
    BY <1>4, <1>8
  <2> QED BY <1>8, <2>1 DEF fitted, lag
<1> QED BY <1>7, <1>8
-----------------------------------------------------------------------------
(***************************************************************************)
(* The rows a context is trained on.                                       *)
(***************************************************************************)
\* The smaller of two numbers.
LEMMA MinOfTwo ==
    ASSUME NEW a \in Int, NEW b \in Int
    PROVE  Min({a, b}) = IF a <= b THEN a ELSE b
<1>1. CASE a <= b
  <2>1. \A x \in {a, b} : a <= x
    BY <1>1
  <2>2. \A y \in {a, b} : (\A x \in {a, b} : y <= x) => y = a
    BY <1>1
  <2> QED BY <1>1, <2>1, <2>2 DEF Min
<1>2. CASE ~(a <= b)
  <2>1. \A x \in {a, b} : b <= x
    BY <1>2
  <2>2. \A y \in {a, b} : (\A x \in {a, b} : y <= x) => y = b
    BY <1>2
  <2> QED BY <1>2, <2>1, <2>2 DEF Min
<1> QED BY <1>1, <1>2

\* In an order without ties as many rows as asked for have fewer than that before them, if
\* there are as many.
LEMMA LeastAreCounted ==
    ASSUME NEW C, IsFiniteSet(C), NEW o, \A x \in C : o[x] \in Int,
           \A x, y \in C : o[x] = o[y] => x = y,
           NEW k \in Nat
    PROVE  Cardinality({x \in C : Cardinality({y \in C : o[y] < o[x]}) < k})
             = Min({k, Cardinality(C)})
<1> DEFINE Before(x) == {y \in C : o[y] < o[x]}
           Place(x) == Cardinality(Before(x))
           First(n) == {x \in C : Place(x) < n}
           N == Cardinality(C)
           Counted == {n \in Nat : Cardinality(First(n)) = IF n <= N THEN n ELSE N}
<1>1. N \in Nat
  BY FS_CardinalityType
<1>2. \A S \in SUBSET C : IsFiniteSet(S) /\ Cardinality(S) \in Nat /\ Cardinality(S) <= N
  BY FS_Subset, FS_CardinalityType
<1>3. \A x \in C : Place(x) \in Nat /\ Before(x) \in SUBSET C
  BY <1>2
<1>4. ASSUME NEW x \in C, NEW z \in C, o[x] < o[z] PROVE Place(x) < Place(z)
  <2>1. o[x] \in Int /\ o[z] \in Int /\ \A y \in C : o[y] \in Int
    OBVIOUS
  <2>2. ~(o[x] < o[x]) /\ \A y \in C : o[y] < o[x] => o[y] < o[z]
    BY <1>4, <2>1
  <2>3. Before(x) \subseteq Before(z) /\ x \in Before(z) /\ x \notin Before(x)
    BY <1>4, <2>2
  <2>4. IsFiniteSet(Before(z)) /\ Place(x) \in Nat /\ Place(z) \in Nat
    BY <1>2, <1>3
  <2> HIDE DEF Before
  <2>5. Cardinality(Before(x)) <= Cardinality(Before(z))
    BY <2>3, <2>4, FS_Subset
  <2>6. Cardinality(Before(x)) # Cardinality(Before(z))
    BY <2>3, <2>4, FS_Subset
  <2> QED BY <2>4, <2>5, <2>6
<1>5. 0 \in Counted
  <2>1. First(0) = {}
    <3> SUFFICES ASSUME NEW x \in C, Place(x) < 0 PROVE FALSE
      OBVIOUS
    <3> HIDE DEF Place
    <3> QED BY <1>3
  <2>2. Cardinality(First(0)) = 0
    BY <2>1, FS_EmptySet
  <2> HIDE DEF First, N
  <2> QED BY <1>1, <2>2
<1>6. ASSUME NEW n \in Nat, n \in Counted PROVE n + 1 \in Counted
  <2>1. Cardinality(First(n)) = IF n <= N THEN n ELSE N
    BY <1>6
  <2>2. \A x \in C : x \in First(n) <=> Place(x) < n
    OBVIOUS
  <2>3. \A x \in C : x \in First(n + 1) <=> Place(x) < n + 1
    OBVIOUS
  <2>4. First(n) \in SUBSET C /\ First(n + 1) \in SUBSET C
    OBVIOUS
  <2>5. \A x, y \in C : y \in Before(x) <=> o[y] < o[x]
    OBVIOUS
  <2>6. \A x \in C : Place(x) = Cardinality(Before(x))
    OBVIOUS
  <2>7. \A m \in Nat : m \in Counted <=> Cardinality(First(m)) = IF m <= N THEN m ELSE N
    OBVIOUS
  <2> HIDE DEF Before, Place, First, Counted
  <2>8. CASE First(n) = C
    <3>1. First(n + 1) = C
      BY <1>3, <2>2, <2>3, <2>4, <2>8
    <3>2. N = IF n <= N THEN n ELSE N
      BY <2>1, <2>8
    <3>3. Cardinality(First(n + 1)) = N
      BY <3>1
    <3> HIDE DEF N
    <3>4. n + 1 \in Nat /\ N = IF n + 1 <= N THEN n + 1 ELSE N
      BY <1>1, <3>2
    <3> QED BY <2>7, <3>3, <3>4
  <2>9. CASE First(n) # C
    <3> DEFINE Left == C \ First(n) g == [x \in Left |-> o[x]] V == {g[x] : x \in DOMAIN g}
    <3>1. Left # {} /\ Left \in SUBSET C
      BY <2>4, <2>9
    <3>2. IsFiniteSet(DOMAIN g)
      BY <1>2, <3>1
    <3>3. V \subseteq Int /\ V # {}
      BY <3>1
    <3>4. PICK m \in V : \A v \in V : m <= v
      <4> HIDE DEF g
      <4>1. IsFiniteSet(V)
        BY <3>2, FiniteImage
      <4> HIDE DEF V
      <4> QED BY <3>3, <4>1, LeastOfFinite
    <3>5. PICK x \in Left : m = o[x]
      BY <3>4
    <3>6. \A y \in Left : o[x] <= o[y]
      BY <3>4, <3>5
    <3>7. x \in C /\ x \notin First(n) /\ \A y \in C : y \notin First(n) => o[x] <= o[y]
      BY <3>6
    <3> HIDE DEF Left, g, V, N
    <3>8. \A y \in C : o[y] \in Int /\ o[x] \in Int
      BY <3>7
    <3>9. Before(x) \subseteq First(n)
      <4> SUFFICES ASSUME NEW y \in Before(x) PROVE y \in First(n)
        OBVIOUS
      <4>1. y \in C
        BY <1>3, <3>7
      <4>2. o[y] < o[x]
        BY <2>5, <3>7, <4>1
      <4> QED BY <3>7, <3>8, <4>1, <4>2
    <3>10. First(n) \subseteq Before(x)
      <4> SUFFICES ASSUME NEW y \in First(n) PROVE y \in Before(x)
        OBVIOUS
      <4>1. y \in C
        BY <2>4
      <4>2. Place(y) < n /\ ~(Place(x) < n) /\ Place(x) \in Nat /\ Place(y) \in Nat
        BY <1>3, <2>2, <3>7, <4>1
      <4>3. ~(o[x] < o[y])
        BY <1>4, <3>7, <4>1, <4>2
      <4>4. o[x] # o[y]
        BY <3>7, <4>1, <4>2
      <4>5. o[y] < o[x]
        BY <3>8, <4>1, <4>3, <4>4
      <4> QED BY <2>5, <3>7, <4>1, <4>5
    <3>11. Place(x) = Cardinality(First(n))
      BY <2>6, <3>7, <3>9, <3>10
    <3>12. Place(x) \in Nat /\ ~(Place(x) < n)
      BY <1>3, <2>2, <3>7
    <3>13. Place(x) = n
      BY <1>1, <2>1, <3>11, <3>12
    <3>14. First(n + 1) = First(n) \cup {x}
      <4>1. x \in First(n + 1)
        BY <2>3, <3>7, <3>13
      <4>2. \A y \in First(n) : y \in First(n + 1)
        BY <1>3, <2>2, <2>3, <2>4
      <4>3. ASSUME NEW y \in First(n + 1), y \notin First(n) PROVE y = x
        <5>1. y \in C
          BY <2>4
        <5>2. Place(y) < n + 1 /\ Place(y) \in Nat
          BY <1>3, <2>3, <5>1
        <5>3. ~(o[x] < o[y])
          BY <1>4, <3>7, <3>13, <5>1, <5>2
        <5>4. o[x] <= o[y]
          BY <3>7, <4>3, <5>1
        <5>5. o[x] = o[y]
          BY <3>8, <5>1, <5>3, <5>4
        <5> QED BY <3>7, <5>1, <5>5
      <4> QED BY <4>1, <4>2, <4>3
    <3>15. IsFiniteSet(First(n))
      BY <1>2, <2>4
    <3>16. Cardinality(First(n + 1)) = n + 1
      <4>1. Cardinality(First(n) \cup {x}) = Cardinality(First(n)) + 1
        BY <3>7, <3>15, FS_AddElement
      <4> QED BY <3>11, <3>13, <3>14, <4>1
    <3>17. Cardinality(First(n + 1)) <= N
      BY <1>2, <2>4
    <3>18. n + 1 \in Nat /\ n + 1 <= N
      BY <3>16, <3>17
    <3> QED BY <2>7, <3>16, <3>18
  <2> QED BY <2>8, <2>9
<1>7. k \in Counted
  <2> HIDE DEF Counted
  <2>1. Nat \subseteq Counted
    BY <1>5, <1>6, AllNumbers
  <2> QED BY <2>1
<1>8. Cardinality(First(k)) = Min({k, N})
  <2>1. Cardinality(First(k)) = IF k <= N THEN k ELSE N
    BY <1>7
  <2> HIDE DEF First, N
  <2> QED BY <1>1, <2>1, MinOfTwo
<1> QED BY <1>8

\* The epochs of the fit and the coalitions of an order are finitely many.
LEMMA RowsAreFinite ==
    ASSUME NEW f \in Fits
    PROVE  IsFiniteSet(Coalitions(Order(f.coalition)) \X Range(Nuisance))
<1>1. IsFiniteSet(Range(Nuisance))
  <2>1. DOMAIN Nuisance = 1 .. Len(Nuisance) /\ Len(Nuisance) \in Nat
    BY FitAssumption
  <2>2. IsFiniteSet(1 .. Len(Nuisance))
    BY <2>1, FS_Interval
  <2>3. IsFiniteSet({Nuisance[i] : i \in DOMAIN Nuisance})
    BY <2>1, <2>2, FiniteImage
  <2> QED BY <2>3 DEF Range
<1>2. IsFiniteSet(Coalitions(Order(f.coalition)))
  <2>1. IsFiniteSet(SUBSET Clients)
    BY FitAssumption, FS_SUBSET
  <2>2. Coalitions(Order(f.coalition)) \subseteq SUBSET Clients
    BY DEF Coalitions
  <2> QED BY <2>1, <2>2, FS_Subset
<1> QED BY <1>1, <1>2, FS_Product

\* The rows that may be trained on are those that can be built.
LEMMA CandidatesCanBeBuilt ==
    ASSUME NEW f \in Fits, f.method # "no_outside", NEW epochs, NEW lag, NEW permitted
    PROVE  LET k == Order(f.coalition)
           IN  CandidateRows(f.ranks, f.method, k, epochs, lag, permitted)
                 = {x \in Coalitions(k) \X epochs :
                        ContextRow(f.ranks, f.method, x[1], x[2], lag, permitted) # Nothing}
<1> DEFINE k == Order(f.coalition)
<1>1. \A x \in Coalitions(k) \X epochs :
        (LET members == ContextMembers(f.method, x[1])
             at == lag[x[2]]
         IN  /\ permitted = Nothing \/ at \in permitted
             /\ Cardinality(Available(f.ranks, members, at)) >= RequiredOutside(Cardinality(members)))
          <=> ContextRow(f.ranks, f.method, x[1], x[2], lag, permitted) # Nothing
  <2> TAKE x \in Coalitions(k) \X epochs
  <2> DEFINE members == ContextMembers(f.method, x[1])
             at == lag[x[2]]
             count == Cardinality(Available(f.ranks, members, at))
             required == RequiredOutside(Cardinality(members))
             histogram == Histogram(f.ranks, members, at)
             row == ContextRow(f.ranks, f.method, x[1], x[2], lag, permitted)
  <2>1. count \in Nat /\ required \in Int /\ histogram # Nothing
    BY AvailabilityIsCounted
  <2>2. row = IF (permitted # Nothing /\ at \notin permitted) \/ count < required
              THEN Nothing ELSE histogram
    BY DEF ContextRow
  <2> SUFFICES (permitted = Nothing \/ at \in permitted) /\ count >= required <=> row # Nothing
    OBVIOUS
  <2> HIDE DEF members, at, count, required, histogram, row
  <2>3. count >= required <=> ~(count < required)
    BY <2>1
  <2> QED BY <2>1, <2>2, <2>3
<1> QED BY <1>1 DEF CandidateRows

\* The rows that can be built.
BuiltRows(f, k, epochs, lag, permitted) ==
    {x \in Coalitions(k) \X epochs :
        ContextRow(f.ranks, f.method, x[1], x[2], lag, permitted) # Nothing}

\* As many rows are trained on as can be built, up to the limit.
LEMMA RowsAreNotLost ==
    ASSUME NEW f \in Fits, f.method # "no_outside", NEW epochs, epochs \subseteq Range(Nuisance),
           NEW lag, NEW permitted, NEW k, k = Order(f.coalition)
    PROVE  Cardinality(TrainingRows(f.ranks, f.method, k, epochs, lag, permitted, f.order))
             = Min({RowLimit, Cardinality(BuiltRows(f, k, epochs, lag, permitted))})
<1> DEFINE C == CandidateRows(f.ranks, f.method, k, epochs, lag, permitted)
           rows == Coalitions(k) \X Range(Nuisance)
<1>1. C = BuiltRows(f, k, epochs, lag, permitted)
  BY CandidatesCanBeBuilt DEF BuiltRows
<1>2. TrainingRows(f.ranks, f.method, k, epochs, lag, permitted, f.order) = SelectedRows(C, f.order)
  <2>1. \A x \in C : ContextRow(f.ranks, f.method, x[1], x[2], lag, permitted) # Nothing
    BY <1>1 DEF BuiltRows
  <2> HIDE DEF C
  <2>2. \A x \in SelectedRows(C, f.order) : x \in C
    BY DEF SelectedRows
  <2> QED BY <2>1, <2>2 DEF TrainingRows, C
<1>3. C \subseteq rows
  BY <1>1 DEF BuiltRows
<1>4. IsFiniteSet(C)
  BY <1>3, RowsAreFinite, FS_Subset
<1>5. \A x \in rows : f.order[x] \in Int /\ \A y \in rows : f.order[x] = f.order[y] => x = y
  BY FitsAssumption
<1>6. RowLimit \in Nat
  BY FitAssumption
<1> HIDE DEF C, rows
<1>7. Cardinality(SelectedRows(C, f.order)) = Min({RowLimit, Cardinality(C)})
  BY <1>3, <1>4, <1>5, <1>6, LeastAreCounted DEF SelectedRows
<1> QED BY <1>1, <1>2, <1>7

\* For each fold, and for the complete fit.
LEMMA RowsOfEachFold ==
    ASSUME NEW f \in Fits, f.method # "no_outside", NEW fold \in 0 .. CrossFolds
    PROVE  LET k == Order(f.coalition)
               epochs == IF fold = CrossFolds THEN Range(Nuisance) ELSE TrainingEpochs(fold)
               permitted == IF fold = CrossFolds THEN Nothing ELSE epochs
           IN  Cardinality(TrainingRows(f.ranks, f.method, k, epochs, f.lag[fold], permitted, f.order))
                 = Min({RowLimit, Cardinality({x \in Coalitions(k) \X epochs :
                        ContextRow(f.ranks, f.method, x[1], x[2], f.lag[fold], permitted) # Nothing})})
<1> DEFINE k == Order(f.coalition)
           epochs == IF fold = CrossFolds THEN Range(Nuisance) ELSE TrainingEpochs(fold)
           permitted == IF fold = CrossFolds THEN Nothing ELSE epochs
<1>1. epochs \subseteq Range(Nuisance)
  BY DEF TrainingEpochs
<1>2. Cardinality(TrainingRows(f.ranks, f.method, k, epochs, f.lag[fold], permitted, f.order))
        = Min({RowLimit, Cardinality(BuiltRows(f, k, epochs, f.lag[fold], permitted))})
  <2> DEFINE lag == f.lag[fold]
  <2> HIDE DEF epochs, permitted, lag
  <2>1. \A any, limit, order : order = k =>
          Cardinality(TrainingRows(f.ranks, f.method, order, epochs, any, limit, f.order))
            = Min({RowLimit, Cardinality(BuiltRows(f, order, epochs, any, limit))})
    BY <1>1, RowsAreNotLost
  <2>2. Cardinality(TrainingRows(f.ranks, f.method, k, epochs, lag, permitted, f.order))
          = Min({RowLimit, Cardinality(BuiltRows(f, k, epochs, lag, permitted))})
    BY <2>1
  <2> QED BY <2>2 DEF lag
<1> QED BY <1>2 DEF BuiltRows
-----------------------------------------------------------------------------
(***************************************************************************)
(* The ridge penalty.                                                      *)
(***************************************************************************)
\* The selection after a candidate, given the one before: its number and the least error.
NextPick(mse, tolerance, i, last) ==
    IF mse[i] + tolerance < last[2] THEN <<i, mse[i]>>
    ELSE IF mse[i] <= last[2] + tolerance THEN <<i, Min({last[2], mse[i]})>>
    ELSE last

\* P is the selection after each of the first n candidates.
IsPick(P, mse, tolerance, n) ==
    P = [i \in 1 .. n |-> IF i = 1 THEN <<1, mse[1]>> ELSE NextPick(mse, tolerance, i, P[i - 1])]

\* There is a selection up to every candidate.
LEMMA PicksExist ==
    ASSUME NEW mse, NEW tolerance, NEW n \in Nat
    PROVE  \E P : IsPick(P, mse, tolerance, n)
<1> DEFINE Is(P, k) == IsPick(P, mse, tolerance, k)
           Good == {k \in Nat : \E P : Is(P, k)}
<1>1. 0 \in Good
  <2> DEFINE P == [i \in 1 .. 0 |-> <<1, mse[1]>>]
  <2>1. Is(P, 0)
    BY DEF IsPick
  <2> HIDE DEF P, Is
  <2> QED BY <2>1
<1>2. ASSUME NEW k \in Nat, k \in Good PROVE k + 1 \in Good
  <2>1. PICK P : Is(P, k)
    BY <1>2
  <2> DEFINE Q == [i \in 1 .. k + 1 |-> IF i = k + 1
                                        THEN IF i = 1 THEN <<1, mse[1]>>
                                             ELSE NextPick(mse, tolerance, i, P[i - 1])
                                        ELSE P[i]]
             R == [i \in 1 .. k + 1 |-> IF i = 1 THEN <<1, mse[1]>>
                                        ELSE NextPick(mse, tolerance, i, Q[i - 1])]
  <2>2. \A i \in 1 .. k : Q[i] = P[i]
    OBVIOUS
  <2>3. ASSUME NEW i \in 1 .. k + 1
        PROVE  Q[i] = IF i = 1 THEN <<1, mse[1]>> ELSE NextPick(mse, tolerance, i, Q[i - 1])
    <3>1. i # 1 => i - 1 \in 1 .. k /\ Q[i - 1] = P[i - 1]
      BY <2>2
    <3>2. CASE i = k + 1
      <4>1. Q[i] = IF i = 1 THEN <<1, mse[1]>> ELSE NextPick(mse, tolerance, i, P[i - 1])
        BY <3>2
      <4> HIDE DEF Q
      <4> QED BY <3>1, <4>1
    <3>3. CASE i # k + 1
      <4>1. i \in 1 .. k /\ Q[i] = P[i]
        BY <2>2, <3>3
      <4>2. P[i] = IF i = 1 THEN <<1, mse[1]>> ELSE NextPick(mse, tolerance, i, P[i - 1])
        BY <2>1, <4>1 DEF IsPick
      <4> HIDE DEF Q
      <4> QED BY <3>1, <4>1, <4>2
    <3> QED BY <3>2, <3>3
  <2>4. Q = R
    <3>1. DOMAIN Q = 1 .. k + 1 /\ DOMAIN R = 1 .. k + 1
      OBVIOUS
    <3>2. \A i \in 1 .. k + 1 : R[i] = IF i = 1 THEN <<1, mse[1]>> ELSE NextPick(mse, tolerance, i, Q[i - 1])
      OBVIOUS
    <3>3. \A i \in 1 .. k + 1 : Q[i] = R[i]
      BY <2>3, <3>2
    <3>4. Q = [i \in DOMAIN Q |-> Q[i]] /\ R = [i \in DOMAIN R |-> R[i]]
      OBVIOUS
    <3> HIDE DEF Q, R
    <3> QED BY <3>1, <3>3, <3>4
  <2>5. Is(Q, k + 1)
    BY <2>4 DEF IsPick
  <2> HIDE DEF Q, R, Is
  <2> QED BY <2>5
<1>3. n \in Good
  <2> HIDE DEF Good
  <2>1. Nat \subseteq Good
    BY <1>1, <1>2, AllNumbers
  <2> QED BY <2>1
<1> QED BY <1>3

\* Among the first candidates the selected one is the last whose error is within the
\* tolerance of the least of them.
Selected(mse, tolerance, i, pick) ==
    /\ pick[1] \in 1 .. i /\ pick[2] \in Int
    /\ \E j \in 1 .. i : pick[2] = mse[j]
    /\ \A j \in 1 .. i : pick[2] <= mse[j]
    /\ mse[pick[1]] <= pick[2] + tolerance
    /\ \A j \in 1 .. i : pick[1] < j => mse[j] > pick[2] + tolerance

\* One candidate is selected among itself.
LEMMA FirstIsSelected ==
    ASSUME NEW mse, mse[1] \in Int, NEW tolerance \in Nat
    PROVE  Selected(mse, tolerance, 1, <<1, mse[1]>>)
<1>1. \A j \in 1 .. 1 : j = 1
  OBVIOUS
<1>2. 1 \in 1 .. 1 /\ mse[1] <= mse[1] /\ mse[1] <= mse[1] + tolerance
  OBVIOUS
<1>3. \A j \in 1 .. 1 : ~(1 < j)
  BY <1>1
<1> QED BY <1>1, <1>2, <1>3 DEF Selected

\* The next candidate keeps it so: a new least error moves the bound down, but then the
\* candidate itself is the last one below it.
LEMMA NextIsSelected ==
    ASSUME NEW mse, NEW tolerance \in Nat, NEW i \in Nat \ {0}, \A j \in 1 .. i + 1 : mse[j] \in Int,
           NEW last, Selected(mse, tolerance, i, last)
    PROVE  Selected(mse, tolerance, i + 1, NextPick(mse, tolerance, i + 1, last))
<1> DEFINE e == mse[i + 1] p == last[1] l == last[2] next == NextPick(mse, tolerance, i + 1, last)
<1>1. /\ p \in 1 .. i /\ l \in Int
      /\ \E j \in 1 .. i : l = mse[j]
      /\ \A j \in 1 .. i : l <= mse[j]
      /\ mse[p] <= l + tolerance
      /\ \A j \in 1 .. i : p < j => mse[j] > l + tolerance
  BY DEF Selected
<1>2. e \in Int /\ i + 1 \in 1 .. i + 1 /\ mse[i + 1] = e /\ \A j \in 1 .. i : mse[j] \in Int
  OBVIOUS
<1>3. \A j \in 1 .. i + 1 : j \in 1 .. i \/ j = i + 1
  OBVIOUS
<1>4. \A j \in 1 .. i : j \in 1 .. i + 1
  OBVIOUS
<1>5. next = IF e + tolerance < l THEN <<i + 1, e>>
             ELSE IF e <= l + tolerance THEN <<i + 1, Min({l, e})>>
             ELSE last
  BY DEF NextPick
<1>6. \A j \in 1 .. i + 1 : ~(i + 1 < j)
  OBVIOUS
<1> HIDE DEF e, p, l, next
<1>7. CASE e + tolerance < l
  <2>1. next = <<i + 1, e>>
    BY <1>5, <1>7
  <2>2. e <= l /\ e <= e + tolerance
    BY <1>1, <1>2, <1>7
  <2>3. \A j \in 1 .. i : e <= mse[j]
    BY <1>1, <1>2, <2>2
  <2>4. \A j \in 1 .. i + 1 : e <= mse[j]
    BY <1>2, <1>3, <2>3
  <2> QED BY <1>2, <1>6, <2>1, <2>2, <2>4 DEF Selected, next
<1>8. CASE ~(e + tolerance < l) /\ e <= l + tolerance
  <2> DEFINE m == Min({l, e})
  <2>1. next = <<i + 1, m>>
    BY <1>5, <1>8
  <2>2. m = IF l <= e THEN l ELSE e
    BY <1>1, <1>2, MinOfTwo
  <2> HIDE DEF m
  <2>3. m \in Int /\ m <= l /\ m <= e /\ e <= m + tolerance
    BY <1>1, <1>2, <1>8, <2>2
  <2>4. \E j \in 1 .. i + 1 : m = mse[j]
    <3>1. CASE m = l
      <4>1. PICK j \in 1 .. i : l = mse[j]
        BY <1>1
      <4> QED BY <1>4, <3>1, <4>1
    <3>2. CASE m = e
      BY <1>2, <3>2
    <3> QED BY <2>2, <3>1, <3>2
  <2>5. \A j \in 1 .. i : m <= mse[j]
    BY <1>1, <1>2, <2>3
  <2>6. \A j \in 1 .. i + 1 : m <= mse[j]
    BY <1>2, <1>3, <2>3, <2>5
  <2> QED BY <1>2, <1>6, <2>1, <2>3, <2>4, <2>6 DEF Selected, next
<1>9. CASE ~(e + tolerance < l) /\ ~(e <= l + tolerance)
  <2>1. next = last
    BY <1>5, <1>9
  <2>2. e > l + tolerance /\ l <= e
    BY <1>1, <1>2, <1>9
  <2>3. p \in 1 .. i + 1 /\ \E j \in 1 .. i + 1 : l = mse[j]
    BY <1>1, <1>4
  <2>4. \A j \in 1 .. i + 1 : l <= mse[j]
    BY <1>1, <1>2, <1>3, <2>2
  <2>5. \A j \in 1 .. i + 1 : p < j => mse[j] > l + tolerance
    BY <1>1, <1>2, <1>3, <2>2
  <2> QED BY <1>1, <2>1, <2>3, <2>4, <2>5 DEF Selected, next, p, l
<1> QED BY <1>7, <1>8, <1>9 DEF next

\* After each candidate the selection is as told.
LEMMA EachIsSelected ==
    ASSUME NEW n \in Nat \ {0}, NEW mse \in [1 .. n -> Int], NEW tolerance \in Nat,
           NEW P, IsPick(P, mse, tolerance, n)
    PROVE  Selected(mse, tolerance, n, P[n])
<1> DEFINE Good == {i \in Nat : i \in 1 .. n => Selected(mse, tolerance, i, P[i])}
<1>1. DOMAIN mse = 1 .. n /\ \A j \in 1 .. n : mse[j] \in Int
  OBVIOUS
<1>2. \A i \in 1 .. n : P[i] = IF i = 1 THEN <<1, mse[1]>> ELSE NextPick(mse, tolerance, i, P[i - 1])
  BY <1>1 DEF IsPick
<1>3. 0 \in Good
  OBVIOUS
<1>4. ASSUME NEW i \in Nat, i \in Good PROVE i + 1 \in Good
  <2> SUFFICES ASSUME i + 1 \in 1 .. n PROVE Selected(mse, tolerance, i + 1, P[i + 1])
    OBVIOUS
  <2>1. CASE i = 0
    <3>1. i + 1 = 1 /\ 1 \in 1 .. n
      BY <2>1
    <3>2. P[1] = <<1, mse[1]>> /\ mse[1] \in Int
      BY <1>1, <1>2, <3>1
    <3> QED BY <3>1, <3>2, FirstIsSelected
  <2>2. CASE i # 0
    <3>1. i \in 1 .. n /\ i \in Nat \ {0} /\ i + 1 # 1 /\ (i + 1) - 1 = i
      BY <2>2
    <3>2. Selected(mse, tolerance, i, P[i])
      BY <1>4, <3>1
    <3>3. P[i + 1] = NextPick(mse, tolerance, i + 1, P[i])
      BY <1>2, <3>1
    <3>4. \A j \in 1 .. i + 1 : mse[j] \in Int
      BY <1>1
    <3> QED BY <3>1, <3>2, <3>3, <3>4, NextIsSelected
  <2> QED BY <2>1, <2>2
<1>5. n \in Good
  <2> HIDE DEF Good
  <2>1. Nat \subseteq Good
    BY <1>3, <1>4, AllNumbers
  <2> QED BY <2>1
<1>6. n \in 1 .. n
  OBVIOUS
<1> QED BY <1>5, <1>6

\* What select_ridge_penalty computes is such a selection.
LEMMA RidgeIsAPick ==
    ASSUME NEW n \in Nat \ {0}, NEW mse \in [1 .. n -> Int], NEW tolerance \in Nat
    PROVE  \E P : IsPick(P, mse, tolerance, n) /\ SelectRidge(mse, tolerance) = P[n][1]
<1> DEFINE Body(P) == [i \in DOMAIN mse |->
                IF i = 1 THEN <<1, mse[1]>>
                ELSE LET last == P[i - 1]
                     IN  IF mse[i] + tolerance < last[2] THEN <<i, mse[i]>>
                         ELSE IF mse[i] <= last[2] + tolerance
                         THEN <<i, Min({last[2], mse[i]})>>
                         ELSE last]
           Pick == CHOOSE P : P = Body(P)
<1>1. DOMAIN mse = 1 .. n /\ Len(mse) = n
  <2>1. mse \in Seq(Int)
    OBVIOUS
  <2> QED BY <2>1
<1>2. \A P : IsPick(P, mse, tolerance, n) <=> P = Body(P)
  BY <1>1 DEF IsPick, NextPick
<1>3. \E P : IsPick(P, mse, tolerance, n)
  BY PicksExist
<1>4. SelectRidge(mse, tolerance) = Pick[n][1]
  BY <1>1 DEF SelectRidge
<1> HIDE DEF Body
<1>5. Pick = Body(Pick)
  BY <1>2, <1>3
<1> HIDE DEF Pick
<1> QED BY <1>2, <1>4, <1>5

\* The largest penalty within the tolerance of the least error is selected.
LEMMA TiesGoToTheLargest ==
    ASSUME NEW n \in Nat \ {0}, NEW mse \in [1 .. n -> Int], NEW tolerance \in Nat
    PROVE  SelectRidge(mse, tolerance)
             = Max({i \in DOMAIN mse : mse[i] <= Min(Range(mse)) + tolerance})
<1>1. PICK P : IsPick(P, mse, tolerance, n) /\ SelectRidge(mse, tolerance) = P[n][1]
  BY RidgeIsAPick
<1> DEFINE p == P[n][1] l == P[n][2] W == {i \in DOMAIN mse : mse[i] <= l + tolerance}
<1>2. DOMAIN mse = 1 .. n /\ Range(mse) = {mse[i] : i \in 1 .. n} /\ \A i \in 1 .. n : mse[i] \in Int
  BY DEF Range
<1>3. Selected(mse, tolerance, n, P[n])
  BY <1>1, EachIsSelected
<1>4. /\ p \in 1 .. n /\ l \in Int
      /\ \E j \in 1 .. n : l = mse[j]
      /\ \A j \in 1 .. n : l <= mse[j]
      /\ mse[p] <= l + tolerance
      /\ \A j \in 1 .. n : p < j => mse[j] > l + tolerance
  BY <1>3 DEF Selected
<1> HIDE DEF p, l
<1>5. Min(Range(mse)) = l
  <2>1. l \in Range(mse) /\ \A x \in Range(mse) : l <= x
    BY <1>2, <1>4
  <2>2. \A y \in Range(mse) : (\A x \in Range(mse) : y <= x) => y = l
    <3> TAKE y \in Range(mse)
    <3>1. y \in Int
      BY <1>2
    <3> QED BY <1>4, <2>1, <3>1
  <2> QED BY <2>1, <2>2 DEF Min
<1>6. p \in W /\ \A x \in W : p >= x
  <2>1. p \in W
    BY <1>2, <1>4
  <2>2. \A x \in W : x \in 1 .. n /\ mse[x] <= l + tolerance /\ mse[x] \in Int
    BY <1>2
  <2>3. \A x \in W : ~(p < x)
    BY <1>4, <2>2
  <2> HIDE DEF W
  <2> QED BY <1>4, <2>1, <2>2, <2>3
<1>7. \A y \in W : y \in Int /\ p \in Int
  BY <1>2, <1>4
<1> HIDE DEF W
<1>8. \A y \in W : (\A x \in W : y >= x) => y = p
  BY <1>6, <1>7
<1>9. Max(W) = p
  BY <1>6, <1>8 DEF Max
<1> QED BY <1>1, <1>5, <1>9 DEF W, p
-----------------------------------------------------------------------------
(***************************************************************************)
(* The rank lookups of a process.                                          *)
(***************************************************************************)
\* One of two lookups in a row is none, or what is cached of the first is right for the second.
MayFollow(a, b) ==
    a # Clear /\ b # Clear /\ a.fingerprint = b.fingerprint => a.streams = b.streams

IsCoherent(requests) ==
    \A k \in 1 .. Len(requests) - 1 : MayFollow(requests[k], requests[k + 1])

\* C is the cache after each of the first n lookups.
IsCache(C, requests, inherited, n) ==
    C = [k \in 0 .. n |->
            IF k = 0 THEN inherited
            ELSE IF requests[k] = Clear THEN Nobody
            ELSE IF C[k - 1] # Nobody /\ C[k - 1].fingerprint = requests[k].fingerprint
                 THEN C[k - 1]
                 ELSE requests[k]]

\* There is a cache after every lookup.
LEMMA CachesExist ==
    ASSUME NEW requests, NEW inherited, NEW n \in Nat
    PROVE  \E C : IsCache(C, requests, inherited, n)
<1> DEFINE Step(k, last) ==
                IF requests[k] = Clear THEN Nobody
                ELSE IF last # Nobody /\ last.fingerprint = requests[k].fingerprint
                     THEN last
                     ELSE requests[k]
           Is(C, m) == IsCache(C, requests, inherited, m)
           Good == {m \in Nat : \E C : Is(C, m)}
<1>1. \A C, m : Is(C, m) <=> C = [k \in 0 .. m |-> IF k = 0 THEN inherited ELSE Step(k, C[k - 1])]
  BY DEF IsCache
<1> HIDE DEF Step, Is
<1>2. 0 \in Good
  <2> DEFINE C == [k \in 0 .. 0 |-> inherited]
  <2>1. C = [k \in 0 .. 0 |-> IF k = 0 THEN inherited ELSE Step(k, C[k - 1])]
    OBVIOUS
  <2> HIDE DEF C
  <2> QED BY <1>1, <2>1
<1>3. ASSUME NEW m \in Nat, m \in Good PROVE m + 1 \in Good
  <2>1. PICK C : Is(C, m)
    BY <1>3
  <2>2. C = [k \in 0 .. m |-> IF k = 0 THEN inherited ELSE Step(k, C[k - 1])]
    BY <1>1, <2>1
  <2> DEFINE D == [k \in 0 .. m + 1 |-> IF k = m + 1 THEN Step(k, C[k - 1]) ELSE C[k]]
             E == [k \in 0 .. m + 1 |-> IF k = 0 THEN inherited ELSE Step(k, D[k - 1])]
  <2>3. \A k \in 0 .. m : D[k] = C[k]
    OBVIOUS
  <2>4. ASSUME NEW k \in 0 .. m + 1
        PROVE  D[k] = IF k = 0 THEN inherited ELSE Step(k, D[k - 1])
    <3>1. k # 0 => k - 1 \in 0 .. m /\ D[k - 1] = C[k - 1]
      BY <2>3
    <3>2. CASE k = m + 1
      <4>1. D[k] = Step(k, C[k - 1]) /\ k # 0
        BY <3>2
      <4> HIDE DEF D
      <4> QED BY <3>1, <4>1
    <3>3. CASE k # m + 1
      <4>1. k \in 0 .. m /\ D[k] = C[k]
        BY <2>3, <3>3
      <4>2. C[k] = IF k = 0 THEN inherited ELSE Step(k, C[k - 1])
        BY <2>2, <4>1
      <4> HIDE DEF D
      <4> QED BY <3>1, <4>1, <4>2
    <3> QED BY <3>2, <3>3
  <2>5. D = E
    <3>1. DOMAIN D = 0 .. m + 1 /\ DOMAIN E = 0 .. m + 1
      OBVIOUS
    <3>2. \A k \in 0 .. m + 1 : E[k] = IF k = 0 THEN inherited ELSE Step(k, D[k - 1])
      OBVIOUS
    <3>3. \A k \in 0 .. m + 1 : D[k] = E[k]
      BY <2>4, <3>2
    <3>4. D = [k \in DOMAIN D |-> D[k]] /\ E = [k \in DOMAIN E |-> E[k]]
      OBVIOUS
    <3> HIDE DEF D, E
    <3> QED BY <3>1, <3>3, <3>4
  <2>6. D = [k \in 0 .. m + 1 |-> IF k = 0 THEN inherited ELSE Step(k, D[k - 1])]
    BY <2>5
  <2> HIDE DEF D, E
  <2>7. Is(D, m + 1)
    BY <1>1, <2>6
  <2> QED BY <2>7
<1>4. n \in Good
  <2> HIDE DEF Good
  <2>1. Nat \subseteq Good
    BY <1>2, <1>3, AllNumbers
  <2> QED BY <2>1
<1> QED BY <1>4 DEF Is

\* After coherent lookups the cache has the streams of the last one.
LEMMA CachesAreRight ==
    ASSUME NEW S, NEW requests \in Seq(S), IsCoherent(requests),
           NEW inherited, inherited = Nobody \/ (requests # <<>> => MayFollow(inherited, requests[1])),
           NEW C, IsCache(C, requests, inherited, Len(requests)),
           NEW k \in 1 .. Len(requests), requests[k] # Clear
    PROVE  C[k].streams = requests[k].streams
<1> DEFINE n == Len(requests)
           IsRight(i) == IF requests[i] = Clear THEN C[i] = Nobody
                         ELSE /\ C[i].fingerprint = requests[i].fingerprint
                              /\ C[i].streams = requests[i].streams
           Good == {i \in Nat : i \in 1 .. n => IsRight(i)}
<1>1. n \in Nat
  OBVIOUS
<1> HIDE DEF n
<1>2. C[0] = inherited
  BY <1>1 DEF IsCache, n
<1>3. \A i \in 1 .. n : C[i] = IF requests[i] = Clear THEN Nobody
                               ELSE IF C[i - 1] # Nobody /\ C[i - 1].fingerprint = requests[i].fingerprint
                                    THEN C[i - 1]
                                    ELSE requests[i]
  BY <1>1 DEF IsCache, n
<1>4. 0 \in Good
  OBVIOUS
<1>5. ASSUME NEW i \in Nat, i \in Good PROVE i + 1 \in Good
  <2> SUFFICES ASSUME i + 1 \in 1 .. n PROVE IsRight(i + 1)
    OBVIOUS
  <2>1. (i + 1) - 1 = i
    OBVIOUS
  <2>2. C[i + 1] = IF requests[i + 1] = Clear THEN Nobody
                   ELSE IF C[i] # Nobody /\ C[i].fingerprint = requests[i + 1].fingerprint
                        THEN C[i]
                        ELSE requests[i + 1]
    BY <1>3, <2>1
  <2>3. requests[i + 1] # Clear /\ C[i] # Nobody /\ C[i].fingerprint = requests[i + 1].fingerprint
          => C[i].streams = requests[i + 1].streams
    <3>1. CASE i = 0
      <4>1. requests # <<>> /\ i + 1 = 1
        BY <1>1, <3>1 DEF n
      <4> QED BY <1>2, <3>1, <4>1 DEF MayFollow, Clear
    <3>2. CASE i # 0
      <4>1. i \in 1 .. n /\ i \in 1 .. Len(requests) - 1
        BY <1>1, <3>2 DEF n
      <4>2. IsRight(i)
        BY <1>5, <4>1
      <4>3. MayFollow(requests[i], requests[i + 1])
        BY <4>1 DEF IsCoherent
      <4> QED BY <4>2, <4>3 DEF MayFollow, Clear
    <3> QED BY <3>1, <3>2
  <2> QED BY <2>2, <2>3
<1>6. k \in Good
  <2> HIDE DEF Good
  <2>1. Nat \subseteq Good
    BY <1>4, <1>5, AllNumbers
  <2> QED BY <2>1
<1>7. k \in 1 .. n
  BY DEF n
<1> QED BY <1>6, <1>7

\* So coherent lookups are served what they ask for.
LEMMA CoherentLookupsAreServed ==
    ASSUME NEW S, NEW requests \in Seq(S), IsCoherent(requests),
           NEW inherited, inherited = Nobody \/ (requests # <<>> => MayFollow(inherited, requests[1]))
    PROVE  ServesWhatIsAsked(requests, inherited)
<1> DEFINE Body(C) == [k \in 0 .. Len(requests) |->
                IF k = 0 THEN inherited
                ELSE IF requests[k] = Clear THEN Nobody
                ELSE LET last == C[k - 1]
                     IN  IF last # Nobody /\ last.fingerprint = requests[k].fingerprint
                         THEN last
                         ELSE requests[k]]
           Cached == CHOOSE C : C = Body(C)
<1>1. Len(requests) \in Nat /\ DOMAIN requests = 1 .. Len(requests)
  OBVIOUS
<1>2. \A C : IsCache(C, requests, inherited, Len(requests)) <=> C = Body(C)
  BY DEF IsCache
<1>3. \E C : IsCache(C, requests, inherited, Len(requests))
  BY <1>1, CachesExist
<1>4. Found(requests, inherited) = [k \in DOMAIN requests |-> Cached[k]]
  BY DEF Found
<1> HIDE DEF Body
<1>5. Cached = Body(Cached)
  BY <1>2, <1>3
<1> HIDE DEF Cached
<1>6. IsCache(Cached, requests, inherited, Len(requests))
  BY <1>2, <1>5
<1>7. \A k \in DOMAIN requests : requests[k] # Clear => Cached[k].streams = requests[k].streams
  <2> SUFFICES ASSUME NEW k \in 1 .. Len(requests), requests[k] # Clear
               PROVE  Cached[k].streams = requests[k].streams
    BY <1>1
  <2> QED BY <1>6, CachesAreRight, Zenon
<1> QED BY <1>4, <1>7 DEF ServesWhatIsAsked

\* Artifacts of which the fingerprint tells the streams.
IsConsistent(V) ==
    \A a, b \in V : a.fingerprint = b.fingerprint => a.streams = b.streams

\* Lookups that may come after one another: they begin with one of V, if there are any,
\* and leave one of V or nothing in the cache.
CanBeJoined(s, V) ==
    /\ s # <<>> /\ IsCoherent(s)
    /\ V # {} => s[1] \in V
    /\ s[Len(s)] \in V \cup {Clear}

\* Lookups of consistent artifacts are coherent.
LEMMA ConsistentIsCoherent ==
    ASSUME NEW V, IsConsistent(V), NEW s \in Seq(V \cup {Clear})
    PROVE  IsCoherent(s)
<1> SUFFICES ASSUME NEW k \in 1 .. Len(s) - 1 PROVE MayFollow(s[k], s[k + 1])
  BY DEF IsCoherent
<1>1. s[k] \in V \cup {Clear} /\ s[k + 1] \in V \cup {Clear}
  OBVIOUS
<1> QED BY <1>1 DEF MayFollow, IsConsistent

\* What is said of two tasks after one another, u.
Joint(u, s, t, S, V) ==
    /\ u \in Seq(S) /\ CanBeJoined(u, V)
    /\ u[1] = s[1]
    /\ Len(t) >= 2 => u[Len(u) - 1] = t[Len(t) - 1]

\* Two tasks after one another.
LEMMA TwoTasks ==
    ASSUME NEW S, NEW V, IsConsistent(V), NEW s \in Seq(S), NEW t \in Seq(S),
           CanBeJoined(s, V), CanBeJoined(t, V)
    PROVE  Joint(s \o t, s, t, S, V)
<1> DEFINE u == s \o t m == Len(s) n == Len(t)
<1>1. m \in Nat \ {0} /\ n \in Nat \ {0}
  BY DEF CanBeJoined
<1>2. u \in Seq(S) /\ Len(u) = m + n
  OBVIOUS
<1>3. \A k \in 1 .. m + n : u[k] = IF k <= m THEN s[k] ELSE t[k - m]
  OBVIOUS
<1> HIDE DEF u
<1>4. \A k \in 1 .. m : k \in 1 .. m + n /\ u[k] = s[k]
  <2> HIDE DEF m, n
  <2> QED BY <1>1, <1>3
<1>5. \A k \in 1 .. n : m + k \in 1 .. m + n /\ u[m + k] = t[k]
  <2> HIDE DEF m, n
  <2> TAKE k \in 1 .. n
  <2>1. m + k \in 1 .. m + n /\ ~(m + k <= m) /\ (m + k) - m = k
    BY <1>1
  <2> QED BY <1>3, <2>1
<1>6. u # <<>>
  BY <1>1, <1>2
<1>7. u[1] = s[1] /\ u[m + n] = t[n]
  <2> HIDE DEF m, n
  <2>1. 1 \in 1 .. m /\ n \in 1 .. n
    BY <1>1
  <2> QED BY <1>4, <1>5, <2>1
<1>8. IsCoherent(u)
  <2> SUFFICES ASSUME NEW k \in 1 .. m + n - 1 PROVE MayFollow(u[k], u[k + 1])
    BY <1>2 DEF IsCoherent
  <2>1. CASE k < m
    <3>1. k \in 1 .. m /\ k + 1 \in 1 .. m /\ k \in 1 .. m - 1
      BY <1>1, <2>1
    <3>2. u[k] = s[k] /\ u[k + 1] = s[k + 1]
      BY <1>4, <3>1
    <3> QED BY <3>1, <3>2 DEF CanBeJoined, IsCoherent
  <2>2. CASE k = m
    <3>1. m \in 1 .. m /\ 1 \in 1 .. n
      BY <1>1
    <3>2. u[k] = s[m] /\ u[k + 1] = t[1]
      BY <1>4, <1>5, <2>2, <3>1
    <3>3. s[m] \in V \cup {Clear} /\ (V # {} => t[1] \in V)
      BY DEF CanBeJoined
    <3> QED BY <3>2, <3>3 DEF MayFollow, IsConsistent
  <2>3. CASE k > m
    <3> DEFINE j == k - m
    <3>1. j \in 1 .. n /\ j + 1 \in 1 .. n /\ j \in 1 .. n - 1 /\ m + j = k /\ m + (j + 1) = k + 1
      BY <1>1, <2>3
    <3> HIDE DEF j
    <3>2. u[k] = t[j] /\ u[k + 1] = t[j + 1]
      BY <1>5, <3>1
    <3> QED BY <3>1, <3>2 DEF CanBeJoined, IsCoherent
  <2> QED BY <1>1, <2>1, <2>2, <2>3
<1>9. n >= 2 => u[m + n - 1] = t[n - 1]
  <2> HIDE DEF m, n
  <2> SUFFICES ASSUME n >= 2 PROVE u[m + n - 1] = t[n - 1]
    OBVIOUS
  <2>1. n - 1 \in 1 .. n /\ m + (n - 1) = m + n - 1
    BY <1>1
  <2> QED BY <1>5, <2>1
<1>10. u[Len(u)] = t[n] /\ t[n] \in V \cup {Clear} /\ (V # {} => u[1] \in V)
  BY <1>2, <1>7 DEF CanBeJoined
<1>11. CanBeJoined(u, V)
  BY <1>6, <1>8, <1>10 DEF CanBeJoined
<1> QED BY <1>2, <1>7, <1>9, <1>11 DEF u, Joint

\* F is what the first tasks look up, one after another.
IsFlat(F, t, n) == F = [i \in 1 .. n |-> IF i = 1 THEN t[i] ELSE F[i - 1] \o t[i]]

\* There is such an F.
LEMMA FlatExists ==
    ASSUME NEW t, NEW n \in Nat
    PROVE  \E F : IsFlat(F, t, n)
<1> DEFINE Is(F, m) == F = [i \in 1 .. m |-> IF i = 1 THEN t[i] ELSE F[i - 1] \o t[i]]
           Good == {m \in Nat : \E F : Is(F, m)}
<1>1. 0 \in Good
  <2> DEFINE F == [i \in 1 .. 0 |-> t[i]]
  <2>1. Is(F, 0)
    OBVIOUS
  <2> HIDE DEF F, Is
  <2> QED BY <2>1
<1>2. ASSUME NEW m \in Nat, m \in Good PROVE m + 1 \in Good
  <2>1. PICK F : Is(F, m)
    BY <1>2
  <2> DEFINE G == [i \in 1 .. m + 1 |-> IF i = m + 1 THEN IF i = 1 THEN t[i] ELSE F[i - 1] \o t[i]
                                        ELSE F[i]]
             H == [i \in 1 .. m + 1 |-> IF i = 1 THEN t[i] ELSE G[i - 1] \o t[i]]
  <2>2. \A i \in 1 .. m : G[i] = F[i]
    OBVIOUS
  <2>3. ASSUME NEW i \in 1 .. m + 1 PROVE G[i] = IF i = 1 THEN t[i] ELSE G[i - 1] \o t[i]
    <3>1. i # 1 => i - 1 \in 1 .. m /\ G[i - 1] = F[i - 1]
      BY <2>2
    <3>2. CASE i = m + 1
      <4>1. G[i] = IF i = 1 THEN t[i] ELSE F[i - 1] \o t[i]
        BY <3>2
      <4> HIDE DEF G
      <4> QED BY <3>1, <4>1
    <3>3. CASE i # m + 1
      <4>1. i \in 1 .. m /\ G[i] = F[i]
        BY <2>2, <3>3
      <4>2. F[i] = IF i = 1 THEN t[i] ELSE F[i - 1] \o t[i]
        BY <2>1, <4>1
      <4> HIDE DEF G
      <4> QED BY <3>1, <4>1, <4>2
    <3> QED BY <3>2, <3>3
  <2>4. G = H
    <3>1. DOMAIN G = 1 .. m + 1 /\ DOMAIN H = 1 .. m + 1
      OBVIOUS
    <3>2. \A i \in 1 .. m + 1 : H[i] = IF i = 1 THEN t[i] ELSE G[i - 1] \o t[i]
      OBVIOUS
    <3>3. \A i \in 1 .. m + 1 : G[i] = H[i]
      BY <2>3, <3>2
    <3>4. G = [i \in DOMAIN G |-> G[i]] /\ H = [i \in DOMAIN H |-> H[i]]
      OBVIOUS
    <3> HIDE DEF G, H
    <3> QED BY <3>1, <3>3, <3>4
  <2>5. Is(G, m + 1)
    BY <2>4
  <2> HIDE DEF G, H, Is
  <2> QED BY <2>5
<1>3. n \in Good
  <2> HIDE DEF Good
  <2>1. Nat \subseteq Good
    BY <1>1, <1>2, AllNumbers
  <2> QED BY <2>1
<1> QED BY <1>3 DEF IsFlat

\* It is what FlattenSeq computes.
LEMMA FlattenIsFlat ==
    ASSUME NEW n \in Nat \ {0}, NEW t, DOMAIN t = 1 .. n, Len(t) = n
    PROVE  \E F : IsFlat(F, t, n) /\ FlattenSeq(t) = F[n]
<1> DEFINE Body(F) == [i \in 1 .. Len(t) |-> IF i = 1 THEN t[i] ELSE F[i - 1] \o t[i]]
           Flat == CHOOSE F : F = Body(F)
<1>1. \A F : IsFlat(F, t, n) <=> F = Body(F)
  BY DEF IsFlat
<1>2. \E F : IsFlat(F, t, n)
  BY FlatExists
<1>3. FlattenSeq(t) = Flat[n]
  BY DEF FlattenSeq
<1> HIDE DEF Body
<1>4. Flat = Body(Flat)
  BY <1>1, <1>2
<1> HIDE DEF Flat
<1> QED BY <1>1, <1>3, <1>4

\* What is said of the tasks t, n of them, after one another.
AllJoint(s, t, n, S, V) ==
    /\ s \in Seq(S) /\ CanBeJoined(s, V)
    /\ s[1] = t[1][1]
    /\ Len(t[n]) >= 2 => s[Len(s) - 1] = t[n][Len(t[n]) - 1]

\* Tasks that can be joined, one after another.
LEMMA ManyTasks ==
    ASSUME NEW S, NEW V, IsConsistent(V), NEW n \in Nat \ {0}, NEW t \in [1 .. n -> Seq(S)],
           \A i \in 1 .. n : CanBeJoined(t[i], V)
    PROVE  AllJoint(FlattenSeq(t), t, n, S, V)
<1>1. DOMAIN t = 1 .. n /\ Len(t) = n
  <2>1. t \in Seq(Seq(S))
    OBVIOUS
  <2> QED BY <2>1
<1>2. PICK F : IsFlat(F, t, n) /\ FlattenSeq(t) = F[n]
  BY <1>1, FlattenIsFlat
<1> DEFINE IsGood(i) ==
                /\ F[i] \in Seq(S) /\ CanBeJoined(F[i], V)
                /\ F[i][1] = t[1][1]
                /\ Len(t[i]) >= 2 => F[i][Len(F[i]) - 1] = t[i][Len(t[i]) - 1]
           Good == {i \in Nat : i \in 1 .. n => IsGood(i)}
<1>3. \A i \in 1 .. n : F[i] = IF i = 1 THEN t[i] ELSE F[i - 1] \o t[i]
  BY <1>2 DEF IsFlat
<1>4. 0 \in Good
  OBVIOUS
<1>5. ASSUME NEW i \in Nat, i \in Good PROVE i + 1 \in Good
  <2> SUFFICES ASSUME i + 1 \in 1 .. n PROVE IsGood(i + 1)
    OBVIOUS
  <2>1. t[i + 1] \in Seq(S) /\ CanBeJoined(t[i + 1], V) /\ (i + 1) - 1 = i
    OBVIOUS
  <2>2. CASE i = 0
    <3>1. i + 1 = 1 /\ F[1] = t[1]
      BY <1>3, <2>2
    <3> QED BY <2>1, <3>1
  <2>3. CASE i # 0
    <3>1. i \in 1 .. n /\ i + 1 # 1
      BY <2>3
    <3>2. IsGood(i)
      BY <1>5, <3>1
    <3>3. F[i + 1] = F[i] \o t[i + 1]
      BY <1>3, <2>1, <3>1
    <3>4. F[i] \in Seq(S) /\ CanBeJoined(F[i], V) /\ F[i][1] = t[1][1]
      BY <3>2
    <3>5. /\ F[i + 1] \in Seq(S) /\ CanBeJoined(F[i + 1], V)
          /\ F[i + 1][1] = F[i][1]
          /\ Len(t[i + 1]) >= 2 => F[i + 1][Len(F[i + 1]) - 1] = t[i + 1][Len(t[i + 1]) - 1]
      <4>1. Joint(F[i] \o t[i + 1], F[i], t[i + 1], S, V)
        BY <2>1, <3>4, TwoTasks
      <4> QED BY <3>3, <4>1 DEF Joint
    <3> QED BY <3>4, <3>5
  <2> QED BY <2>2, <2>3
<1>6. n \in Good
  <2> HIDE DEF Good
  <2>1. Nat \subseteq Good
    BY <1>4, <1>5, AllNumbers
  <2> QED BY <2>1
<1>7. IsGood(n)
  BY <1>6
<1> QED BY <1>2, <1>7 DEF AllJoint

\* What is said of two sequences after one another, u.
Appended(u, s, t, S) ==
    /\ u \in Seq(S)
    /\ Len(u) = Len(s) + Len(t) /\ Len(u) \in Nat \ {0} /\ Len(s) \in Nat \ {0} /\ Len(t) \in Nat
    /\ u[1] = s[1] /\ u[Len(s)] = s[Len(s)]
    /\ t # <<>> => Len(t) \in Nat \ {0} /\ u[Len(u)] = t[Len(t)]

\* The sequences may be any.
LEMMA Concatenated ==
    ASSUME NEW S, NEW s \in Seq(S), s # <<>>, NEW t \in Seq(S)
    PROVE  Appended(s \o t, s, t, S)
<1> DEFINE u == s \o t m == Len(s) n == Len(t)
<1>1. m \in Nat \ {0} /\ n \in Nat /\ (t # <<>> => n # 0)
  OBVIOUS
<1>2. u \in Seq(S) /\ Len(u) = m + n
  OBVIOUS
<1>3. \A k \in 1 .. m + n : u[k] = IF k <= m THEN s[k] ELSE t[k - m]
  OBVIOUS
<1> HIDE DEF u, m, n
<1>4. 1 \in 1 .. m + n /\ m \in 1 .. m + n /\ m + n \in 1 .. m + n /\ 1 <= m /\ m <= m
  BY <1>1
<1>5. u[1] = s[1] /\ u[m] = s[m]
  BY <1>3, <1>4
<1>6. t # <<>> => u[m + n] = t[n]
  <2> SUFFICES ASSUME t # <<>> PROVE u[m + n] = t[n]
    OBVIOUS
  <2>1. ~(m + n <= m) /\ (m + n) - m = n
    BY <1>1
  <2> QED BY <1>3, <1>4, <2>1
<1>7. m + n \in Nat \ {0} /\ (t # <<>> => n \in Nat \ {0})
  BY <1>1
<1> QED BY <1>1, <1>2, <1>5, <1>6, <1>7 DEF Appended, u, m, n

\* The lookups of a fit.
LEMMA FitLooksUp ==
    ASSUME NEW base, NEW rows, NEW V, Complete(base, rows) \in V,
           \A fold \in 1 .. Folds : OfFold(base, rows, fold) \in V
    PROVE  Fit(base, rows) \in Seq(V) /\ Len(Fit(base, rows)) \in Nat \ {0}
           /\ Fit(base, rows)[1] = Complete(base, rows)
<1> DEFINE one == <<Complete(base, rows)>>
           folds == [fold \in 1 .. Folds |-> OfFold(base, rows, fold)]
           two == one \o folds
           three == two \o one
<1>1. one \in Seq(V) /\ one # <<>> /\ one[1] = Complete(base, rows)
  OBVIOUS
<1>2. folds \in Seq(V)
  BY StreamsAssumption
<1>3. Fit(base, rows) = three
  BY DEF Fit
<1> HIDE DEF one, folds
<1>4. Appended(two, one, folds, V)
  BY <1>1, <1>2, Concatenated
<1> HIDE DEF two
<1>5. two \in Seq(V) /\ two # <<>> /\ two[1] = one[1]
  BY <1>4 DEF Appended
<1>6. Appended(three, two, one, V)
  BY <1>1, <1>5, Concatenated
<1> HIDE DEF three
<1> QED BY <1>1, <1>3, <1>5, <1>6 DEF Appended

-----------------------------------------------------------------------------
\* What the seeds of the real-data experiments look up.
Ranked ==
    {Complete(<<"ranks", seed>>, <<"ranks", seed>>) : seed \in Expected}
        \cup {OfFold(<<"ranks", x[1]>>, <<"ranks", x[1]>>, x[2]) : x \in Expected \X (1 .. Folds)}

\* Their fingerprints tell the streams.
LEMMA RankedIsConsistent == IsConsistent(Ranked)
<1> SUFFICES ASSUME NEW a \in Ranked, NEW b \in Ranked, a.fingerprint = b.fingerprint
             PROVE  a.streams = b.streams
  BY DEF IsConsistent
<1> DEFINE Base(s) == <<"ranks", s>>
<1>1. \A s, u, fold : Base(s) # <<"fold", Base(u), fold>>
  OBVIOUS
<1>2. \A x : x \in Ranked =>
        \/ \E s : x.fingerprint = Base(s) /\ x.streams = <<Base(s), "all">>
        \/ \E s, fold : x.fingerprint = <<"fold", Base(s), fold>> /\ x.streams = <<Base(s), fold>>
  BY DEF Ranked, Complete, OfFold, Artifact, FoldFingerprint
<1>3. \A s, u : Base(s) = Base(u) => s = u
  OBVIOUS
<1> HIDE DEF Base
<1>4. \A s, u, fold, held : <<"fold", Base(s), fold>> = <<"fold", Base(u), held>> => s = u /\ fold = held
  BY <1>3
<1>5. CASE \E s : a.fingerprint = Base(s) /\ a.streams = <<Base(s), "all">>
  <2>1. PICK s : a.fingerprint = Base(s) /\ a.streams = <<Base(s), "all">>
    BY <1>5
  <2>2. PICK u : b.fingerprint = Base(u) /\ b.streams = <<Base(u), "all">>
    BY <1>1, <1>2, <2>1
  <2> QED BY <1>3, <2>1, <2>2
<1>6. CASE \E s, fold : a.fingerprint = <<"fold", Base(s), fold>> /\ a.streams = <<Base(s), fold>>
  <2>1. PICK s, fold : a.fingerprint = <<"fold", Base(s), fold>> /\ a.streams = <<Base(s), fold>>
    BY <1>6
  <2>2. PICK u, held : b.fingerprint = <<"fold", Base(u), held>> /\ b.streams = <<Base(u), held>>
    BY <1>1, <1>2, <2>1
  <2>3. <<"fold", Base(s), fold>> = <<"fold", Base(u), held>>
    BY <2>1, <2>2
  <2>4. s = u /\ fold = held
    BY <1>4, <2>3
  <2> QED BY <2>1, <2>2, <2>4
<1> QED BY <1>2, <1>5, <1>6

\* An evaluation looks up nothing else.
LEMMA EvaluationsLookUp ==
    ASSUME NEW seed \in Expected
    PROVE  /\ Evaluation(seed) \in Seq(Ranked)
           /\ Evaluation(seed)[Len(Evaluation(seed)) - 1] \in Ranked
           /\ CanBeJoined(Evaluation(seed), Ranked)
<1> DEFINE base == <<"ranks", seed>>
           fit == Fit(base, base)
           one == <<Complete(base, base)>>
           cell == fit \o one
<1>1. Complete(base, base) \in Ranked /\ \A fold \in 1 .. Folds : OfFold(base, base, fold) \in Ranked
  <2>1. Complete(base, base) \in Ranked
    BY DEF Ranked
  <2>2. ASSUME NEW fold \in 1 .. Folds PROVE OfFold(base, base, fold) \in Ranked
    <3> DEFINE x == <<seed, fold>>
    <3>1. x \in Expected \X (1 .. Folds) /\ x[1] = seed /\ x[2] = fold
      OBVIOUS
    <3> HIDE DEF x
    <3> QED BY <3>1 DEF Ranked
  <2> QED BY <2>1, <2>2
<1>2. one \in Seq(Ranked) /\ one # <<>>
  BY <1>1
<1>3. fit \in Seq(Ranked) /\ fit # <<>>
  BY <1>1, FitLooksUp
<1>4. EmhiCell(seed) = cell
  BY DEF EmhiCell
<1> HIDE DEF base, fit, one
<1>5. Appended(cell, fit, one, Ranked)
  BY <1>2, <1>3, Concatenated
<1> HIDE DEF cell
<1>6. cell \in Seq(Ranked) /\ cell # <<>>
  BY <1>5 DEF Appended
<1> DEFINE s == Evaluation(seed)
<1>7. s = cell \o cell
  BY <1>4 DEF Evaluation
<1> HIDE DEF s
<1>8. Appended(s, cell, cell, Ranked)
  BY <1>6, <1>7, Concatenated
<1>9. /\ s \in Seq(Ranked) /\ Len(s) >= 2 /\ s # <<>>
      /\ s[1] \in Ranked /\ s[Len(s)] \in Ranked /\ s[Len(s) - 1] \in Ranked
  <2>1. s \in Seq(Ranked) /\ Len(s) \in Nat /\ Len(s) >= 2 /\ s # <<>>
    BY <1>8 DEF Appended
  <2>2. 1 \in 1 .. Len(s) /\ Len(s) \in 1 .. Len(s) /\ Len(s) - 1 \in 1 .. Len(s)
    BY <2>1
  <2> QED BY <2>1, <2>2
<1>10. s \in Seq(Ranked \cup {Clear})
  BY <1>9
<1>11. IsCoherent(s)
  BY <1>10, RankedIsConsistent, ConsistentIsCoherent
<1> QED BY <1>9, <1>11 DEF CanBeJoined, s

-----------------------------------------------------------------------------
\* What a scale of the dropout experiment looks up.
OfScale(seed, n) ==
    {Complete(<<"dropout", seed + n>>, <<"dropout", seed, n>>)}
        \cup {OfFold(<<"dropout", seed + n>>, <<"dropout", seed, n>>, fold) : fold \in 1 .. Folds}
        \cup {Artifact(<<"sparse", seed, n, Fractions[k]>>, <<<<"dropout", seed, n>>, Fractions[k]>>) :
                k \in DOMAIN Fractions}

\* Within it the fingerprints tell the streams, although those of another may be the same.
LEMMA ScalesAreConsistent == ASSUME NEW seed, NEW n PROVE IsConsistent(OfScale(seed, n))
<1> DEFINE base == <<"dropout", seed + n>> rows == <<"dropout", seed, n>> V == OfScale(seed, n)
<1> SUFFICES ASSUME NEW a \in V, NEW b \in V, a.fingerprint = b.fingerprint
             PROVE  a.streams = b.streams
  BY DEF IsConsistent
<1>1. \A fold, f : base # <<"fold", base, fold>> /\ base # <<"sparse", seed, n, f>>
                   /\ <<"fold", base, fold>> # <<"sparse", seed, n, f>>
  OBVIOUS
<1>2. \A x \in V :
        \/ x.fingerprint = base /\ x.streams = <<rows, "all">>
        \/ \E fold : x.fingerprint = <<"fold", base, fold>> /\ x.streams = <<rows, fold>>
        \/ \E f : x.fingerprint = <<"sparse", seed, n, f>> /\ x.streams = <<rows, f>>
  BY DEF OfScale, Complete, OfFold, Artifact, FoldFingerprint
<1> HIDE DEF base, rows, V
<1>3. \A fold, held : <<"fold", base, fold>> = <<"fold", base, held>> => fold = held
  OBVIOUS
<1>4. \A f, g : <<"sparse", seed, n, f>> = <<"sparse", seed, n, g>> => f = g
  OBVIOUS
<1> QED BY <1>1, <1>2, <1>3, <1>4

\* What is said of the lookups s of a scale.
Begun(s, seed, n) ==
    /\ s \in Seq(OfScale(seed, n) \cup {Clear}) /\ Len(s) >= 2
    /\ CanBeJoined(s, {})
    /\ s[1].fingerprint = <<"dropout", seed + n>>
    /\ \E f : s[Len(s) - 1].fingerprint = <<"sparse", seed, n, f>>

\* It begins with the ranks of the scale, and ends with filtered ranks and a cleared cache.
LEMMA ScalesLookUp ==
    ASSUME NEW seed, NEW n
    PROVE  Begun(DropoutOfScale(seed, n), seed, n)
<1> DEFINE base == <<"dropout", seed + n>> rows == <<"dropout", seed, n>>
           V == OfScale(seed, n) W == V \cup {Clear}
           fit == Fit(base, rows)
           one == <<Complete(base, rows)>>
           filtered == [k \in DOMAIN Fractions |->
                            Artifact(<<"sparse", seed, n, Fractions[k]>>, <<rows, Fractions[k]>>)]
           last == <<Clear>>
           s == ((fit \o one) \o filtered) \o last
<1>1. DropoutOfScale(seed, n) = s
  BY DEF DropoutOfScale
<1>2. Complete(base, rows) \in W /\ \A fold \in 1 .. Folds : OfFold(base, rows, fold) \in W
  BY DEF OfScale
<1>3. fit \in Seq(W) /\ fit # <<>> /\ fit[1] = Complete(base, rows)
  BY <1>2, FitLooksUp
<1>4. one \in Seq(W) /\ last \in Seq(W) /\ last # <<>> /\ last[1] = Clear /\ Len(last) = 1
  BY <1>2
<1>5. Len(Fractions) \in Nat \ {0} /\ DOMAIN Fractions = 1 .. Len(Fractions)
  BY StreamsAssumption
<1>6. filtered \in Seq(W) /\ Len(filtered) = Len(Fractions) /\ filtered # <<>>
  <2>1. \A k \in DOMAIN Fractions :
          Artifact(<<"sparse", seed, n, Fractions[k]>>, <<rows, Fractions[k]>>) \in W
    BY DEF OfScale
  <2> DEFINE item(k) == Artifact(<<"sparse", seed, n, Fractions[k]>>, <<rows, Fractions[k]>>)
             m == Len(Fractions)
  <2>2. m \in Nat \ {0} /\ filtered = [k \in 1 .. m |-> item(k)] /\ \A k \in 1 .. m : item(k) \in W
    BY <1>5, <2>1
  <2> HIDE DEF item, m, filtered, W
  <2>3. filtered \in Seq(W) /\ Len(filtered) = m /\ filtered # <<>>
    BY <2>2
  <2> QED BY <2>3 DEF m
<1>7. filtered[Len(filtered)].fingerprint = <<"sparse", seed, n, Fractions[Len(Fractions)]>>
  <2>1. Len(Fractions) \in DOMAIN Fractions
    BY <1>5
  <2> QED BY <1>6, <2>1 DEF Artifact
<1>8. Complete(base, rows).fingerprint = base
  BY DEF Complete, Artifact
<1> HIDE DEF fit, one, filtered, last, W
<1> DEFINE a == fit \o one b == a \o filtered u == b \o last
<1>9. s = u
  OBVIOUS
<1>10. Appended(a, fit, one, W)
  BY <1>3, <1>4, Concatenated
<1> HIDE DEF a
<1>11. a \in Seq(W) /\ a # <<>> /\ a[1] = fit[1]
  BY <1>10 DEF Appended
<1>12. Appended(b, a, filtered, W)
  BY <1>6, <1>11, Concatenated
<1> HIDE DEF b
<1>13. b \in Seq(W) /\ b # <<>> /\ b[1] = a[1] /\ b[Len(b)] = filtered[Len(filtered)]
  BY <1>6, <1>12 DEF Appended
<1>14. Appended(u, b, last, W)
  BY <1>4, <1>13, Concatenated
<1> HIDE DEF u, s
<1>15. /\ s \in Seq(W) /\ Len(s) >= 2 /\ Len(s) - 1 = Len(b) /\ s # <<>>
       /\ s[Len(s)] = Clear /\ s[1] = b[1] /\ s[Len(b)] = b[Len(b)]
  BY <1>4, <1>9, <1>14 DEF Appended
<1>16. s[1].fingerprint = base
  BY <1>3, <1>8, <1>11, <1>13, <1>15
<1>17. s[Len(s) - 1].fingerprint = <<"sparse", seed, n, Fractions[Len(Fractions)]>>
  BY <1>7, <1>13, <1>15
<1>18. IsCoherent(s)
  <2>1. IsConsistent(V) /\ s \in Seq(V \cup {Clear})
    BY <1>15, ScalesAreConsistent DEF W
  <2> HIDE DEF V
  <2> QED BY <2>1, ConsistentIsCoherent
<1>19. CanBeJoined(s, {})
  BY <1>15, <1>18 DEF CanBeJoined
<1>20. s \in Seq(V \cup {Clear})
  BY <1>15 DEF W
<1> HIDE DEF V
<1>21. \E f : s[Len(s) - 1].fingerprint = <<"sparse", seed, n, f>>
  BY <1>17
<1> QED BY <1>1, <1>15, <1>16, <1>19, <1>20, <1>21 DEF V, base, Begun

\* What any of them looks up.
Dropped == {Clear} \cup UNION {OfScale(x[1], x[2]) : x \in Expected \X Range(Scales)}

\* A seed of the dropout experiment begins and ends as its scales do.
LEMMA DropoutsLookUp ==
    ASSUME NEW seed \in Expected
    PROVE  /\ Dropout(seed) \in Seq(Dropped)
           /\ CanBeJoined(Dropout(seed), {})
           /\ \E x : Dropout(seed)[1].fingerprint = <<"dropout", x>>
           /\ \E n, f : Dropout(seed)[Len(Dropout(seed)) - 1].fingerprint = <<"sparse", seed, n, f>>
<1> DEFINE m == Len(Scales) t == [k \in DOMAIN Scales |-> DropoutOfScale(seed, Scales[k])]
           s == FlattenSeq(t)
<1>1. m \in Nat \ {0} /\ DOMAIN Scales = 1 .. m /\ \A k \in 1 .. m : Scales[k] \in Range(Scales)
  BY StreamsAssumption DEF Range
<1>2. \A k \in 1 .. m : t[k] = DropoutOfScale(seed, Scales[k])
  BY <1>1
<1>3. \A k \in 1 .. m :
        /\ t[k] \in Seq(Dropped) /\ CanBeJoined(t[k], {}) /\ Len(t[k]) >= 2
        /\ \E x : t[k][1].fingerprint = <<"dropout", x>>
        /\ \E n, f : t[k][Len(t[k]) - 1].fingerprint = <<"sparse", seed, n, f>>
  <2> SUFFICES ASSUME NEW k \in 1 .. m
               PROVE  LET u == DropoutOfScale(seed, Scales[k])
                      IN  /\ u \in Seq(Dropped) /\ CanBeJoined(u, {}) /\ Len(u) >= 2
                          /\ \E x : u[1].fingerprint = <<"dropout", x>>
                          /\ \E n, f : u[Len(u) - 1].fingerprint = <<"sparse", seed, n, f>>
    BY <1>2
  <2> DEFINE u == DropoutOfScale(seed, Scales[k]) p == <<seed, Scales[k]>>
  <2>1. /\ u \in Seq(OfScale(seed, Scales[k]) \cup {Clear}) /\ Len(u) >= 2
        /\ CanBeJoined(u, {})
        /\ u[1].fingerprint = <<"dropout", seed + Scales[k]>>
        /\ \E f : u[Len(u) - 1].fingerprint = <<"sparse", seed, Scales[k], f>>
    <3> QED BY ScalesLookUp DEF Begun
  <2>2. p \in Expected \X Range(Scales) /\ p[1] = seed /\ p[2] = Scales[k]
    BY <1>1
  <2>3. OfScale(seed, Scales[k]) \cup {Clear} \subseteq Dropped
    <3> HIDE DEF p
    <3> QED BY <2>2 DEF Dropped
  <2> HIDE DEF u
  <2>4. u \in Seq(Dropped)
    BY <2>1, <2>3
  <2> QED BY <2>1, <2>4 DEF u
<1>4. t \in [1 .. m -> Seq(Dropped)]
  <2>1. t = [k \in 1 .. m |-> t[k]]
    BY <1>1
  <2> HIDE DEF t
  <2> QED BY <1>3, <2>1
<1>5. Dropout(seed) = s
  BY DEF Dropout
<1> HIDE DEF t, m
<1>6. IsConsistent({})
  BY DEF IsConsistent
<1>7. /\ s \in Seq(Dropped) /\ CanBeJoined(s, {})
      /\ s[1] = t[1][1]
      /\ Len(t[m]) >= 2 => s[Len(s) - 1] = t[m][Len(t[m]) - 1]
  <2>1. AllJoint(s, t, m, Dropped, {})
    BY <1>1, <1>3, <1>4, <1>6, ManyTasks
  <2> HIDE DEF s
  <2> QED BY <2>1 DEF AllJoint
<1>8. 1 \in 1 .. m /\ m \in 1 .. m
  BY <1>1
<1> HIDE DEF s
<1> QED BY <1>3, <1>5, <1>7, <1>8

\* The tasks of a worker, and the cache it was forked with.
IsGivenLookups(c) ==
    \E pool \in Tasks : \E n \in 1 .. MaxTasks : \E t \in [1 .. n -> pool] :
        /\ c.requests = FlattenSeq(t)
        /\ c.inherited \in {Nobody} \cup {task[Len(task) - 1] : task \in pool}

\* The tasks of a pool are of one experiment, so that the cache is right for each of them
\* and for whatever another left behind.
LEMMA GivenLookupsAreServed ==
    ASSUME NEW c, IsGivenLookups(c)
    PROVE  ServesWhatIsAsked(c.requests, c.inherited)
<1>1. PICK pool \in Tasks : \E n \in 1 .. MaxTasks : \E t \in [1 .. n -> pool] :
          /\ c.requests = FlattenSeq(t)
          /\ c.inherited \in {Nobody} \cup {task[Len(task) - 1] : task \in pool}
  BY DEF IsGivenLookups
<1>2. PICK n \in 1 .. MaxTasks : \E t \in [1 .. n -> pool] :
          /\ c.requests = FlattenSeq(t)
          /\ c.inherited \in {Nobody} \cup {task[Len(task) - 1] : task \in pool}
  BY <1>1
<1>3. PICK t \in [1 .. n -> pool] :
          /\ c.requests = FlattenSeq(t)
          /\ c.inherited \in {Nobody} \cup {task[Len(task) - 1] : task \in pool}
  BY <1>2
<1>4. n \in Nat \ {0} /\ 1 \in 1 .. n
  <2>1. n \in 1 .. MaxTasks
    OBVIOUS
  <2> QED BY <2>1, FitsAssumption
<1> DEFINE s == c.requests
<1>5. CASE \A task \in pool : \E seed \in Expected : task = Evaluation(seed)
  <2>1. \A task \in pool : task \in Seq(Ranked) /\ task[Len(task) - 1] \in Ranked /\ CanBeJoined(task, Ranked)
    BY <1>5, EvaluationsLookUp
  <2>2. t \in [1 .. n -> Seq(Ranked)] /\ \A i \in 1 .. n : CanBeJoined(t[i], Ranked)
    BY <2>1
  <2>3. AllJoint(FlattenSeq(t), t, n, Ranked, Ranked)
    BY <1>4, <2>2, RankedIsConsistent, ManyTasks
  <2>4. s = FlattenSeq(t) /\ (c.inherited = Nobody \/ c.inherited \in Ranked)
    BY <1>3, <2>1
  <2> HIDE DEF s
  <2>5. s \in Seq(Ranked) /\ IsCoherent(s) /\ s # <<>>
    BY <2>3, <2>4 DEF AllJoint, CanBeJoined
  <2>6. s[1] \in Ranked
    BY <2>5
  <2>7. c.inherited = Nobody \/ MayFollow(c.inherited, s[1])
    BY <2>4, <2>6, RankedIsConsistent DEF IsConsistent, MayFollow
  <2>8. ServesWhatIsAsked(s, c.inherited)
    BY <2>5, <2>7, CoherentLookupsAreServed
  <2> QED BY <2>8 DEF s
<1>6. CASE \A task \in pool : \E seed \in Expected : task = Dropout(seed)
  <2>1. \A task \in pool :
          /\ task \in Seq(Dropped) /\ CanBeJoined(task, {})
          /\ \E x : task[1].fingerprint = <<"dropout", x>>
          /\ \E seed, k, f : task[Len(task) - 1].fingerprint = <<"sparse", seed, k, f>>
    <3> SUFFICES ASSUME NEW task \in pool
                 PROVE  /\ task \in Seq(Dropped) /\ CanBeJoined(task, {})
                        /\ \E x : task[1].fingerprint = <<"dropout", x>>
                        /\ \E seed, k, f : task[Len(task) - 1].fingerprint = <<"sparse", seed, k, f>>
      OBVIOUS
    <3>1. PICK seed \in Expected : task = Dropout(seed)
      BY <1>6
    <3>2. /\ Dropout(seed) \in Seq(Dropped) /\ CanBeJoined(Dropout(seed), {})
          /\ \E x : Dropout(seed)[1].fingerprint = <<"dropout", x>>
          /\ \E k, f : Dropout(seed)[Len(Dropout(seed)) - 1].fingerprint = <<"sparse", seed, k, f>>
      BY DropoutsLookUp
    <3> QED BY <3>1, <3>2
  <2>2. t \in [1 .. n -> Seq(Dropped)] /\ \A i \in 1 .. n : CanBeJoined(t[i], {})
    BY <2>1
  <2>3. AllJoint(FlattenSeq(t), t, n, Dropped, {})
    <3>1. IsConsistent({})
      BY DEF IsConsistent
    <3> QED BY <1>4, <2>2, <3>1, ManyTasks
  <2>4. s = FlattenSeq(t)
    BY <1>3
  <2> HIDE DEF s
  <2>5. s \in Seq(Dropped) /\ IsCoherent(s) /\ s[1] = t[1][1]
    BY <2>3, <2>4 DEF AllJoint, CanBeJoined
  <2>6. \E x : s[1].fingerprint = <<"dropout", x>>
    BY <1>4, <2>1, <2>5
  <2>7. c.inherited = Nobody \/ \E seed, k, f : c.inherited.fingerprint = <<"sparse", seed, k, f>>
    BY <1>3, <2>1
  <2>8. \A x, seed, k, f : <<"dropout", x>> # <<"sparse", seed, k, f>>
    OBVIOUS
  <2>9. c.inherited = Nobody \/ MayFollow(c.inherited, s[1])
    BY <2>6, <2>7, <2>8 DEF MayFollow
  <2>10. ServesWhatIsAsked(s, c.inherited)
    BY <2>5, <2>9, CoherentLookupsAreServed
  <2> QED BY <2>10 DEF s
<1> QED BY <1>5, <1>6, TasksAssumption
-----------------------------------------------------------------------------
(***************************************************************************)
(* Sums over finite sets.                                                  *)
(***************************************************************************)
\* I is the sum of the g[x] over every part of S, taken in some order.
IsSum(I, S, g) ==
    I = [s \in SUBSET S |->
            IF s = {} THEN 0
            ELSE g[CHOOSE x \in s : TRUE] + I[s \ {CHOOSE x \in s : TRUE}]]

\* The order does not matter: any element can be added last.
Adds(I, S, g) ==
    \A s \in SUBSET S :
        /\ I[s] \in Int
        /\ s = {} => I[s] = 0
        /\ \A x \in s : I[s] = g[x] + I[s \ {x}]

\* A part without one of its elements has one less.
LEMMA OneLess ==
    ASSUME NEW S, IsFiniteSet(S), NEW s \in SUBSET S, NEW n \in Nat, Cardinality(s) <= n + 1,
           NEW x \in s
    PROVE  s \ {x} \in SUBSET S /\ Cardinality(s \ {x}) <= n
<1>1. IsFiniteSet(s)
  BY FS_Subset
<1>2. Cardinality(s \ {x}) = Cardinality(s) - 1 /\ Cardinality(s) \in Nat
  BY <1>1, FS_RemoveElement, FS_CardinalityType
<1>3. Cardinality(s \ {x}) <= n
  BY <1>2
<1> QED BY <1>3

\* There is a sum.
LEMMA SumsExist ==
    ASSUME NEW S, IsFiniteSet(S), NEW g
    PROVE  \E I : IsSum(I, S, g)
<1> DEFINE Step(I, s) == IF s = {} THEN 0
                         ELSE g[CHOOSE x \in s : TRUE] + I[s \ {CHOOSE x \in s : TRUE}]
           Is(I, U) == I = [s \in U |-> Step(I, s)]
           Upto(n) == {s \in SUBSET S : Cardinality(s) <= n}
           Reached == {n \in Nat : \E I : Is(I, Upto(n))}
<1>1. \A s \in SUBSET S : IsFiniteSet(s) /\ Cardinality(s) \in Nat
  BY FS_Subset, FS_CardinalityType
<1>2. ASSUME NEW n \in Nat, NEW s \in Upto(n + 1), s # {}
      PROVE  s \ {CHOOSE x \in s : TRUE} \in Upto(n)
  <2>1. (CHOOSE x \in s : TRUE) \in s
    BY <1>2
  <2> QED BY <1>2, <2>1, OneLess
<1>3. \A s \in Upto(0) : s = {}
  BY <1>1, FS_EmptySet
<1>4. Nat \subseteq Reached
  <2>1. 0 \in Reached
    <3>1. Is([s \in Upto(0) |-> 0], Upto(0))
      BY <1>3
    <3> QED BY <3>1
  <2>2. ASSUME NEW n \in Nat, n \in Reached PROVE n + 1 \in Reached
    <3>1. PICK I : Is(I, Upto(n))
      BY <2>2
    <3> DEFINE J == [s \in Upto(n + 1) |-> IF s \in Upto(n) THEN I[s] ELSE Step(I, s)]
    <3>2. Upto(n) \subseteq Upto(n + 1)
      BY <1>1
    <3>3. \A s \in Upto(n) : I[s] = Step(I, s) /\ J[s] = I[s]
      BY <3>1, <3>2
    <3>4. ASSUME NEW s \in Upto(n + 1) PROVE J[s] = Step(J, s)
      <4>1. J[s] = Step(I, s)
        BY <3>3
      <4>2. CASE s = {}
        BY <4>1, <4>2
      <4>3. CASE s # {}
        <5>1. s \ {CHOOSE x \in s : TRUE} \in Upto(n)
          BY <1>2, <4>3
        <5>2. J[s \ {CHOOSE x \in s : TRUE}] = I[s \ {CHOOSE x \in s : TRUE}]
          BY <3>3, <5>1
        <5> HIDE DEF J
        <5> QED BY <4>1, <5>2
      <4> QED BY <4>2, <4>3
    <3>5. J = [s \in Upto(n + 1) |-> J[s]]
      OBVIOUS
    <3> HIDE DEF J
    <3>6. Is(J, Upto(n + 1))
      BY <3>4, <3>5
    <3> HIDE DEF Is, Upto
    <3> QED BY <3>6
  <2> HIDE DEF Reached
  <2> QED BY <2>1, <2>2, AllNumbers
<1>5. Cardinality(S) \in Nat /\ Upto(Cardinality(S)) = SUBSET S
  BY <1>1, FS_Subset, FS_CardinalityType
<1>6. \E I : Is(I, SUBSET S)
  <2> HIDE DEF Is, Upto
  <2> QED BY <1>4, <1>5
<1> QED BY <1>6 DEF IsSum

\* Sums of integers do not depend on the order.
LEMMA SumsAdd ==
    ASSUME NEW S, IsFiniteSet(S), NEW g, \A x \in S : g[x] \in Int, NEW I, IsSum(I, S, g)
    PROVE  Adds(I, S, g)
<1> DEFINE First(s) == CHOOSE x \in s : TRUE
           Holds(s) == /\ I[s] \in Int
                       /\ s = {} => I[s] = 0
                       /\ \A x \in s : I[s] = g[x] + I[s \ {x}]
           Upto(n) == {s \in SUBSET S : Cardinality(s) <= n}
           Good == {n \in Nat : \A s \in Upto(n) : Holds(s)}
<1>1. \A s \in SUBSET S : IsFiniteSet(s) /\ Cardinality(s) \in Nat
  BY FS_Subset, FS_CardinalityType
<1>2. \A s \in SUBSET S : I[s] = IF s = {} THEN 0 ELSE g[First(s)] + I[s \ {First(s)}]
  BY DEF IsSum
<1>3. \A s : s # {} => First(s) \in s
  OBVIOUS
<1> HIDE DEF First
<1>0. Holds({})
  <2>1. I[{}] = 0
    BY <1>2
  <2> QED BY <2>1
<1>4. 0 \in Good
  <2>1. \A s \in Upto(0) : s = {}
    BY <1>1, FS_EmptySet
  <2> QED BY <1>0, <2>1
<1>5. ASSUME NEW n \in Nat, n \in Good PROVE n + 1 \in Good
  <2> SUFFICES ASSUME NEW s \in Upto(n + 1) PROVE Holds(s)
    OBVIOUS
  <2>1. CASE s = {}
    BY <1>0, <2>1
  <2>2. CASE s # {}
    <3> DEFINE c == First(s)
    <3>1. c \in s /\ I[s] = g[c] + I[s \ {c}] /\ s \in SUBSET S
      BY <1>2, <1>3, <2>2
    <3> HIDE DEF c
    <3>2. \A x \in s : s \ {x} \in Upto(n)
      BY <1>5, OneLess
    <3>3. \A x \in s : Holds(s \ {x})
      BY <1>5, <3>2
    <3>4. \A x \in s : g[x] \in Int /\ I[s \ {x}] \in Int
      BY <3>1, <3>3
    <3>5. I[s] \in Int
      BY <3>1, <3>4
    <3>6. ASSUME NEW x \in s PROVE I[s] = g[x] + I[s \ {x}]
      <4>1. CASE x = c
        BY <3>1, <4>1
      <4>2. CASE x # c
        <5>1. x \in s \ {c} /\ c \in s \ {x} /\ (s \ {c}) \ {x} = (s \ {x}) \ {c}
          BY <3>1, <4>2
        <5>2. I[s \ {c}] = g[x] + I[(s \ {c}) \ {x}]
          BY <3>1, <3>3, <5>1
        <5>3. I[s \ {x}] = g[c] + I[(s \ {x}) \ {c}]
          BY <3>3, <5>1
        <5>4. (s \ {c}) \ {x} \in Upto(n)
          <6>1. s \ {c} \in SUBSET S /\ Cardinality(s \ {c}) <= n /\ Cardinality(s \ {c}) \in Nat
            BY <1>1, <3>1, <3>2
          <6>2. Cardinality(s \ {c}) <= n + 1
            BY <6>1
          <6> QED BY <1>5, <5>1, <6>1, <6>2, OneLess
        <5>5. I[(s \ {c}) \ {x}] \in Int
          BY <1>5, <5>4
        <5> DEFINE a == g[x] b == g[c] d == I[(s \ {c}) \ {x}]
        <5>6. I[s] = b + (a + d) /\ I[s \ {x}] = b + d
          BY <3>1, <5>1, <5>2, <5>3
        <5>7. a \in Int /\ b \in Int /\ d \in Int
          BY <3>1, <3>4, <5>5
        <5> HIDE DEF a, b, d
        <5>8. b + (a + d) = a + (b + d)
          BY <5>7
        <5>9. I[s] = a + I[s \ {x}]
          BY <5>6, <5>8
        <5> QED BY <5>9 DEF a
      <4> QED BY <4>1, <4>2
    <3> QED BY <2>2, <3>5, <3>6
  <2> QED BY <2>1, <2>2
<1>6. ASSUME NEW s \in SUBSET S PROVE Holds(s)
  <2>1. Cardinality(s) \in Nat
    BY <1>1
  <2>2. Cardinality(s) \in Good
    <3> HIDE DEF Good
    <3>1. Nat \subseteq Good
      BY <1>4, <1>5, AllNumbers
    <3> QED BY <2>1, <3>1
  <2>3. s \in Upto(Cardinality(s))
    BY <2>1
  <2> HIDE DEF Holds, Upto
  <2> QED BY <2>2, <2>3
<1> QED BY <1>6 DEF Adds

\* What holds of the empty set, and of a part when it holds without one of its elements,
\* holds of every part of a finite set.
LEMMA AllParts ==
    ASSUME NEW S, IsFiniteSet(S), NEW X, {} \in X,
           \A s \in SUBSET S : \A x \in s : s \ {x} \in X => s \in X
    PROVE  SUBSET S \subseteq X
<1> DEFINE Good == {n \in Nat : \A s \in SUBSET S : Cardinality(s) <= n => s \in X}
<1>1. \A s \in SUBSET S : IsFiniteSet(s) /\ Cardinality(s) \in Nat
  BY FS_Subset, FS_CardinalityType
<1>2. 0 \in Good
  <2>1. \A s \in SUBSET S : Cardinality(s) <= 0 => s = {}
    BY <1>1, FS_EmptySet
  <2> QED BY <2>1
<1>3. ASSUME NEW n \in Nat, n \in Good PROVE n + 1 \in Good
  <2>1. ASSUME NEW s \in SUBSET S, Cardinality(s) <= n + 1, s # {} PROVE s \in X
    <3>1. PICK x \in s : TRUE
      BY <2>1
    <3>2. s \ {x} \in SUBSET S /\ Cardinality(s \ {x}) <= n
      BY <2>1, OneLess
    <3>3. s \ {x} \in X
      BY <1>3, <3>2
    <3> QED BY <3>3
  <2>2. \A s \in SUBSET S : Cardinality(s) <= n + 1 => s \in X
    BY <2>1
  <2> QED BY <2>2
<1> HIDE DEF Good
<1>4. Nat \subseteq Good
  BY <1>2, <1>3, AllNumbers
<1>5. \A s \in SUBSET S : Cardinality(s) \in Good
  BY <1>1, <1>4
<1> QED BY <1>1, <1>5 DEF Good

\* An element added last to a sum over a set that it is not in.
LEMMA OneMore ==
    ASSUME NEW S, NEW g, NEW I, Adds(I, S, g), NEW s \in SUBSET S, NEW x \in S, x \notin s
    PROVE  I[s \cup {x}] = g[x] + I[s]
<1>1. s \cup {x} \in SUBSET S /\ x \in s \cup {x} /\ (s \cup {x}) \ {x} = s
  OBVIOUS
<1> QED BY <1>1 DEF Adds

\* A product with one more.
LEMMA TimesOneMore ==
    ASSUME NEW a \in Int, NEW b \in Int
    PROVE  (a + 1) * b = a * b + b
OBVIOUS

\* A set of elements that are all c adds as many times c.
LEMMA EqualTermsAdd ==
    ASSUME NEW S, IsFiniteSet(S), NEW g, NEW I, Adds(I, S, g), NEW B \in SUBSET S,
           NEW A \in SUBSET (S \ B), NEW c \in Int, \A x \in A : g[x] = c
    PROVE  I[B \cup A] = I[B] + Cardinality(A) * c
<1> DEFINE X == {a \in SUBSET A : I[B \cup a] = I[B] + Cardinality(a) * c}
<1>1. IsFiniteSet(A)
  BY FS_Subset
<1>2. I[B] \in Int
  BY DEF Adds
<1>3. {} \in X
  <2>1. B \cup {} = B /\ Cardinality({}) = 0 /\ {} \in SUBSET A
    BY FS_EmptySet
  <2>2. I[B] = I[B] + 0 * c
    BY <1>2
  <2> QED BY <2>1, <2>2
<1>4. ASSUME NEW a \in SUBSET A, NEW x \in a, a \ {x} \in X PROVE a \in X
  <2>1. B \cup (a \ {x}) \in SUBSET S /\ x \notin B \cup (a \ {x}) /\ x \in S
    OBVIOUS
  <2>2. (B \cup (a \ {x})) \cup {x} = B \cup a
    OBVIOUS
  <2>3. I[B \cup a] = g[x] + I[B \cup (a \ {x})]
    BY <2>1, <2>2, OneMore
  <2>4. IsFiniteSet(a) /\ Cardinality(a \ {x}) \in Nat /\ Cardinality(a) = Cardinality(a \ {x}) + 1
    <3>1. IsFiniteSet(a)
      BY <1>1, FS_Subset
    <3>2. IsFiniteSet(a \ {x}) /\ Cardinality(a \ {x}) = Cardinality(a) - 1
      BY <3>1, FS_RemoveElement
    <3>3. Cardinality(a) \in Nat /\ Cardinality(a \ {x}) \in Nat
      BY <3>1, <3>2, FS_CardinalityType
    <3> QED BY <3>1, <3>2, <3>3
  <2> DEFINE k == Cardinality(a \ {x}) d == I[B]
  <2>5. g[x] = c /\ I[B \cup (a \ {x})] = d + k * c
    BY <1>4
  <2>6. k \in Int /\ d \in Int /\ k * c \in Int
    BY <1>2, <2>4
  <2>7. I[B \cup a] = c + (d + k * c) /\ Cardinality(a) = k + 1
    BY <2>3, <2>4, <2>5
  <2> HIDE DEF k, d
  <2>8. (k + 1) * c = k * c + c
    BY <2>6, TimesOneMore
  <2>9. c + (d + k * c) = d + (k * c + c)
    BY <2>6
  <2>10. I[B \cup a] = d + Cardinality(a) * c
    BY <2>7, <2>8, <2>9
  <2> QED BY <2>10 DEF d
<1> HIDE DEF X
<1>5. SUBSET A \subseteq X
  BY <1>1, <1>3, <1>4, AllParts
<1>6. A \in X
  BY <1>5
<1> QED BY <1>6 DEF X

-----------------------------------------------------------------------------
(***************************************************************************)
(* The area under the ROC curve.                                           *)
(***************************************************************************)
\* The pairs of W of which the first is in T.
PairsFrom(W, T) == {w \in W : w[1] \in T}

\* What is in a relation with i.
Related(W, D, i) == {j \in D : <<i, j>> \in W}

\* A disjoint union has as many elements as its parts together.
LEMMA CountParts ==
    ASSUME NEW A, IsFiniteSet(A), NEW B, IsFiniteSet(B), A \cap B = {}
    PROVE  /\ IsFiniteSet(A \cup B)
           /\ Cardinality(A \cup B) = Cardinality(A) + Cardinality(B)
           /\ Cardinality(A) \in Nat /\ Cardinality(B) \in Nat
<1>1. Cardinality(A) \in Nat /\ Cardinality(B) \in Nat
  BY FS_CardinalityType
<1>2. IsFiniteSet(A \cup B) /\ Cardinality(A \cup B) = Cardinality(A) + Cardinality(B) - Cardinality(A \cap B)
  BY FS_Union
<1>3. Cardinality(A \cap B) = 0
  BY FS_EmptySet
<1> QED BY <1>1, <1>2, <1>3

\* Sets between which there is a one to one map are of the same size.
LEMMA CountMapped ==
    ASSUME NEW A, IsFiniteSet(A), NEW B, NEW f \in Bijection(A, B)
    PROVE  Cardinality(A) = Cardinality(B)
BY FS_Bijection DEF ExistsBijection

\* The pairs from a set are those from all but one of it, and those from that one.
LEMMA PairsFromOneMore ==
    ASSUME NEW D, IsFiniteSet(D), NEW W, W \subseteq D \X D, NEW T \in SUBSET D, NEW i \in T
    PROVE  /\ IsFiniteSet(PairsFrom(W, T)) /\ IsFiniteSet(PairsFrom(W, T \ {i})) /\ IsFiniteSet(Related(W, D, i))
           /\ Cardinality(PairsFrom(W, T)) = Cardinality(PairsFrom(W, T \ {i})) + Cardinality(Related(W, D, i))
<1> DEFINE F == {i} \X Related(W, D, i)
           f == [j \in Related(W, D, i) |-> <<i, j>>]
<1>1. IsFiniteSet(W)
  BY FS_Product, FS_Subset
<1>2. IsFiniteSet(PairsFrom(W, T)) /\ IsFiniteSet(PairsFrom(W, T \ {i}))
  <2>1. PairsFrom(W, T) \in SUBSET W /\ PairsFrom(W, T \ {i}) \in SUBSET W
    BY DEF PairsFrom
  <2> QED BY <1>1, <2>1, FS_Subset
<1>3. IsFiniteSet(Related(W, D, i))
  <2>1. Related(W, D, i) \in SUBSET D
    BY DEF Related
  <2> QED BY <2>1, FS_Subset
<1>4. PairsFrom(W, T) = PairsFrom(W, T \ {i}) \cup F
  BY DEF PairsFrom, Related
<1>5. PairsFrom(W, T \ {i}) \cap F = {}
  BY DEF PairsFrom
<1>6. f \in Bijection(Related(W, D, i), F)
  <2> HIDE DEF Related
  <2>1. f \in [Related(W, D, i) -> F]
    OBVIOUS
  <2>2. \A a, b \in Related(W, D, i) : f[a] = f[b] => a = b
    OBVIOUS
  <2>3. \A t \in F : \E a \in Related(W, D, i) : f[a] = t
    OBVIOUS
  <2> HIDE DEF f, F
  <2> QED BY <2>1, <2>2, <2>3 DEF Bijection, Injection, Surjection, IsInjective
<1> HIDE DEF f, F
<1>7. Cardinality(Related(W, D, i)) = Cardinality(F)
  BY <1>3, <1>6, CountMapped
<1>8. IsFiniteSet(F)
  BY <1>3, <1>6, FS_Bijection DEF ExistsBijection
<1>9. Cardinality(PairsFrom(W, T \ {i}) \cup F) = Cardinality(PairsFrom(W, T \ {i})) + Cardinality(F)
  BY <1>2, <1>5, <1>8, CountParts
<1> QED BY <1>2, <1>3, <1>4, <1>7, <1>9

\* The epochs of a stream are numbered, and have scores.
IsStream(scores, labels) ==
    /\ IsFiniteSet(DOMAIN scores)
    /\ scores \in [DOMAIN scores -> Int]
    /\ labels \in [DOMAIN scores -> BOOLEAN]

\* The pairs of epochs that are in order, and those that are tied.
Below(scores) == {w \in (DOMAIN scores) \X (DOMAIN scores) : scores[w[2]] < scores[w[1]]}
Tied(scores) == {w \in (DOMAIN scores) \X (DOMAIN scores) : scores[w[2]] = scores[w[1]]}

\* The sum of the ranks of the epochs of T counts the pairs from T.
LEMMA RanksCountPairs ==
    ASSUME NEW scores, NEW labels, IsStream(scores, labels), NEW P \in SUBSET DOMAIN scores
    PROVE  FoldSet(LAMBDA x, y : TwiceRank(scores, x) + y, 0, P)
             = 2 * Cardinality(PairsFrom(Below(scores), P)) + Cardinality(PairsFrom(Tied(scores), P)) + Cardinality(P)
<1> DEFINE D == DOMAIN scores
           g == [i \in P |-> TwiceRank(scores, i)]
           L(T) == Cardinality(PairsFrom(Below(scores), T))
           E(T) == Cardinality(PairsFrom(Tied(scores), T))
<1>1. IsFiniteSet(D) /\ IsFiniteSet(P)
  BY FS_Subset DEF IsStream
<1>2. Below(scores) \subseteq D \X D /\ Tied(scores) \subseteq D \X D
  BY DEF Below, Tied
<1>3. \A i \in P : /\ g[i] = 2 * Cardinality(Related(Below(scores), D, i))
                             + Cardinality(Related(Tied(scores), D, i)) + 1
                   /\ Cardinality(Related(Below(scores), D, i)) \in Nat
                   /\ Cardinality(Related(Tied(scores), D, i)) \in Nat
  <2> SUFFICES ASSUME NEW i \in P
               PROVE  /\ g[i] = 2 * Cardinality(Related(Below(scores), D, i))
                                  + Cardinality(Related(Tied(scores), D, i)) + 1
                      /\ Cardinality(Related(Below(scores), D, i)) \in Nat
                      /\ Cardinality(Related(Tied(scores), D, i)) \in Nat
    OBVIOUS
  <2>1. Related(Below(scores), D, i) = {j \in D : scores[j] < scores[i]}
    BY DEF Related, Below
  <2>2. Related(Tied(scores), D, i) = {j \in D : scores[j] = scores[i]}
    BY DEF Related, Tied
  <2>3. IsFiniteSet(Related(Below(scores), D, i)) /\ IsFiniteSet(Related(Tied(scores), D, i))
    BY <1>1, <2>1, <2>2, FS_Subset
  <2> QED BY <2>1, <2>2, <2>3, FS_CardinalityType DEF TwiceRank
<1>4. \A i \in P : g[i] \in Int
  BY <1>3
<1> HIDE DEF g
<1> DEFINE Is(J) == J = [s \in SUBSET P |->
                            IF s = {} THEN 0
                            ELSE TwiceRank(scores, CHOOSE x \in s : TRUE) + J[s \ {CHOOSE x \in s : TRUE}]]
           I == CHOOSE J : Is(J)
<1>5. FoldSet(LAMBDA x, y : TwiceRank(scores, x) + y, 0, P) = I[P]
  BY DEF FoldSet, MapThenFoldSet
<1>6. Adds(I, P, g)
  <2>1. \A s \in SUBSET P : s # {} => TwiceRank(scores, CHOOSE x \in s : TRUE) = g[CHOOSE x \in s : TRUE]
    BY DEF g
  <2>2. \A J : Is(J) <=> IsSum(J, P, g)
    BY <2>1 DEF IsSum
  <2> HIDE DEF Is
  <2>3. Is(I)
    BY <1>1, <2>2, SumsExist
  <2> HIDE DEF I
  <2> QED BY <1>1, <1>4, <2>2, <2>3, SumsAdd
<1> HIDE DEF I
<1> DEFINE X == {T \in SUBSET P : I[T] = 2 * L(T) + E(T) + Cardinality(T)}
<1>7. {} \in X
  <2>1. PairsFrom(Below(scores), {}) = {} /\ PairsFrom(Tied(scores), {}) = {}
    BY DEF PairsFrom
  <2>0. {} \in SUBSET P
    OBVIOUS
  <2>2. I[{}] = 0 /\ L({}) = 0 /\ E({}) = 0 /\ Cardinality({}) = 0
    BY <1>6, <2>0, <2>1, FS_EmptySet DEF Adds
  <2> HIDE DEF L, E
  <2> QED BY <2>2
<1>8. ASSUME NEW T \in SUBSET P, NEW i \in T, T \ {i} \in X PROVE T \in X
  <2>1. I[T] = g[i] + I[T \ {i}]
    BY <1>6 DEF Adds
  <2>0. T \in SUBSET D
    OBVIOUS
  <2>2. L(T) = L(T \ {i}) + Cardinality(Related(Below(scores), D, i)) /\ L(T \ {i}) \in Nat
    BY <1>1, <1>2, <2>0, PairsFromOneMore, FS_CardinalityType
  <2>3. E(T) = E(T \ {i}) + Cardinality(Related(Tied(scores), D, i)) /\ E(T \ {i}) \in Nat
    BY <1>1, <1>2, <2>0, PairsFromOneMore, FS_CardinalityType
  <2>4. Cardinality(T) = Cardinality(T \ {i}) + 1 /\ Cardinality(T \ {i}) \in Nat
    <3>1. IsFiniteSet(T) /\ IsFiniteSet(T \ {i})
      BY <1>1, FS_Subset
    <3>2. Cardinality(T \ {i}) = Cardinality(T) - 1
      BY <3>1, FS_RemoveElement
    <3>3. Cardinality(T) \in Nat /\ Cardinality(T \ {i}) \in Nat
      BY <3>1, FS_CardinalityType
    <3> QED BY <3>2, <3>3
  <2> DEFINE b == Cardinality(Related(Below(scores), D, i))
             t == Cardinality(Related(Tied(scores), D, i))
             l == L(T \ {i})
             e == E(T \ {i})
             k == Cardinality(T \ {i})
  <2>5. I[T \ {i}] = 2 * l + e + k
    BY <1>8
  <2>6. g[i] = 2 * b + t + 1 /\ b \in Nat /\ t \in Nat
    BY <1>3
  <2>7. L(T) = l + b /\ E(T) = e + t /\ Cardinality(T) = k + 1 /\ l \in Nat /\ e \in Nat /\ k \in Nat
    BY <2>2, <2>3, <2>4
  <2> HIDE DEF L, E, b, t, l, e, k
  <2>8. (2 * b + t + 1) + (2 * l + e + k) = 2 * (l + b) + (e + t) + (k + 1)
    BY <2>6, <2>7
  <2>9. I[T] = 2 * L(T) + E(T) + Cardinality(T)
    BY <2>1, <2>5, <2>6, <2>7, <2>8
  <2> QED BY <2>9
<1> HIDE DEF X
<1>9. P \in X
  BY <1>1, <1>7, <1>8, AllParts
<1> QED BY <1>5, <1>9 DEF X

\* The pairs of W of which the first is in A and the second in B.
Between(W, A, B) == {w \in W : w[1] \in A /\ w[2] \in B}

\* Of two of the epochs of P one is below the other, or they are tied: twice the pairs that
\* are in order and those that are tied are all there are.
LEMMA PairsWithin ==
    ASSUME NEW scores, NEW labels, IsStream(scores, labels), NEW P \in SUBSET DOMAIN scores
    PROVE  2 * Cardinality(Between(Below(scores), P, P)) + Cardinality(Between(Tied(scores), P, P))
             = Cardinality(P) * Cardinality(P)
<1> DEFINE L == Between(Below(scores), P, P)
           E == Between(Tied(scores), P, P)
           U == {w \in P \X P : scores[w[1]] < scores[w[2]]}
           f == [w \in L |-> <<w[2], w[1]>>]
<1>1. IsFiniteSet(P) /\ IsFiniteSet(P \X P) /\ Cardinality(P \X P) = Cardinality(P) * Cardinality(P)
  BY FS_Subset, FS_Product DEF IsStream
<1>2. /\ L = {w \in P \X P : scores[w[2]] < scores[w[1]]}
      /\ E = {w \in P \X P : scores[w[2]] = scores[w[1]]}
  BY DEF Between, Below, Tied
<1> HIDE DEF L, E
<1>3. IsFiniteSet(L) /\ IsFiniteSet(E) /\ IsFiniteSet(U)
  BY <1>1, <1>2, FS_Subset
<1>4. f \in Bijection(L, U)
  <2>1. \A w \in L : w \in P \X P /\ <<w[2], w[1]>> \in U
    BY <1>2
  <2>2. f \in [L -> U]
    <3> HIDE DEF U
    <3> QED BY <2>1
  <2>3. \A v, w \in L : f[v] = f[w] => v = w
    BY <2>1
  <2>4. \A u \in U : \E w \in L : f[w] = u
    <3> SUFFICES ASSUME NEW u \in U PROVE \E w \in L : f[w] = u
      OBVIOUS
    <3>1. <<u[2], u[1]>> \in L /\ u = <<u[1], u[2]>>
      BY <1>2
    <3> QED BY <3>1
  <2> HIDE DEF f, U
  <2> QED BY <2>2, <2>3, <2>4 DEF Bijection, Injection, Surjection, IsInjective
<1>5. Cardinality(L) = Cardinality(U)
  <2> HIDE DEF f, U
  <2> QED BY <1>3, <1>4, CountMapped
<1>6. L \cap E = {} /\ (L \cup E) \cap U = {} /\ (L \cup E) \cup U = P \X P
  <2>1. \A w \in P \X P : scores[w[1]] \in Int /\ scores[w[2]] \in Int
    BY DEF IsStream
  <2>2. \A w \in P \X P : \/ w \in L /\ w \notin E /\ w \notin U
                          \/ w \notin L /\ w \in E /\ w \notin U
                          \/ w \notin L /\ w \notin E /\ w \in U
    BY <1>2, <2>1
  <2>3. L \subseteq P \X P /\ E \subseteq P \X P /\ U \subseteq P \X P
    BY <1>2
  <2> HIDE DEF U
  <2> QED BY <2>2, <2>3
<1> HIDE DEF U
<1>7. Cardinality(L \cup E) = Cardinality(L) + Cardinality(E) /\ IsFiniteSet(L \cup E)
      /\ Cardinality(L) \in Nat /\ Cardinality(E) \in Nat
  BY <1>3, <1>6, CountParts
<1>8. Cardinality((L \cup E) \cup U) = Cardinality(L \cup E) + Cardinality(U)
  BY <1>3, <1>6, <1>7, CountParts
<1>9. Cardinality(P) * Cardinality(P) = Cardinality(L) + Cardinality(E) + Cardinality(L)
  BY <1>1, <1>5, <1>6, <1>7, <1>8
<1>10. 2 * Cardinality(L) + Cardinality(E) = Cardinality(L) + Cardinality(E) + Cardinality(L)
  BY <1>7
<1> QED BY <1>9, <1>10 DEF L, E

\* The pairs from P are those within P and those to the other epochs.
LEMMA PairsLeadTo ==
    ASSUME NEW D, IsFiniteSet(D), NEW W, W \subseteq D \X D, NEW P \in SUBSET D
    PROVE  /\ Cardinality(PairsFrom(W, P)) = Cardinality(Between(W, P, P)) + Cardinality(Between(W, P, D \ P))
           /\ Cardinality(Between(W, P, P)) \in Nat /\ Cardinality(Between(W, P, D \ P)) \in Nat
<1>1. IsFiniteSet(W)
  BY FS_Product, FS_Subset
<1>2. IsFiniteSet(Between(W, P, P)) /\ IsFiniteSet(Between(W, P, D \ P))
  <2>1. Between(W, P, P) \in SUBSET W /\ Between(W, P, D \ P) \in SUBSET W
    BY DEF Between
  <2> QED BY <1>1, <2>1, FS_Subset
<1>3. /\ PairsFrom(W, P) = Between(W, P, P) \cup Between(W, P, D \ P)
      /\ Between(W, P, P) \cap Between(W, P, D \ P) = {}
  BY DEF PairsFrom, Between
<1> QED BY <1>2, <1>3, CountParts

\* The area under the ROC curve counts the pairs of a positive and a negative epoch.
LEMMA AurocCountsPairs ==
    ASSUME NEW scores, NEW labels, IsStream(scores, labels), IsDefined(labels)
    PROVE  Auroc(scores, labels)[1] * PairwiseAuroc(scores, labels)[2]
             = PairwiseAuroc(scores, labels)[1] * Auroc(scores, labels)[2]
<1> DEFINE D == DOMAIN scores
           P == Positives(labels)
           N == Negatives(labels)
           p == Cardinality(P)
           n == Cardinality(N)
           L(T) == Cardinality(Between(Below(scores), P, T))
           E(T) == Cardinality(Between(Tied(scores), P, T))
           sum == FoldSet(LAMBDA x, y : TwiceRank(scores, x) + y, 0, P)
<1>1. DOMAIN labels = D /\ P \in SUBSET D /\ N = D \ P /\ IsFiniteSet(D)
  BY DEF IsStream, Positives, Negatives
<1>2. IsFiniteSet(P) /\ IsFiniteSet(N) /\ p \in Nat /\ n \in Nat
  <2> HIDE DEF P, N
  <2>1. N \in SUBSET D
    BY <1>1
  <2> QED BY <1>1, <2>1, FS_Subset, FS_CardinalityType
<1>3. Below(scores) \subseteq D \X D /\ Tied(scores) \subseteq D \X D
  BY DEF Below, Tied
<1>4. Auroc(scores, labels) = <<sum - p * (p + 1), 2 * p * n>>
  BY DEF Auroc, Total
<1>5. /\ {x \in P \X N : scores[x[1]] > scores[x[2]]} = Between(Below(scores), P, N)
      /\ {x \in P \X N : scores[x[1]] = scores[x[2]]} = Between(Tied(scores), P, N)
  <2> HIDE DEF P, N
  <2>1. N \subseteq D
    BY <1>1
  <2>2. \A x \in D \X D : scores[x[1]] \in Int /\ scores[x[2]] \in Int
    BY DEF IsStream
  <2>3. \A x \in D \X D : scores[x[1]] > scores[x[2]] <=> scores[x[2]] < scores[x[1]]
    BY <2>2
  <2> QED BY <1>1, <2>1, <2>3 DEF Between, Below, Tied
<1>6. PairwiseAuroc(scores, labels) = <<2 * L(N) + E(N), 2 * Cardinality(P \X N)>>
  <2> DEFINE b == PairwiseAuroc(scores, labels)
  <2>1. PairwiseAuroc(scores, labels)
          = <<2 * Cardinality({x \in P \X N : scores[x[1]] > scores[x[2]]})
                + Cardinality({x \in P \X N : scores[x[1]] = scores[x[2]]}), 2 * Cardinality(P \X N)>>
    BY DEF PairwiseAuroc
  <2> HIDE DEF P, N
  <2> QED BY <1>5, <2>1
<1> HIDE DEF P, N
<1>7. Cardinality(P \X N) = p * n
  BY <1>2, FS_Product
<1>8. sum = 2 * (L(P) + L(N)) + (E(P) + E(N)) + p
      /\ L(P) \in Nat /\ L(N) \in Nat /\ E(P) \in Nat /\ E(N) \in Nat
  <2>1. sum = 2 * Cardinality(PairsFrom(Below(scores), P)) + Cardinality(PairsFrom(Tied(scores), P)) + p
    BY <1>1, RanksCountPairs
  <2>2. Cardinality(PairsFrom(Below(scores), P)) = L(P) + L(N) /\ L(P) \in Nat /\ L(N) \in Nat
    BY <1>1, <1>3, PairsLeadTo
  <2>3. Cardinality(PairsFrom(Tied(scores), P)) = E(P) + E(N) /\ E(P) \in Nat /\ E(N) \in Nat
    BY <1>1, <1>3, PairsLeadTo
  <2> HIDE DEF sum, L, E, p
  <2> QED BY <2>1, <2>2, <2>3
<1>9. 2 * L(P) + E(P) = p * p
  BY <1>1, PairsWithin
<1> HIDE DEF sum, L, E, p, n
<1>10. p * p \in Int /\ p * (p + 1) = p * p + p /\ p * n \in Int
  BY <1>2
<1>11. sum - p * (p + 1) = 2 * L(N) + E(N)
  <2> DEFINE q == p * p
             r == p * (p + 1)
  <2>1. q \in Int /\ r = q + p /\ 2 * L(P) + E(P) = q
    BY <1>9, <1>10
  <2> HIDE DEF q, r
  <2>2. sum - r = 2 * L(N) + E(N)
    BY <1>2, <1>8, <2>1
  <2> QED BY <2>2 DEF r
<1>12. 2 * p * n = 2 * (p * n)
  BY <1>2
<1> DEFINE a == Auroc(scores, labels)
           b == PairwiseAuroc(scores, labels)
<1>13. a[1] = 2 * L(N) + E(N) /\ a[2] = 2 * (p * n) /\ b[1] = 2 * L(N) + E(N) /\ b[2] = 2 * (p * n)
  BY <1>4, <1>6, <1>7, <1>11, <1>12
<1> QED BY <1>13

-----------------------------------------------------------------------------
(***************************************************************************)
(* The average precision.                                                  *)
(***************************************************************************)
\* The precision at the score of a group, times the positives found so far.
AtScore(scores, labels, scale, v) ==
    (scale \div Cardinality(AtLeast(scores, v))) * Cardinality(AtLeast(scores, v) \cap Positives(labels))

\* The positives that score one of V.
Scoring(scores, labels, V) == {i \in Positives(labels) : scores[i] \in V}

\* It is a number.
LEMMA AtScoreIsNumber ==
    ASSUME NEW scores, NEW labels, IsStream(scores, labels), NEW scale \in Nat, NEW i \in DOMAIN scores
    PROVE  AtScore(scores, labels, scale, scores[i]) \in Int
<1> DEFINE A == AtLeast(scores, scores[i])
<1>1. i \in A /\ A \in SUBSET DOMAIN scores
  <2>1. scores[i] \in Int
    BY DEF IsStream
  <2>2. scores[i] >= scores[i]
    BY <2>1
  <2> QED BY <2>2 DEF AtLeast
<1> HIDE DEF A
<1>2. IsFiniteSet(A) /\ IsFiniteSet(A \cap Positives(labels))
  <2>1. IsFiniteSet(A)
    BY <1>1, FS_Subset DEF IsStream
  <2>2. A \cap Positives(labels) \in SUBSET A
    OBVIOUS
  <2> QED BY <2>1, <2>2, FS_Subset
<1>3. Cardinality(A) \in Nat /\ Cardinality(A \cap Positives(labels)) \in Nat /\ Cardinality(A) # 0
  BY <1>1, <1>2, FS_CardinalityType, FS_EmptySet
<1>4. scale \div Cardinality(A) \in Int
  BY <1>3
<1> DEFINE q == scale \div Cardinality(A) c == Cardinality(A \cap Positives(labels))
<1>5. q \in Int /\ c \in Int
  BY <1>3, <1>4
<1> HIDE DEF q, c
<1>6. q * c \in Int
  BY <1>5
<1>7. AtScore(scores, labels, scale, scores[i]) = q * c
  BY DEF AtScore, q, c, A
<1> QED BY <1>6, <1>7

\* The average precision is a sum over the scores, their mean precision one over the
\* positives: a group of tied ones adds as many equal terms.
LEMMA AuprcSumsGroups ==
    ASSUME NEW scores, NEW labels, IsStream(scores, labels), IsDefined(labels), NEW scale \in Nat
    PROVE  Auprc(scores, labels, scale) = MeanPrecision(scores, labels, scale)
<1> DEFINE D == DOMAIN scores
           P == Positives(labels)
           R == Range(scores)
           Value(v) == AtScore(scores, labels, scale, v)
           Group(v) == (scale \div Cardinality(AtLeast(scores, v)))
                         * Cardinality(AtLeast(scores, v) \cap P)
                         * Cardinality({i \in P : scores[i] = v})
           At(i) == (scale \div Cardinality(AtLeast(scores, scores[i])))
                      * Cardinality(AtLeast(scores, scores[i]) \cap P)
           g == [v \in R |-> Value(v) * Cardinality(Scoring(scores, labels, {v}))]
           h == [i \in P |-> Value(scores[i])]
           IsG(J) == J = [s \in SUBSET R |->
                            IF s = {} THEN 0
                            ELSE Group(CHOOSE x \in s : TRUE) + J[s \ {CHOOSE x \in s : TRUE}]]
           IsH(J) == J = [s \in SUBSET P |->
                            IF s = {} THEN 0
                            ELSE At(CHOOSE x \in s : TRUE) + J[s \ {CHOOSE x \in s : TRUE}]]
           I == CHOOSE J : IsG(J)
           K == CHOOSE J : IsH(J)
<1>1. IsFiniteSet(D) /\ P \in SUBSET D /\ IsFiniteSet(P) /\ IsFiniteSet(R)
  <2>1. IsFiniteSet(D) /\ P \in SUBSET D
    BY DEF IsStream, Positives
  <2>2. IsFiniteSet(R)
    BY <2>1, FiniteImage DEF Range
  <2> QED BY <2>1, <2>2, FS_Subset
<1>2. \A v \in R : \E i \in D : v = scores[i]
  BY DEF Range
<1>3. \A v \in R : Value(v) \in Int
  BY <1>2, AtScoreIsNumber
<1>4. \A V : Scoring(scores, labels, V) \in SUBSET P /\ IsFiniteSet(Scoring(scores, labels, V))
             /\ Cardinality(Scoring(scores, labels, V)) \in Nat
  <2> TAKE V
  <2>1. Scoring(scores, labels, V) \in SUBSET P
    BY DEF Scoring
  <2>2. IsFiniteSet(Scoring(scores, labels, V))
    BY <1>1, <2>1, FS_Subset
  <2> QED BY <2>1, <2>2, FS_CardinalityType
<1>5. /\ \A v \in R : g[v] = Group(v) /\ g[v] \in Int
      /\ \A i \in P : h[i] = At(i) /\ h[i] \in Int
  <2>1. ASSUME NEW v \in R PROVE g[v] = Group(v) /\ g[v] \in Int
    <3>1. Scoring(scores, labels, {v}) = {i \in P : scores[i] = v}
      BY DEF Scoring
    <3> DEFINE a == Value(v) b == Cardinality(Scoring(scores, labels, {v}))
    <3>2. a \in Int /\ b \in Int /\ g[v] = a * b
      BY <1>3, <1>4
    <3>3. Group(v) = a * b
      BY <3>1 DEF AtScore
    <3> HIDE DEF a, b, g, Group
    <3> QED BY <3>2, <3>3
  <2>2. ASSUME NEW i \in P PROVE h[i] = At(i) /\ h[i] \in Int
    <3>1. scores[i] \in R
      BY <1>1 DEF Range
    <3>2. h[i] = Value(scores[i]) /\ At(i) = Value(scores[i])
      BY DEF AtScore
    <3> HIDE DEF h, At, Value
    <3> QED BY <1>3, <3>1, <3>2
  <2> QED BY <2>1, <2>2
<1>6. Auprc(scores, labels, scale) = I[R] /\ MeanPrecision(scores, labels, scale) = K[P]
  <2>1. Auprc(scores, labels, scale) = FoldSet(LAMBDA x, y : Group(x) + y, 0, R)
    BY DEF Auprc, Total
  <2>2. MeanPrecision(scores, labels, scale) = FoldSet(LAMBDA x, y : At(x) + y, 0, P)
    BY DEF MeanPrecision, Total
  <2>3. FoldSet(LAMBDA x, y : Group(x) + y, 0, R) = I[R]
    BY DEF FoldSet, MapThenFoldSet
  <2>4. FoldSet(LAMBDA x, y : At(x) + y, 0, P) = K[P]
    BY DEF FoldSet, MapThenFoldSet
  <2> QED BY <2>1, <2>2, <2>3, <2>4
<1>7. Adds(I, R, g)
  <2> HIDE DEF g, Group
  <2>1. \A s \in SUBSET R : s # {} => Group(CHOOSE x \in s : TRUE) = g[CHOOSE x \in s : TRUE]
    BY <1>5
  <2>2. \A J : IsG(J) <=> IsSum(J, R, g)
    BY <2>1 DEF IsSum
  <2> HIDE DEF IsG
  <2>3. IsG(I)
    BY <1>1, <2>2, SumsExist
  <2> HIDE DEF I
  <2> QED BY <1>1, <1>5, <2>2, <2>3, SumsAdd
<1>8. Adds(K, P, h)
  <2> HIDE DEF h, At
  <2>1. \A s \in SUBSET P : s # {} => At(CHOOSE x \in s : TRUE) = h[CHOOSE x \in s : TRUE]
    BY <1>5
  <2>2. \A J : IsH(J) <=> IsSum(J, P, h)
    BY <2>1 DEF IsSum
  <2> HIDE DEF IsH
  <2>3. IsH(K)
    BY <1>1, <2>2, SumsExist
  <2> HIDE DEF K
  <2> QED BY <1>1, <1>5, <2>2, <2>3, SumsAdd
<1> HIDE DEF I, K, IsG, IsH
<1> HIDE DEF g, h, P, R, D, Value, Group, At
<1>9. ASSUME NEW b \in SUBSET P, NEW a \in SUBSET (P \ b), NEW x \in Int, \A i \in a : h[i] = x
       PROVE  K[b \cup a] = K[b] + Cardinality(a) * x
  <2>1. IsFiniteSet(P) /\ Adds(K, P, h)
    BY <1>1, <1>8
  <2>2. b \in SUBSET P /\ a \in SUBSET (P \ b) /\ x \in Int
    OBVIOUS
  <2> QED BY <1>9, <2>1, <2>2, EqualTermsAdd
<1> USE DEF g, h, P, R, D, Value, Group, At
<1> DEFINE X == {V \in SUBSET R : I[V] = K[Scoring(scores, labels, V)]}
<1>10. {} \in X
  <2>1. Scoring(scores, labels, {}) = {} /\ {} \in SUBSET R /\ {} \in SUBSET P
    BY DEF Scoring
  <2>2. I[{}] = 0 /\ K[{}] = 0
    BY <1>7, <1>8, <2>1 DEF Adds
  <2> QED BY <2>1, <2>2
<1>11. ASSUME NEW V \in SUBSET R, NEW v \in V, V \ {v} \in X PROVE V \in X
  <2> DEFINE B == Scoring(scores, labels, V \ {v})
             A == Scoring(scores, labels, {v})
             c == Value(v)
             k == Cardinality(A)
  <2>1. I[V] = g[v] + I[V \ {v}]
    BY <1>7 DEF Adds
  <2>2. I[V \ {v}] = K[B]
    BY <1>11
  <2>3. B \cup A = Scoring(scores, labels, V) /\ B \in SUBSET P /\ A \in SUBSET (P \ B)
    BY DEF Scoring
  <2>4. \A i \in A : h[i] = c
    BY <2>3 DEF Scoring
  <2>5. c \in Int /\ k \in Nat /\ g[v] = c * k
    BY <1>3, <1>4
  <2> HIDE DEF A, B, c, k, g, h
  <2>6. K[B \cup A] = K[B] + k * c
    <3> HIDE DEF P, R, X, Group, At, Value, D
    <3>1. IsFiniteSet(P) /\ Adds(K, P, h) /\ B \in SUBSET P /\ A \in SUBSET (P \ B) /\ c \in Int
      BY <1>1, <1>8, <2>3, <2>5
    <3>2. K[B \cup A] = K[B] + Cardinality(A) * c
      BY <1>9, <2>4, <3>1
    <3> QED BY <3>2 DEF k
  <2>7. K[B] \in Int
    BY <1>8, <2>3 DEF Adds
  <2> DEFINE d == K[B]
  <2>8. d + k * c = c * k + d
    <3> HIDE DEF d
    <3>1. d \in Int => d + k * c = c * k + d
      BY <2>5
    <3> QED BY <2>7, <3>1 DEF d
  <2>9. I[V] = K[Scoring(scores, labels, V)]
    BY <2>1, <2>2, <2>3, <2>5, <2>6, <2>8
  <2> QED BY <2>9
<1> HIDE DEF X
<1>12. R \in X
  BY <1>1, <1>10, <1>11, AllParts
<1>13. Scoring(scores, labels, R) = P
  BY <1>1 DEF Scoring, Range
<1> QED BY <1>6, <1>12, <1>13 DEF X

-----------------------------------------------------------------------------
(***************************************************************************)
(* The windows with the most events.                                       *)
(***************************************************************************)
\* A sum of finitely many numbers is a number.
LEMMA SumsAreNumbers ==
    ASSUME NEW f, IsFiniteSet(DOMAIN f), \A x \in DOMAIN f : f[x] \in Int
    PROVE  SumOf(f) \in Int
<1> DEFINE S == DOMAIN f
           I == CHOOSE J : IsSum(J, S, f)
<1>1. SumOf(f) = I[S]
  BY DEF SumOf, FoldFunction, FoldFunctionOnSet, MapThenFoldSet, IsSum
<1>2. IsSum(I, S, f)
  BY SumsExist
<1> HIDE DEF I
<1>3. Adds(I, S, f)
  BY <1>2, SumsAdd
<1>4. I[S] \in Int
  BY <1>3 DEF Adds
<1> QED BY <1>1, <1>4

\* A share of at most one of a number is at most that number.
LEMMA ShareIsAtMost ==
    ASSUME NEW a \in Nat, NEW b \in Nat \ {0}, a <= b, NEW m \in Nat
    PROVE  (a * m) \div b \in Nat /\ (a * m) \div b <= m
<1>1. a * m \in Nat /\ b * m \in Nat /\ a * m <= b * m
  BY Z3
<1> DEFINE p == a * m q == p \div b
<1>2. p \in Nat /\ p <= b * m
  BY <1>1
<1> HIDE DEF p
<1>3. q \in Nat /\ b * q <= p
  BY <1>2, Z3
<1>4. b * q <= b * m
  BY <1>1, <1>2, <1>3
<1>5. q <= m
  <2> HIDE DEF q
  <2> QED BY <1>3, <1>4, Z3
<1> QED BY <1>3, <1>5 DEF p

\* The threshold is the largest count that enough windows reach.
LEMMA ThresholdIsLargest ==
    ASSUME NEW counts, IsFiniteSet(DOMAIN counts), counts \in [DOMAIN counts -> Int],
           NEW fraction \in Nat \X (Nat \ {0}), fraction[1] <= fraction[2],
           (fraction[1] * Cardinality(DOMAIN counts)) \div fraction[2] > 0
    PROVE  LET selected == (fraction[1] * Cardinality(DOMAIN counts)) \div fraction[2]
               Reaching(v) == {w \in DOMAIN counts : counts[w] >= v}
               t == VolumeThreshold(counts, fraction)
           IN  /\ selected \in Nat
               /\ t \in Range(counts) /\ t \in Int
               /\ Cardinality(Reaching(t)) >= selected
               /\ \A v \in Range(counts) : Cardinality(Reaching(v)) >= selected => v <= t
<1> DEFINE D == DOMAIN counts
           selected == (fraction[1] * Cardinality(D)) \div fraction[2]
           Reaching(v) == {w \in D : counts[w] >= v}
           R == Range(counts)
           V == {v \in R : Cardinality(Reaching(v)) >= selected}
           t == VolumeThreshold(counts, fraction)
<1>1. Cardinality(D) \in Nat
  BY FS_CardinalityType
<1>2. selected \in Nat /\ selected <= Cardinality(D)
  <2>1. fraction[1] \in Nat /\ fraction[2] \in Nat \ {0}
    OBVIOUS
  <2> QED BY <1>1, <2>1, ShareIsAtMost
<1>3. R \subseteq Int /\ IsFiniteSet(R) /\ \A w \in D : counts[w] \in R
  <2>1. R = {counts[w] : w \in D}
    BY DEF Range
  <2>2. IsFiniteSet({counts[w] : w \in D})
    BY FiniteImage
  <2> QED BY <2>1, <2>2
<1>4. V # {}
  <2>1. D # {}
    BY <1>1, <1>2, FS_EmptySet
  <2>2. R # {}
    BY <1>3, <2>1
  <2>3. Min(R) \in R /\ \A x \in R : Min(R) <= x
    <3> HIDE DEF R
    <3> QED BY <1>3, <2>2, FirstAndLast
  <2>4. Reaching(Min(R)) = D
    <3>1. \A w \in D : counts[w] \in Int /\ Min(R) \in Int /\ Min(R) <= counts[w]
      BY <1>3, <2>3
    <3>2. \A w \in D : counts[w] >= Min(R)
      BY <3>1
    <3> HIDE DEF R
    <3> QED BY <3>2
  <2>5. Cardinality(Reaching(Min(R))) >= selected
    BY <1>1, <1>2, <2>4
  <2> HIDE DEF R, Reaching, selected
  <2> QED BY <2>3, <2>5
<1>5. t = Max(V)
  BY <1>2 DEF VolumeThreshold
<1>6. V \subseteq Int /\ IsFiniteSet(V)
  <2> HIDE DEF R
  <2> QED BY <1>3, FS_Subset
<1>7. Max(V) \in V /\ \A v \in V : v <= Max(V)
  <2> HIDE DEF V
  <2> QED BY <1>4, <1>6, FirstAndLast
<1>8. t \in V /\ \A v \in V : v <= t
  BY <1>5, <1>7
<1> HIDE DEF t, selected, R
<1> QED BY <1>2, <1>3, <1>8 DEF t, selected, R

\* So the windows that reach it are the top fraction.
LEMMA TopFraction ==
    ASSUME NEW counts, IsFiniteSet(DOMAIN counts), counts \in [DOMAIN counts -> Int],
           NEW fraction \in Nat \X (Nat \ {0}), fraction[1] <= fraction[2],
           (fraction[1] * Cardinality(DOMAIN counts)) \div fraction[2] > 0
    PROVE  LET high == HighVolume(counts, fraction)
               selected == (fraction[1] * Cardinality(DOMAIN counts)) \div fraction[2]
               lowest == Min({counts[s] : s \in high})
           IN  /\ \A s \in high, t \in DOMAIN counts \ high : counts[s] > counts[t]
               /\ Cardinality(high) >= selected
               /\ Cardinality({s \in high : counts[s] > lowest}) < selected
<1> DEFINE D == DOMAIN counts
           selected == (fraction[1] * Cardinality(D)) \div fraction[2]
           Reaching(v) == {w \in D : counts[w] >= v}
           R == Range(counts)
           v == VolumeThreshold(counts, fraction)
           high == HighVolume(counts, fraction)
           values == {counts[s] : s \in high}
           above == {s \in high : counts[s] > v}
<1>1. /\ selected \in Nat /\ v \in R /\ v \in Int
      /\ Cardinality(Reaching(v)) >= selected
      /\ \A x \in R : Cardinality(Reaching(x)) >= selected => x <= v
  BY ThresholdIsLargest
<1>2. high = Reaching(v)
  BY DEF HighVolume
<1>3. \A w \in D : counts[w] \in Int
  OBVIOUS
<1>4. \A x \in R : \E w \in D : x = counts[w]
  BY DEF Range
<1>5. \A w \in D : counts[w] \in R
  BY DEF Range
<1>6. selected > 0
  OBVIOUS
<1> HIDE DEF v, selected, high, R
<1>7. \A s \in high, t \in D \ high : counts[s] > counts[t]
  BY <1>1, <1>2, <1>3
<1>8. Min(values) = v
  <2>1. v \in values
    <3>1. PICK w \in D : v = counts[w]
      BY <1>1, <1>4
    <3>2. counts[w] >= v
      BY <1>1, <3>1
    <3> QED BY <1>2, <3>1, <3>2
  <2>2. \A x \in values : x \in Int /\ v <= x
    BY <1>1, <1>2, <1>3
  <2>3. IsFiniteSet(values)
    <3>1. values \subseteq {counts[w] : w \in D}
      BY <1>2
    <3>2. IsFiniteSet({counts[w] : w \in D})
      BY FiniteImage
    <3> QED BY <3>1, <3>2, FS_Subset
  <2> HIDE DEF values
  <2>4. Min(values) \in values /\ \A x \in values : Min(values) <= x
    BY <2>1, <2>2, <2>3, FirstAndLast
  <2> QED BY <1>1, <2>1, <2>2, <2>4
<1>9. Cardinality(above) < selected
  <2>1. CASE above = {}
    <3>1. Cardinality(above) = 0
      BY <2>1, FS_EmptySet
    <3> HIDE DEF above
    <3> QED BY <1>1, <1>6, <3>1
  <2>2. CASE above # {}
    <3> DEFINE higher == {counts[s] : s \in above}
               u == Min(higher)
    <3>1. above \subseteq D /\ \A s \in above : counts[s] \in Int /\ counts[s] > v
      BY <1>2, <1>3
    <3>2. IsFiniteSet(above) /\ Cardinality(above) \in Nat
      <4> HIDE DEF above
      <4> QED BY <3>1, FS_Subset, FS_CardinalityType
    <3>3. IsFiniteSet(higher) /\ higher # {} /\ higher \subseteq Int
      <4>1. higher \subseteq {counts[w] : w \in D}
        BY <3>1
      <4>2. IsFiniteSet({counts[w] : w \in D})
        BY FiniteImage
      <4>3. IsFiniteSet(higher)
        <5> HIDE DEF higher
        <5> QED BY <4>1, <4>2, FS_Subset
      <4> HIDE DEF above
      <4> QED BY <2>2, <3>1, <4>3
    <3>4. u \in higher /\ \A x \in higher : u <= x
      <4> HIDE DEF higher
      <4> QED BY <3>3, FirstAndLast
    <3> HIDE DEF u
    <3>5. u \in R /\ u \in Int /\ u > v
      <4> HIDE DEF above
      <4> QED BY <1>5, <3>1, <3>4
    <3>6. Reaching(u) = above
      <4>1. \A s \in above : counts[s] >= u
        <5> HIDE DEF above
        <5> QED BY <3>1, <3>4, <3>5
      <4>2. \A w \in D : counts[w] >= u => w \in above
        <5>1. \A w \in D : counts[w] >= u => counts[w] > v /\ counts[w] >= v
          BY <1>1, <1>3, <3>5
        <5> QED BY <1>2, <5>1
      <4> HIDE DEF above
      <4> QED BY <3>1, <4>1, <4>2
    <3>7. ~(Cardinality(above) >= selected)
      <4>1. ~(u <= v)
        BY <1>1, <3>5
      <4> HIDE DEF above, Reaching
      <4> QED BY <1>1, <3>5, <3>6, <4>1
    <3> HIDE DEF above
    <3> QED BY <1>1, <3>2, <3>7
  <2> QED BY <2>1, <2>2
<1>10. Cardinality(high) >= selected
  BY <1>1, <1>2
<1> QED BY <1>7, <1>8, <1>9, <1>10 DEF high, selected, v

\* The events of a window are counted.
LEMMA CountsAreNumbers ==
    ASSUME NEW w \in Windows, NEW events \in [Clients -> [1 .. w.epochs -> EventCounts]]
    PROVE  /\ IsFiniteSet(DOMAIN Counts(w, events))
           /\ Counts(w, events) \in [DOMAIN Counts(w, events) -> Int]
<1> DEFINE n == w.epochs
           starts == WindowStarts(n, w.length, w.stride)
<1>1. n \in Nat /\ w.length \in Nat /\ w.stride \in Nat
  BY RankingsAssumption
<1>2. DOMAIN Counts(w, events) = starts /\ \A s \in starts : Counts(w, events)[s] = WindowCount(events, s, w.length)
  BY DEF Counts
<1>3. IsFiniteSet(starts)
  <2> DEFINE K == {h \in 0 .. n : w.stride * h + w.length <= n}
             f == [k \in K |-> 1 + w.stride * k]
  <2>1. IsFiniteSet(0 .. n)
    <3>1. 0 \in Int /\ n \in Int
      BY <1>1
    <3> HIDE DEF n
    <3> QED BY <3>1, FS_Interval
  <2>2. IsFiniteSet(K)
    BY <2>1, FS_Subset
  <2>3. DOMAIN f = K /\ {f[k] : k \in DOMAIN f} = starts
    BY DEF WindowStarts
  <2> HIDE DEF f, K, starts
  <2> QED BY <2>2, <2>3, FiniteImage
<1>4. ASSUME NEW s \in starts PROVE WindowCount(events, s, w.length) \in Int
  <2> DEFINE range == s .. s + w.length - 1
             At(e) == [c \in DOMAIN events |-> events[c][e]]
             totals == [e \in range |-> SumOf(At(e))]
  <2>1. PICK k \in 0 .. n : s = 1 + w.stride * k /\ w.stride * k + w.length <= n
    BY DEF WindowStarts
  <2>2. range \subseteq 1 .. n /\ IsFiniteSet(range)
    <3> DEFINE d == w.stride * k
    <3>1. d \in Nat
      BY <1>1
    <3>2. s = 1 + d /\ d + w.length <= n
      BY <2>1
    <3> HIDE DEF d
    <3>3. range \subseteq 1 .. n
      BY <1>1, <3>1, <3>2
    <3>4. IsFiniteSet(1 .. n)
      <4>1. 1 \in Int /\ n \in Int
        BY <1>1
      <4> HIDE DEF n
      <4> QED BY <4>1, FS_Interval
    <3> QED BY <3>3, <3>4, FS_Subset
  <2>3. ASSUME NEW e \in range PROVE SumOf(At(e)) \in Int
    <3>1. DOMAIN At(e) = Clients /\ \A c \in Clients : At(e)[c] \in Int
      <4>1. e \in 1 .. w.epochs /\ EventCounts \subseteq Nat
        BY <2>2, RankingsAssumption
      <4>2. DOMAIN events = Clients /\ \A c \in Clients : events[c] \in [1 .. w.epochs -> EventCounts]
        OBVIOUS
      <4>3. \A c \in Clients : events[c][e] \in Nat
        BY <4>1, <4>2
      <4> QED BY <4>2, <4>3
    <3> HIDE DEF At
    <3> QED BY <3>1, FitAssumption, SumsAreNumbers
  <2>4. DOMAIN totals = range /\ \A e \in range : totals[e] \in Int
    <3> HIDE DEF At
    <3> QED BY <2>3
  <2>5. WindowCount(events, s, w.length) = SumOf(totals)
    BY DEF WindowCount
  <2> HIDE DEF totals, range
  <2>6. SumOf(totals) \in Int
    BY <2>2, <2>4, SumsAreNumbers
  <2> QED BY <2>5, <2>6
<1> HIDE DEF starts
<1>5. Counts(w, events) = [s \in starts |-> Counts(w, events)[s]]
  BY DEF Counts, starts
<1> QED BY <1>2, <1>3, <1>4, <1>5

-----------------------------------------------------------------------------
(***************************************************************************)
(* The epochs of the scalability harness.                                  *)
(***************************************************************************)
\* Blocks of one length do not overlap.
LEMMA BlocksAscend ==
    ASSUME NEW i \in Nat, NEW j \in Nat, i < j, NEW l \in Nat
    PROVE  i * l \in Nat /\ j * l \in Nat /\ i * l + l <= j * l
<1> DEFINE k == j - i - 1
<1>1. k \in Nat /\ j = i + 1 + k
  OBVIOUS
<1> HIDE DEF k
<1>2. (i + 1 + k) * l = i * l + l + k * l
  BY <1>1
<1>3. i * l \in Nat /\ k * l \in Nat
  BY <1>1
<1>4. j * l = i * l + l + k * l
  BY <1>1, <1>2
<1> QED BY <1>3, <1>4

\* Each place of some blocks is in one of them.
LEMMA BlockOfPlace ==
    ASSUME NEW l \in Nat \ {0}, NEW n \in Nat, NEW d \in Nat, d < n * l
    PROVE  \E i \in 0 .. n - 1 : i * l <= d /\ d < i * l + l
<1> DEFINE q == d \div l
<1>1. q \in Nat /\ l * q <= d /\ d < l * q + l
  BY Z3
<1> HIDE DEF q
<1>2. q * l = l * q /\ q * l \in Nat /\ n * l \in Nat
  BY <1>1
<1>3. q < n
  <2> SUFFICES ASSUME n <= q PROVE FALSE
    BY <1>1
  <2>1. CASE n = q
    BY <1>1, <1>2, <2>1
  <2>2. CASE n < q
    <3>1. n * l + l <= q * l
      BY <1>1, <2>2, BlocksAscend
    <3> QED BY <1>1, <1>2, <3>1
  <2> QED BY <1>1, <2>1, <2>2
<1>4. q \in 0 .. n - 1 /\ q * l <= d /\ d < q * l + l
  BY <1>1, <1>2, <1>3
<1> QED BY <1>4

\* The warm-up of a calibration horizon.
WarmupOf(t, i) == Min(CalibrationHorizon(t, i)) - t.warmup .. Min(CalibrationHorizon(t, i)) - 1

\* A horizon and its warm-up make up a block.
LEMMA HorizonsFollowWarmups ==
    ASSUME NEW t, IsLayout(t), NEW i \in 0 .. t.horizons - 1
    PROVE  LET first == CalibrationStart(t) + i * CalibrationLength(t)
           IN  /\ first \in Nat
               /\ WarmupOf(t, i) = first .. first + t.warmup - 1
               /\ CalibrationHorizon(t, i) = first + t.warmup .. first + CalibrationLength(t) - 1
<1> DEFINE c == CalibrationStart(t)
           l == CalibrationLength(t)
           m == i * l
           a == c + m + t.warmup
<1>1. c \in Nat /\ l \in Nat /\ l = t.warmup + t.horizon /\ i \in Nat
  BY DEF CalibrationStart, CalibrationLength, IsLayout
<1>2. CalibrationHorizon(t, i) = a .. a + t.horizon - 1
  BY DEF CalibrationHorizon
<1> HIDE DEF c, l
<1>3. m \in Nat
  BY <1>1
<1> HIDE DEF m
<1>4. a \in Nat /\ a + t.horizon - 1 = c + m + l - 1 /\ t.horizon >= 1
  BY <1>1, <1>3 DEF IsLayout
<1>5. Min(a .. a + t.horizon - 1) = a
  <2>1. t.horizon \in Nat /\ a \in Int
    BY <1>4 DEF IsLayout
  <2> HIDE DEF a
  <2>2. a \in a .. a + t.horizon - 1 /\ \A x \in a .. a + t.horizon - 1 : a <= x
    BY <1>4, <2>1
  <2>3. \A m1 \in a .. a + t.horizon - 1 : (\A x \in a .. a + t.horizon - 1 : m1 <= x) => m1 = a
    BY <2>1, <2>2
  <2> HIDE DEF m
  <2> QED BY <2>2, <2>3 DEF Min
<1>6. WarmupOf(t, i) = a - t.warmup .. a - 1
  BY <1>2, <1>5 DEF WarmupOf
<1>7. a - t.warmup = c + m /\ a - 1 = c + m + t.warmup - 1
  BY <1>1, <1>3 DEF IsLayout
<1> QED BY <1>1, <1>2, <1>3, <1>4, <1>6, <1>7 DEF c, l, m

\* The roles of the epochs of a layout.
RolesOf(t) ==
    LET horizons == [i \in 0 .. t.horizons - 1 |-> CalibrationHorizon(t, i)]
        warmups == [i \in 0 .. t.horizons - 1 |->
                        Min(horizons[i]) - t.warmup .. Min(horizons[i]) - 1]
    IN  <<DetectorFitRange(t), NuisanceRange(t), WarmupRange(t), MeasuredRange(t)>>
            \o [i \in 1 .. t.horizons |-> horizons[i - 1]]
            \o [i \in 1 .. t.horizons |-> warmups[i - 1]]

\* They come in this order in the sequence.
LEMMA RolesInOrder ==
    ASSUME NEW t, IsLayout(t)
    PROVE  LET n == t.horizons
           IN  /\ DOMAIN RolesOf(t) = 1 .. 4 + 2 * n
               /\ RolesOf(t)[1] = DetectorFitRange(t) /\ RolesOf(t)[2] = NuisanceRange(t)
               /\ RolesOf(t)[3] = WarmupRange(t) /\ RolesOf(t)[4] = MeasuredRange(t)
               /\ \A i \in 0 .. n - 1 : /\ RolesOf(t)[5 + i] = CalibrationHorizon(t, i)
                                        /\ RolesOf(t)[5 + n + i] = WarmupOf(t, i)
<1> DEFINE n == t.horizons
           a == <<DetectorFitRange(t), NuisanceRange(t), WarmupRange(t), MeasuredRange(t)>>
           b == [i \in 1 .. n |-> CalibrationHorizon(t, i - 1)]
           c == [i \in 1 .. n |-> WarmupOf(t, i - 1)]
<1>1. n \in Nat
  BY DEF IsLayout
<1>2. RolesOf(t) = a \o b \o c
  <2> DEFINE horizons == [i \in 0 .. n - 1 |-> CalibrationHorizon(t, i)]
             warmups == [i \in 0 .. n - 1 |->
                             Min(horizons[i]) - t.warmup .. Min(horizons[i]) - 1]
  <2>1. \A i \in 1 .. n : horizons[i - 1] = CalibrationHorizon(t, i - 1) /\ warmups[i - 1] = WarmupOf(t, i - 1)
    <3> SUFFICES ASSUME NEW i \in 1 .. n
                 PROVE  horizons[i - 1] = CalibrationHorizon(t, i - 1) /\ warmups[i - 1] = WarmupOf(t, i - 1)
      OBVIOUS
    <3>1. i - 1 \in 0 .. n - 1
      BY <1>1
    <3> QED BY <3>1 DEF WarmupOf
  <2>2. RolesOf(t) = a \o [i \in 1 .. n |-> horizons[i - 1]] \o [i \in 1 .. n |-> warmups[i - 1]]
    BY DEF RolesOf
  <2> HIDE DEF horizons, warmups, n, a
  <2>3. [i \in 1 .. n |-> horizons[i - 1]] = b /\ [i \in 1 .. n |-> warmups[i - 1]] = c
    BY <2>1
  <2> QED BY <2>2, <2>3
<1> DEFINE S == {a[1], a[2], a[3], a[4]} \cup {b[i] : i \in 1 .. n} \cup {c[i] : i \in 1 .. n}
<1>3. a \in Seq(S) /\ Len(a) = 4
  OBVIOUS
<1>4. b \in [1 .. n -> S] /\ c \in [1 .. n -> S]
  <2>1. b = [i \in 1 .. n |-> b[i]] /\ c = [i \in 1 .. n |-> c[i]]
    OBVIOUS
  <2> HIDE DEF a, b, c, n
  <2>2. \A i \in 1 .. n : b[i] \in S /\ c[i] \in S
    OBVIOUS
  <2> HIDE DEF S
  <2> QED BY <2>1, <2>2
<1>5. b \in Seq(S) /\ Len(b) = n
  <2> HIDE DEF a, b, c, n, S
  <2> QED BY <1>1, <1>4
<1>6. c \in Seq(S) /\ Len(c) = n
  <2> HIDE DEF a, b, c, n, S
  <2> QED BY <1>1, <1>4
<1>7. /\ a[1] = DetectorFitRange(t) /\ a[2] = NuisanceRange(t)
      /\ a[3] = WarmupRange(t) /\ a[4] = MeasuredRange(t)
  OBVIOUS
<1>8. \A i \in 0 .. n - 1 : b[i + 1] = CalibrationHorizon(t, i) /\ c[i + 1] = WarmupOf(t, i)
  <2> SUFFICES ASSUME NEW i \in 0 .. n - 1 PROVE b[i + 1] = CalibrationHorizon(t, i) /\ c[i + 1] = WarmupOf(t, i)
    OBVIOUS
  <2>1. i + 1 \in 1 .. n /\ (i + 1) - 1 = i
    BY <1>1
  <2> HIDE DEF n
  <2> QED BY <2>1
<1> HIDE DEF a, b, c, S, n
<1> DEFINE d == a \o b
<1>9. /\ d \in Seq(S) /\ Len(d) = 4 + n
      /\ \A i \in 1 .. 4 + n : d[i] = IF i <= 4 THEN a[i] ELSE b[i - 4]
  <2>1. /\ d \in Seq(S) /\ Len(d) = Len(a) + Len(b)
        /\ \A i \in 1 .. Len(a) + Len(b) : d[i] = IF i <= Len(a) THEN a[i] ELSE b[i - Len(a)]
    BY <1>3, <1>5, ConcatProperties
  <2> HIDE DEF d
  <2> QED BY <1>3, <1>5, <2>1
<1> HIDE DEF d
<1>10. /\ DOMAIN (d \o c) = 1 .. 4 + 2 * n
       /\ \A i \in 1 .. 4 + 2 * n : (d \o c)[i] = IF i <= 4 + n THEN d[i] ELSE c[i - (4 + n)]
  <2> DEFINE u == d \o c
  <2>1. /\ u \in Seq(S) /\ Len(u) = Len(d) + Len(c)
        /\ \A i \in 1 .. Len(d) + Len(c) : u[i] = IF i <= Len(d) THEN d[i] ELSE c[i - Len(d)]
    BY <1>6, <1>9, ConcatProperties
  <2>2. DOMAIN u = 1 .. Len(u)
    BY <2>1, LenProperties
  <2> HIDE DEF u
  <2>3. Len(d) + Len(c) = 4 + 2 * n /\ Len(d) = 4 + n
    BY <1>1, <1>6, <1>9
  <2>4. DOMAIN u = 1 .. 4 + 2 * n
    BY <2>1, <2>2, <2>3
  <2>5. \A i \in 1 .. 4 + 2 * n : u[i] = IF i <= 4 + n THEN d[i] ELSE c[i - (4 + n)]
    BY <2>1, <2>3
  <2> QED BY <2>4, <2>5 DEF u
<1>11. \A i \in 1 .. 4 : (d \o c)[i] = a[i]
  <2>1. \A i \in 1 .. 4 : i \in 1 .. 4 + 2 * n /\ i <= 4 + n /\ i \in 1 .. 4 + n /\ i <= 4
    BY <1>1
  <2> QED BY <1>9, <1>10, <2>1
<1>12. \A i \in 0 .. n - 1 : (d \o c)[5 + i] = b[i + 1] /\ (d \o c)[5 + n + i] = c[i + 1]
  <2> TAKE i \in 0 .. n - 1
  <2>1. /\ 5 + i \in 1 .. 4 + 2 * n /\ 5 + i <= 4 + n /\ 5 + i \in 1 .. 4 + n /\ ~(5 + i <= 4)
        /\ (5 + i) - 4 = i + 1
    BY <1>1
  <2>2. 5 + n + i \in 1 .. 4 + 2 * n /\ ~(5 + n + i <= 4 + n) /\ (5 + n + i) - (4 + n) = i + 1
    BY <1>1
  <2>3. (d \o c)[5 + i] = b[i + 1]
    BY <1>9, <1>10, <2>1
  <2>4. (d \o c)[5 + n + i] = c[i + 1]
    BY <1>10, <2>2
  <2> QED BY <2>3, <2>4
<1>13. RolesOf(t) = d \o c
  BY <1>2 DEF d
<1>14. /\ DOMAIN RolesOf(t) = 1 .. 4 + 2 * n
       /\ \A i \in 1 .. 4 : RolesOf(t)[i] = a[i]
       /\ \A i \in 0 .. n - 1 : RolesOf(t)[5 + i] = b[i + 1] /\ RolesOf(t)[5 + n + i] = c[i + 1]
  BY <1>10, <1>11, <1>12, <1>13
<1> QED BY <1>7, <1>8, <1>14 DEF n

\* The stretch of the stream that a role lies in: before the horizons (-1), the block of a
\* horizon, or after the horizons.
StretchOf(t, j) ==
    IF j <= 2 THEN -1 ELSE IF j <= 4 THEN t.horizons
    ELSE IF j <= 4 + t.horizons THEN j - 5 ELSE j - 5 - t.horizons

\* Where a stretch begins.
BeginOf(t, s) ==
    IF s = -1 THEN 0 ELSE IF s = t.horizons + 1 THEN TotalEpochs(t)
    ELSE CalibrationStart(t) + s * CalibrationLength(t)

\* The stretches follow one another.
LEMMA StretchesFollow ==
    ASSUME NEW t, IsLayout(t)
    PROVE  /\ \A s \in -1 .. t.horizons + 1 : BeginOf(t, s) \in Nat
           /\ \A s, u \in -1 .. t.horizons : s < u => BeginOf(t, s + 1) <= BeginOf(t, u)
           /\ BeginOf(t, -1) = 0 /\ BeginOf(t, 0) = CalibrationStart(t)
           /\ BeginOf(t, t.horizons) = WarmupStart(t)
           /\ BeginOf(t, t.horizons + 1) = WarmupStart(t) + t.harness + t.measured
           /\ BeginOf(t, t.horizons + 1) = TotalEpochs(t)
<1> DEFINE n == t.horizons
           c == CalibrationStart(t)
           l == CalibrationLength(t)
           B(s) == BeginOf(t, s)
<1>1. n \in Nat /\ c \in Nat /\ l \in Nat
  BY DEF IsLayout, CalibrationStart, CalibrationLength
<1>2. B(-1) = 0 /\ \A s \in 0 .. n : B(s) = c + s * l
  BY <1>1 DEF BeginOf
<1>3. B(n + 1) = TotalEpochs(t)
  BY <1>1 DEF BeginOf
<1>4. TotalEpochs(t) = c + n * l + t.harness + t.measured /\ WarmupStart(t) = c + n * l
  <2>1. TotalEpochs(t) = t.nuisance + t.nuisance + n * l + t.harness + t.measured
    BY DEF TotalEpochs
  <2>2. c = 2 * t.nuisance /\ t.nuisance \in Nat /\ WarmupStart(t) = c + n * l
    BY DEF CalibrationStart, IsLayout, WarmupStart
  <2> HIDE DEF n, c, l
  <2> QED BY <2>1, <2>2
<1> HIDE DEF n, c, l, B
<1>5. \A s \in 0 .. n : s * l \in Nat
  BY <1>1
<1>6. n * l \in Nat /\ t.harness \in Nat /\ t.measured \in Nat
  BY <1>1, <1>5 DEF IsLayout
<1>7. \A s \in 0 .. n : B(s) \in Nat
  BY <1>1, <1>2, <1>5
<1>8. B(n + 1) \in Nat
  BY <1>1, <1>3, <1>4, <1>6
<1>9. \A s \in -1 .. n + 1 : B(s) \in Nat
  <2> TAKE s \in -1 .. n + 1
  <2>1. s = -1 \/ s \in 0 .. n \/ s = n + 1
    BY <1>1
  <2> QED BY <1>2, <1>7, <1>8, <2>1
<1>10. B(0) = c /\ B(n) = c + n * l
  <2>1. 0 \in 0 .. n /\ n \in 0 .. n /\ 0 * l = 0 /\ c + 0 = c
    BY <1>1
  <2> QED BY <1>2, <2>1
<1>11. ASSUME NEW s \in -1 .. n, NEW u \in -1 .. n, s < u PROVE B(s + 1) <= B(u)
  <2>1. s + 1 \in 0 .. n /\ u \in 0 .. n /\ s + 1 <= u
    BY <1>1, <1>11
  <2>2. (s + 1) * l <= u * l
    <3>1. CASE s + 1 = u
      BY <1>5, <2>1, <3>1
    <3>2. CASE s + 1 < u
      <4>1. (s + 1) * l \in Nat /\ u * l \in Nat /\ (s + 1) * l + l <= u * l
        BY <1>1, <2>1, <3>2, BlocksAscend
      <4> QED BY <1>1, <4>1
    <3> QED BY <1>1, <2>1, <3>1, <3>2
  <2> DEFINE a == (s + 1) * l b == u * l
  <2>3. a \in Nat /\ b \in Nat /\ a <= b /\ B(s + 1) = c + a /\ B(u) = c + b
    BY <1>2, <1>5, <2>1, <2>2
  <2> HIDE DEF a, b
  <2> QED BY <1>1, <2>3
<1> QED BY <1>2, <1>3, <1>4, <1>9, <1>10, <1>11 DEF n, c, l, B

\* Each role lies in its stretch.
LEMMA RolesLieInStretches ==
    ASSUME NEW t, IsLayout(t), NEW j \in DOMAIN RolesOf(t)
    PROVE  /\ StretchOf(t, j) \in -1 .. t.horizons
           /\ \A e \in RolesOf(t)[j] : e \in Nat /\ BeginOf(t, StretchOf(t, j)) <= e /\ e < BeginOf(t, StretchOf(t, j) + 1)
<1> DEFINE n == t.horizons
           R == RolesOf(t)
           B(s) == BeginOf(t, s)
           In(e, s) == e \in Nat /\ B(s) <= e /\ e < B(s + 1)
<1>1. n \in Nat /\ t.nuisance \in Nat /\ t.harness \in Nat /\ t.measured \in Nat
      /\ t.warmup \in Nat /\ t.horizon \in Nat
  BY DEF IsLayout
<1>2. /\ DOMAIN R = 1 .. 4 + 2 * n
      /\ R[1] = DetectorFitRange(t) /\ R[2] = NuisanceRange(t)
      /\ R[3] = WarmupRange(t) /\ R[4] = MeasuredRange(t)
      /\ \A i \in 0 .. n - 1 : R[5 + i] = CalibrationHorizon(t, i) /\ R[5 + n + i] = WarmupOf(t, i)
  BY RolesInOrder
<1>3. /\ \A s \in -1 .. n + 1 : B(s) \in Nat
      /\ B(-1) = 0 /\ B(0) = 2 * t.nuisance
      /\ B(n + 1) = B(n) + t.harness + t.measured /\ B(n) = WarmupStart(t)
  BY StretchesFollow DEF CalibrationStart
<1>4. \A i \in 0 .. n - 1 : B(i) = CalibrationStart(t) + i * CalibrationLength(t)
                            /\ B(i + 1) = CalibrationStart(t) + (i + 1) * CalibrationLength(t)
  BY <1>1 DEF BeginOf
<1>5. \A i \in 0 .. n - 1 : B(i + 1) = B(i) + CalibrationLength(t) /\ B(i) \in Nat
  <2> TAKE i \in 0 .. n - 1
  <2> DEFINE l == CalibrationLength(t) c == CalibrationStart(t)
  <2>1. i \in Nat /\ l \in Nat /\ c \in Nat
    BY <1>1 DEF CalibrationLength, CalibrationStart
  <2>2. i \in -1 .. n + 1
    BY <1>1
  <2>3. B(i) = c + i * l /\ B(i + 1) = c + (i + 1) * l
    BY <1>4
  <2> HIDE DEF l, c
  <2>4. (i + 1) * l = i * l + l /\ i * l \in Nat
    BY <2>1
  <2> HIDE DEF B
  <2> QED BY <1>3, <2>1, <2>2, <2>3, <2>4 DEF l
<1>6. \A i \in 0 .. n - 1 : /\ CalibrationHorizon(t, i) = B(i) + t.warmup .. B(i + 1) - 1
                            /\ WarmupOf(t, i) = B(i) .. B(i) + t.warmup - 1
                            /\ B(i) + t.warmup <= B(i + 1)
  <2> TAKE i \in 0 .. n - 1
  <2>1. /\ WarmupOf(t, i) = B(i) .. B(i) + t.warmup - 1
        /\ CalibrationHorizon(t, i) = B(i) + t.warmup .. B(i) + CalibrationLength(t) - 1
    BY <1>4, HorizonsFollowWarmups
  <2>2. CalibrationLength(t) = t.warmup + t.horizon
    BY DEF CalibrationLength
  <2> HIDE DEF B
  <2> QED BY <1>1, <1>5, <2>1, <2>2
<1> HIDE DEF R, B, n
<1>7. CASE j \in 1 .. 2
  <2>1. StretchOf(t, j) = -1
    BY <1>7 DEF StretchOf
  <2>2. \A e \in R[j] : In(e, -1)
    <3>1. \A e \in R[j] : e \in 0 .. 2 * t.nuisance - 1
      BY <1>1, <1>2, <1>7 DEF DetectorFitRange, NuisanceRange
    <3>2. B(-1) = 0 /\ B(-1 + 1) = 2 * t.nuisance
      BY <1>3
    <3> QED BY <1>1, <3>1, <3>2
  <2> QED BY <1>1, <2>1, <2>2 DEF R, B, n
<1>8. CASE j \in 3 .. 4
  <2>1. StretchOf(t, j) = n
    BY <1>8 DEF StretchOf, n
  <2>2. \A e \in R[j] : In(e, n)
    <3> DEFINE w == WarmupStart(t)
    <3>1. w = B(n) /\ w \in Nat /\ B(n + 1) = w + t.harness + t.measured
      BY <1>1, <1>3
    <3>2. R[j] = w .. w + t.harness - 1 \/ R[j] = w + t.harness .. w + t.harness + t.measured - 1
      BY <1>2, <1>8 DEF WarmupRange, MeasuredRange
    <3> HIDE DEF w
    <3>3. ASSUME NEW e \in R[j] PROVE e \in Nat /\ w <= e /\ e < w + t.harness + t.measured
      <4> DEFINE h == t.harness m == t.measured
      <4>1. e \in w .. w + h - 1 \/ e \in w + h .. w + h + m - 1
        BY <3>2, <3>3
      <4>2. h \in Nat /\ m \in Nat /\ w \in Nat
        BY <1>1, <3>1
      <4> HIDE DEF h, m
      <4>3. e \in Nat /\ w <= e /\ e < w + h + m
        BY <4>1, <4>2
      <4> QED BY <4>3 DEF h, m
    <3> QED BY <3>1, <3>3
  <2> QED BY <1>1, <2>1, <2>2 DEF R, B, n
<1>9. CASE j \in 5 .. 4 + n
  <2> DEFINE i == j - 5
  <2>1. i \in 0 .. n - 1 /\ j = 5 + i /\ StretchOf(t, j) = i
    BY <1>1, <1>9 DEF StretchOf, n
  <2> HIDE DEF i
  <2>2. R[j] = B(i) + t.warmup .. B(i + 1) - 1
    BY <1>2, <1>6, <2>1
  <2>3. B(i) \in Nat /\ B(i + 1) \in Nat
    BY <1>1, <1>3, <2>1
  <2>4. \A e \in R[j] : In(e, i)
    BY <1>1, <2>2, <2>3
  <2> QED BY <1>1, <2>1, <2>4 DEF R, B, n
<1>10. CASE j \in 5 + n .. 4 + 2 * n
  <2> DEFINE i == j - 5 - n
  <2>1. i \in 0 .. n - 1 /\ j = 5 + n + i
    BY <1>1, <1>10
  <2>2. StretchOf(t, j) = i
    BY <1>1, <1>10 DEF StretchOf, n
  <2> HIDE DEF i
  <2>3. R[j] = B(i) .. B(i) + t.warmup - 1 /\ B(i) + t.warmup <= B(i + 1)
    BY <1>2, <1>6, <2>1
  <2>4. B(i) \in Nat /\ B(i + 1) \in Nat
    BY <1>1, <1>3, <2>1
  <2>5. \A e \in R[j] : In(e, i)
    BY <1>1, <2>3, <2>4
  <2> QED BY <1>1, <2>1, <2>2, <2>5 DEF R, B, n
<1>11. j \in 1 .. 4 + 2 * n
  BY <1>2 DEF R
<1> QED BY <1>1, <1>7, <1>8, <1>9, <1>10, <1>11

\* Two roles of one stretch have no epoch in common.
LEMMA RolesOfAStretch ==
    ASSUME NEW t, IsLayout(t), NEW i \in DOMAIN RolesOf(t), NEW j \in DOMAIN RolesOf(t), i < j,
           StretchOf(t, i) = StretchOf(t, j)
    PROVE  RolesOf(t)[i] \cap RolesOf(t)[j] = {}
<1> DEFINE n == t.horizons
           R == RolesOf(t)
<1>1. n \in Nat /\ t.nuisance \in Nat /\ t.harness \in Nat /\ t.measured \in Nat
      /\ t.warmup \in Nat /\ t.horizon \in Nat
  BY DEF IsLayout
<1>2. /\ DOMAIN R = 1 .. 4 + 2 * n
      /\ R[1] = DetectorFitRange(t) /\ R[2] = NuisanceRange(t)
      /\ R[3] = WarmupRange(t) /\ R[4] = MeasuredRange(t)
      /\ \A k \in 0 .. n - 1 : R[5 + k] = CalibrationHorizon(t, k) /\ R[5 + n + k] = WarmupOf(t, k)
  BY RolesInOrder
<1>3. i \in 1 .. 4 + 2 * n /\ j \in 1 .. 4 + 2 * n
  BY <1>2
<1>4. \/ i = 1 /\ j = 2
      \/ i = 3 /\ j = 4
      \/ \E k \in 0 .. n - 1 : i = 5 + k /\ j = 5 + n + k
  <2> DEFINE s(x) == IF x <= 2 THEN -1 ELSE IF x <= 4 THEN n ELSE IF x <= 4 + n THEN x - 5 ELSE x - 5 - n
  <2>1. s(i) = s(j)
    BY DEF StretchOf
  <2> HIDE DEF n
  <2>2. i <= 2 => j <= 2
    BY <1>1, <1>3, <2>1
  <2>3. i > 2 /\ i <= 4 => j <= 4
    BY <1>1, <1>3, <2>1
  <2>4. i > 4 => i <= 4 + n /\ j > 4 + n /\ j = n + i
    BY <1>1, <1>3, <2>1
  <2>5. i > 4 => i - 5 \in 0 .. n - 1 /\ i = 5 + (i - 5) /\ j = 5 + n + (i - 5)
    BY <1>1, <1>3, <2>4
  <2>6. i <= 2 => i = 1 /\ j = 2
    BY <1>3, <2>2
  <2>7. i > 2 /\ i <= 4 => i = 3 /\ j = 4
    BY <1>3, <2>3
  <2> QED BY <1>3, <2>5, <2>6, <2>7
<1> HIDE DEF R, n
<1>5. CASE i = 1 /\ j = 2
  <2>1. DetectorFitRange(t) \cap NuisanceRange(t) = {}
    BY <1>1 DEF DetectorFitRange, NuisanceRange
  <2> QED BY <1>2, <1>5, <2>1 DEF R
<1>6. CASE i = 3 /\ j = 4
  <2> DEFINE w == WarmupStart(t) h == t.harness m == t.measured
  <2>1. w \in Nat /\ h \in Nat /\ m \in Nat
    <3>1. w = BeginOf(t, n) /\ n \in -1 .. t.horizons + 1
      BY <1>1, StretchesFollow DEF n
    <3> HIDE DEF w
    <3> QED BY <1>1, <3>1, StretchesFollow
  <2>2. WarmupRange(t) = w .. w + h - 1 /\ MeasuredRange(t) = w + h .. w + h + m - 1
    BY DEF WarmupRange, MeasuredRange
  <2> HIDE DEF w, h, m
  <2>3. (w .. w + h - 1) \cap (w + h .. w + h + m - 1) = {}
    BY <2>1
  <2> QED BY <1>2, <1>6, <2>2, <2>3 DEF R
<1>7. CASE \E k \in 0 .. n - 1 : i = 5 + k /\ j = 5 + n + k
  <2>1. PICK k \in 0 .. n - 1 : i = 5 + k /\ j = 5 + n + k
    BY <1>7
  <2> DEFINE first == CalibrationStart(t) + k * CalibrationLength(t)
             l == CalibrationLength(t)
  <2>2. /\ first \in Nat
        /\ WarmupOf(t, k) = first .. first + t.warmup - 1
        /\ CalibrationHorizon(t, k) = first + t.warmup .. first + l - 1
    BY HorizonsFollowWarmups DEF n
  <2>3. l \in Nat
    BY <1>1 DEF CalibrationLength
  <2> HIDE DEF first, l
  <2>4. (first + t.warmup .. first + l - 1) \cap (first .. first + t.warmup - 1) = {}
    BY <1>1, <2>2, <2>3
  <2> QED BY <1>2, <2>1, <2>2, <2>4 DEF R
<1> QED BY <1>4, <1>5, <1>6, <1>7

\* No two roles have an epoch in common.
LEMMA RolesAreApart ==
    ASSUME NEW t, IsLayout(t), NEW i \in DOMAIN RolesOf(t), NEW j \in DOMAIN RolesOf(t), i # j
    PROVE  RolesOf(t)[i] \cap RolesOf(t)[j] = {}
<1> DEFINE s(x) == StretchOf(t, x)
           B(x) == BeginOf(t, x)
<1>1. DOMAIN RolesOf(t) \subseteq Int
  <2>1. t.horizons \in Nat /\ DOMAIN RolesOf(t) = 1 .. 4 + 2 * t.horizons
    BY RolesInOrder DEF IsLayout
  <2> QED BY <2>1
<1>2. i \in Int /\ j \in Int
  BY <1>1
<1>3. CASE s(i) = s(j)
  <2>1. CASE i < j
    BY <1>3, <2>1, RolesOfAStretch
  <2>2. CASE j < i
    <3>1. RolesOf(t)[j] \cap RolesOf(t)[i] = {}
      BY <1>3, <2>2, RolesOfAStretch
    <3> QED BY <3>1
  <2> QED BY <1>2, <2>1, <2>2
<1>4. CASE s(i) # s(j)
  <2>1. /\ s(i) \in -1 .. t.horizons /\ s(j) \in -1 .. t.horizons
        /\ \A e \in RolesOf(t)[i] : e \in Nat /\ B(s(i)) <= e /\ e < B(s(i) + 1)
        /\ \A e \in RolesOf(t)[j] : e \in Nat /\ B(s(j)) <= e /\ e < B(s(j) + 1)
    BY RolesLieInStretches
  <2>2. /\ \A x \in -1 .. t.horizons + 1 : B(x) \in Nat
        /\ \A x, y \in -1 .. t.horizons : x < y => B(x + 1) <= B(y)
    BY StretchesFollow
  <2>3. t.horizons \in Nat
    BY DEF IsLayout
  <2> HIDE DEF s, B
  <2>4. /\ B(s(i)) \in Nat /\ B(s(i) + 1) \in Nat /\ B(s(j)) \in Nat /\ B(s(j) + 1) \in Nat
        /\ (B(s(i) + 1) <= B(s(j)) \/ B(s(j) + 1) <= B(s(i)))
    BY <1>4, <2>1, <2>2, <2>3
  <2> QED BY <2>1, <2>4
<1> QED BY <1>3, <1>4

\* Every epoch of the stream has a role, and no other epoch has one.
LEMMA EveryEpochHasARole ==
    ASSUME NEW t, IsLayout(t)
    PROVE  UNION Range(RolesOf(t)) = 0 .. TotalEpochs(t) - 1
<1> DEFINE n == t.horizons
           R == RolesOf(t)
           B(s) == BeginOf(t, s)
<1>1. n \in Nat /\ t.nuisance \in Nat /\ t.harness \in Nat /\ t.measured \in Nat
      /\ t.warmup \in Nat /\ t.horizon \in Nat \ {0}
  BY DEF IsLayout
<1>2. /\ DOMAIN R = 1 .. 4 + 2 * n
      /\ R[1] = DetectorFitRange(t) /\ R[2] = NuisanceRange(t)
      /\ R[3] = WarmupRange(t) /\ R[4] = MeasuredRange(t)
      /\ \A k \in 0 .. n - 1 : R[5 + k] = CalibrationHorizon(t, k) /\ R[5 + n + k] = WarmupOf(t, k)
  BY RolesInOrder
<1>3. /\ \A s \in -1 .. n + 1 : B(s) \in Nat
      /\ \A s, u \in -1 .. n : s < u => B(s + 1) <= B(u)
      /\ B(-1) = 0 /\ B(0) = CalibrationStart(t) /\ B(n) = WarmupStart(t)
      /\ B(n + 1) = WarmupStart(t) + t.harness + t.measured
      /\ B(n + 1) = TotalEpochs(t)
  BY StretchesFollow
<1>4. UNION Range(R) = UNION {R[j] : j \in DOMAIN R}
  BY DEF Range
<1>5. ASSUME NEW j \in DOMAIN R, NEW e \in R[j] PROVE e \in 0 .. TotalEpochs(t) - 1
  <2>1. StretchOf(t, j) \in -1 .. n /\ e \in Nat /\ B(StretchOf(t, j)) <= e /\ e < B(StretchOf(t, j) + 1)
    BY <1>5, RolesLieInStretches
  <2> DEFINE s == StretchOf(t, j)
  <2>2. B(s + 1) <= B(n + 1) /\ B(s + 1) \in Nat /\ B(n + 1) \in Nat
    <3> HIDE DEF s, B
    <3>0. s \in -1 .. n
      BY <2>1 DEF s
    <3>1. CASE s = n
      BY <1>1, <1>3, <3>1
    <3>2. CASE s < n
      <4>1. B(s + 1) <= B(n) /\ B(n) <= B(n + 1)
        <5>1. B(s + 1) <= B(n)
          BY <1>1, <1>3, <3>0, <3>2
        <5> DEFINE w == WarmupStart(t)
        <5>2. B(n) = w /\ w \in Nat /\ B(n + 1) = w + t.harness + t.measured
          BY <1>1, <1>3
        <5> HIDE DEF w
        <5> QED BY <1>1, <5>1, <5>2
      <4>2. s + 1 \in -1 .. n + 1 /\ n \in -1 .. n + 1 /\ n + 1 \in -1 .. n + 1
        BY <1>1, <3>0
      <4> QED BY <1>3, <4>1, <4>2
    <3> QED BY <1>1, <3>0, <3>1, <3>2
  <2> HIDE DEF s, B
  <2> QED BY <1>3, <2>1, <2>2 DEF s
<1>6. ASSUME NEW e \in 0 .. TotalEpochs(t) - 1 PROVE \E j \in DOMAIN R : e \in R[j]
  <2> DEFINE w == WarmupStart(t) h == t.harness m == t.measured
             c == CalibrationStart(t) l == CalibrationLength(t)
  <2>1. /\ w \in Nat /\ TotalEpochs(t) = w + h + m /\ TotalEpochs(t) \in Nat /\ c \in Nat
        /\ c = 2 * t.nuisance /\ w = c + n * l /\ l = t.warmup + t.horizon /\ l \in Nat \ {0}
    <3>1. n \in -1 .. n + 1 /\ 0 \in -1 .. n + 1 /\ n + 1 \in -1 .. n + 1
      BY <1>1
    <3>2. w \in Nat /\ TotalEpochs(t) = w + h + m /\ TotalEpochs(t) \in Nat /\ c \in Nat
      <4> HIDE DEF B, w, c, h, m
      <4> QED BY <1>3, <3>1 DEF w, c, h, m
    <3>3. l = t.warmup + t.horizon /\ l \in Nat \ {0}
      BY <1>1 DEF CalibrationLength
    <3>4. c = 2 * t.nuisance /\ w = c + n * l
      BY DEF CalibrationStart, WarmupStart
    <3> HIDE DEF w, c, l
    <3> QED BY <3>2, <3>3, <3>4
  <2>2. e \in Nat /\ e < w + h + m
    <3> HIDE DEF w, h, m
    <3> QED BY <2>1
  <2>3. {1, 2, 3, 4} \subseteq DOMAIN R
    BY <1>1, <1>2
  <2>4. CASE e < c
    <3>1. e \in DetectorFitRange(t) \/ e \in NuisanceRange(t)
      <4>1. e < 2 * t.nuisance
        BY <2>1, <2>4
      <4> QED BY <1>1, <2>2, <4>1 DEF DetectorFitRange, NuisanceRange
    <3> QED BY <1>2, <2>3, <3>1
  <2>5. CASE w <= e
    <3>1. e \in WarmupRange(t) \/ e \in MeasuredRange(t)
      <4>1. WarmupRange(t) = w .. w + h - 1 /\ MeasuredRange(t) = w + h .. w + h + m - 1
        BY DEF WarmupRange, MeasuredRange
      <4>2. h \in Nat /\ m \in Nat
        BY <1>1
      <4> HIDE DEF w, h, m
      <4>3. e \in w .. w + h - 1 \/ e \in w + h .. w + h + m - 1
        BY <2>1, <2>2, <2>5, <4>2
      <4> QED BY <4>1, <4>3
    <3> QED BY <1>2, <2>3, <3>1
  <2>6. CASE c <= e /\ e < w
    <3> DEFINE d == e - c
    <3>1. d \in Nat /\ d < n * l
      <4> HIDE DEF w, c, l
      <4>1. n * l \in Nat
        BY <1>1, <2>1
      <4> QED BY <2>1, <2>2, <2>6, <4>1
    <3> HIDE DEF d
    <3>2. PICK i \in 0 .. n - 1 : i * l <= d /\ d < i * l + l
      <4> HIDE DEF l, n
      <4> QED BY <1>1, <2>1, <3>1, BlockOfPlace
    <3> DEFINE first == c + i * l
    <3>3. /\ first \in Nat
          /\ WarmupOf(t, i) = first .. first + t.warmup - 1
          /\ CalibrationHorizon(t, i) = first + t.warmup .. first + l - 1
      BY HorizonsFollowWarmups
    <3>4. first <= e /\ e < first + l
      <4> DEFINE k == i * l
      <4>1. k \in Int /\ k <= d /\ d < k + l /\ d = e - c
        <5>1. i \in Int /\ l \in Int
          BY <2>1
        <5>2. i * l \in Int
          <6> HIDE DEF l
          <6> QED BY <5>1
        <5> QED BY <3>2, <5>2 DEF d
      <4> HIDE DEF k, l, c
      <4>2. c + k <= e /\ e < c + k + l
        BY <2>1, <2>2, <4>1
      <4> QED BY <4>2 DEF k
    <3> HIDE DEF first, l
    <3>5. e \in WarmupOf(t, i) \/ e \in CalibrationHorizon(t, i)
      <4> DEFINE u == t.warmup
      <4>1. u \in Int /\ first \in Int /\ l \in Int /\ e \in Int
        BY <1>1, <2>1, <2>2, <3>3
      <4>2. /\ WarmupOf(t, i) = first .. first + u - 1
            /\ CalibrationHorizon(t, i) = first + u .. first + l - 1
        BY <3>3
      <4> HIDE DEF u
      <4>3. e \in first .. first + u - 1 \/ e \in first + u .. first + l - 1
        BY <3>4, <4>1
      <4> QED BY <4>2, <4>3
    <3>6. 5 + i \in DOMAIN R /\ 5 + n + i \in DOMAIN R
      <4>1. n \in Nat /\ DOMAIN R = 1 .. 4 + 2 * n
        BY <1>1, <1>2
      <4> HIDE DEF R, n
      <4>2. 5 + i \in 1 .. 4 + 2 * n /\ 5 + n + i \in 1 .. 4 + 2 * n
        BY <4>1
      <4> QED BY <4>1, <4>2
    <3> QED BY <1>2, <3>5, <3>6
  <2>7. (e < c) \/ (w <= e) \/ (c <= e /\ e < w)
    <3> HIDE DEF w, c
    <3> QED BY <2>1, <2>2
  <2> QED BY <2>4, <2>5, <2>6, <2>7
<1> HIDE DEF R
<1> QED BY <1>4, <1>5, <1>6 DEF R

-----------------------------------------------------------------------------
(***************************************************************************)
(* The repetitions of the scalability harness.                             *)
(***************************************************************************)
\* The states of a pass are a sequence: from where it starts, each after an epoch more.
Follows(x, start, state) ==
    /\ state[0] = start
    /\ \A e \in 1 .. Len(x.factors) : state[e] = Advanced(x, state[e - 1], e)

\* They exist, and a repetition is made of them.
LEMMA PassHasStates ==
    ASSUME NEW x, Len(x.factors) \in Nat, DOMAIN x.factors = 1 .. Len(x.factors), NEW start
    PROVE  \E state : /\ Follows(x, start, state)
                      /\ Path(x, start) = [e \in 1 .. Len(x.factors) |-> state[e]]
<1> DEFINE n == Len(x.factors)
           Step(f, e) == IF e = 0 THEN start ELSE Advanced(x, f[e - 1], e)
           Upto(f, m) == f = [e \in 0 .. m |-> Step(f, e)]
           Reached == {m \in Nat : \E f : Upto(f, m)}
           state == CHOOSE f : f = [e \in 0 .. n |-> Step(f, e)]
<1>1. Path(x, start) = [e \in 1 .. n |-> state[e]]
  BY DEF Path
<1>2. Nat \subseteq Reached
  <2>1. 0 \in Reached
    <3>1. Upto([e \in 0 .. 0 |-> start], 0)
      OBVIOUS
    <3> QED BY <3>1
  <2>2. ASSUME NEW m \in Nat, m \in Reached PROVE m + 1 \in Reached
    <3>1. PICK f : Upto(f, m)
      BY <2>2
    <3> DEFINE g == [e \in 0 .. m + 1 |-> IF e = m + 1 THEN Step(f, e) ELSE f[e]]
    <3>2. \A e \in 0 .. m : f[e] = Step(f, e)
      BY <3>1
    <3>3. \A e \in 0 .. m + 1 : e # 0 => g[e - 1] = f[e - 1]
      OBVIOUS
    <3>4. \A e \in 0 .. m + 1 : g[e] = Step(f, e)
      BY <3>2
    <3>5. g = [e \in 0 .. m + 1 |-> g[e]]
      OBVIOUS
    <3> HIDE DEF g
    <3>6. \A e \in 0 .. m + 1 : Step(g, e) = Step(f, e)
      BY <3>3
    <3>7. Upto(g, m + 1)
      BY <3>4, <3>5, <3>6
    <3> HIDE DEF Upto
    <3> QED BY <3>7
  <2> HIDE DEF Reached
  <2> QED BY <2>1, <2>2, AllNumbers
<1>3. state = [e \in 0 .. n |-> Step(state, e)]
  <2>1. \E f : Upto(f, n)
    BY <1>2
  <2> HIDE DEF Step
  <2> QED BY <2>1
<1> HIDE DEF state
<1>4. \A e \in 0 .. n : state[e] = Step(state, e)
  <2> HIDE DEF Step
  <2> QED BY <1>3
<1>5. state[0] = start /\ \A e \in 1 .. n : state[e] = Advanced(x, state[e - 1], e)
  BY <1>4
<1> QED BY <1>1, <1>5 DEF Follows

\* The exceedances of some scores are a mark of each.
LEMMA ExceedancesAreMarks ==
    ASSUME NEW n \in Nat, NEW s \in [1 .. n -> Int], NEW v, NEW scale
    PROVE  /\ Exceedances(s, v, scale) \in Seq(BOOLEAN)
           /\ Len(Exceedances(s, v, scale)) = n
<1> DEFINE b(i) == s[i] * scale >= v
<1>1. Exceedances(s, v, scale) = [i \in 1 .. n |-> b(i)]
  BY DEF Exceedances
<1>2. \A i \in 1 .. n : b(i) \in BOOLEAN
  OBVIOUS
<1> HIDE DEF b
<1>3. [i \in 1 .. n |-> b(i)] \in Seq(BOOLEAN) /\ Len([i \in 1 .. n |-> b(i)]) = n
  BY <1>2
<1> QED BY <1>1, <1>3

\* After some epochs a client with a policy has seen which of them exceed its threshold.
LEMMA SeenSoFar ==
    ASSUME NEW x, IsPass(x), NEW c \in DOMAIN x.scores, x.policies[c] # NoPolicy,
           NEW e \in 1 .. Len(x.factors)
    PROVE  Path(x, Fresh(x))[e].seen[c] = SubSeq(Exceedances(x.scores[c], x.policies[c].threshold, 1), 1, e)
<1> DEFINE n == Len(x.factors)
           s == x.scores[c]
           v == x.policies[c].threshold
           So(m) == [i \in 1 .. m |-> s[i] >= v]
           all == Exceedances(s, v, 1)
<1>1. /\ n \in Nat /\ DOMAIN x.factors = 1 .. n
      /\ s \in [1 .. n -> Int] /\ v \in Int
  <2>1. x.factors \in Seq(Range(x.factors))
    BY DEF IsPass
  <2>2. n \in Nat /\ DOMAIN x.factors = 1 .. n
    BY <2>1, LenProperties
  <2> QED BY <2>2 DEF IsPass
<1>2. PICK state : Follows(x, Fresh(x), state) /\ Path(x, Fresh(x)) = [i \in 1 .. n |-> state[i]]
  BY <1>1, PassHasStates
<1> DEFINE Seen == {m \in Nat : m <= n => state[m].seen[c] = So(m)}
<1>3. Nat \subseteq Seen
  <2>1. 0 \in Seen
    <3>1. state[0].seen[c] = <<>>
      BY <1>2 DEF Follows, Fresh
    <3>2. So(0) = <<>>
      OBVIOUS
    <3> HIDE DEF So
    <3> QED BY <3>1, <3>2
  <2>2. ASSUME NEW m \in Nat, m \in Seen PROVE m + 1 \in Seen
    <3> SUFFICES ASSUME m + 1 <= n PROVE state[m + 1].seen[c] = So(m + 1)
      OBVIOUS
    <3>1. state[m + 1] = Advanced(x, state[m], m + 1)
      BY <1>1, <1>2 DEF Follows
    <3>2. Advanced(x, state[m], m + 1).seen[c] = Append(state[m].seen[c], s[m + 1] >= v)
      BY DEF Advanced
    <3>3. state[m].seen[c] = So(m)
      BY <1>1, <2>2
    <3>4. Append(So(m), s[m + 1] >= v) = So(m + 1)
      <4>1. So(m) \in Seq(BOOLEAN) /\ Len(So(m)) = m /\ DOMAIN So(m) = 1 .. m
        <5> DEFINE b(i) == s[i] >= v
        <5>1. \A i \in 1 .. m : b(i) \in BOOLEAN
          OBVIOUS
        <5>2. So(m) = [i \in 1 .. m |-> b(i)]
          OBVIOUS
        <5> HIDE DEF b, So
        <5>3. [i \in 1 .. m |-> b(i)] \in Seq(BOOLEAN) /\ Len([i \in 1 .. m |-> b(i)]) = m
          BY <5>1
        <5> QED BY <5>2, <5>3
      <4>2. (s[m + 1] >= v) \in BOOLEAN
        OBVIOUS
      <4> DEFINE b == s[m + 1] >= v  q == So(m) a == Append(q, b)
      <4>3. \A i \in 1 .. m : q[i] = So(m + 1)[i]
        OBVIOUS
      <4>4. b = So(m + 1)[m + 1]
        OBVIOUS
      <4>5. DOMAIN So(m + 1) = 1 .. m + 1 /\ So(m + 1) = [i \in 1 .. m + 1 |-> So(m + 1)[i]]
        OBVIOUS
      <4> HIDE DEF b, q, So
      <4>6. /\ a \in Seq(BOOLEAN) /\ Len(a) = m + 1 /\ DOMAIN a = 1 .. m + 1
            /\ \A i \in 1 .. m : a[i] = q[i]
            /\ a[m + 1] = b
        BY <4>1, <4>2, AppendProperties, LenProperties DEF q, b
      <4> HIDE DEF a
      <4>7. a = [i \in 1 .. m + 1 |-> a[i]]
        BY <4>6
      <4>8. \A i \in 1 .. m + 1 : a[i] = So(m + 1)[i]
        BY <4>3, <4>4, <4>6
      <4>9. a = So(m + 1)
        BY <4>5, <4>7, <4>8
      <4> QED BY <4>9 DEF a, q, b
    <3> HIDE DEF So, s, v
    <3> QED BY <3>1, <3>2, <3>3, <3>4
  <2> HIDE DEF Seen
  <2> QED BY <2>1, <2>2, AllNumbers
<1>4. Path(x, Fresh(x))[e].seen[c] = So(e)
  BY <1>1, <1>2, <1>3
<1>5. SubSeq(all, 1, e) = So(e)
  <2>1. DOMAIN all = 1 .. n /\ \A i \in 1 .. n : all[i] = (s[i] >= v)
    <3>1. \A i \in 1 .. n : s[i] \in Int /\ s[i] * 1 = s[i]
      BY <1>1
    <3> QED BY <1>1, <3>1 DEF Exceedances
  <2>2. SubSeq(all, 1, e) = [i \in 1 .. e |-> all[i]]
    <3>1. all \in Seq(BOOLEAN) /\ Len(all) = n
      BY <1>1, ExceedancesAreMarks
    <3> DEFINE b == SubSeq(all, 1, e)
    <3>2. e \in Nat /\ 1 \in 1 .. n + 1 /\ e \in 1 - 1 .. n
      BY <1>1
    <3> HIDE DEF all, n
    <3>3. b \in Seq(BOOLEAN) /\ Len(b) = e - 1 + 1 /\ \A i \in 1 .. e - 1 + 1 : b[i] = all[1 + i - 1]
      BY <3>1, <3>2, SubSeqProperties
    <3>4. DOMAIN b = 1 .. Len(b) /\ b = [i \in 1 .. Len(b) |-> b[i]]
      BY <3>3, LenProperties
    <3> HIDE DEF b
    <3>5. \A i \in 1 .. e : b[i] = all[i]
      BY <3>2, <3>3
    <3>6. b = [i \in 1 .. e |-> b[i]]
      BY <3>2, <3>3, <3>4
    <3>7. b = [i \in 1 .. e |-> all[i]]
      BY <3>5, <3>6
    <3> QED BY <3>7 DEF b
  <2> HIDE DEF all, s, v
  <2>3. \A i \in 1 .. e : all[i] = (s[i] >= v)
    BY <1>1, <2>1
  <2> QED BY <2>2, <2>3
<1> QED BY <1>4, <1>5

\* So a policy triggers in a repetition just when it stops on the scores.
LEMMA RepetitionsAgree ==
    ASSUME NEW x, IsPass(x), NEW r \in DOMAIN Repetitions(x),
           NEW c \in DOMAIN x.scores, x.policies[c] # NoPolicy
    PROVE  (\E e \in DOMAIN Repetitions(x)[r] : Triggered(Repetitions(x)[r][e].seen[c], x.policies[c]))
                <=> StopsLocally(Exceedances(x.scores[c], x.policies[c].threshold, 1), x.policies[c])
<1> DEFINE n == Len(x.factors)
           all == Exceedances(x.scores[c], x.policies[c].threshold, 1)
           p == x.policies[c]
<1>1. n \in Nat /\ DOMAIN x.factors = 1 .. n
  <2>1. x.factors \in Seq(Range(x.factors))
    BY DEF IsPass
  <2> QED BY <2>1, LenProperties
<1>2. Repetitions(x)[r] = Path(x, Fresh(x)) /\ DOMAIN Path(x, Fresh(x)) = 1 .. n
  <2>1. Repetitions(x)[r] = Path(x, Fresh(x))
    BY DEF Repetitions
  <2>2. DOMAIN Path(x, Fresh(x)) = 1 .. n
    BY <1>1, PassHasStates
  <2> QED BY <2>1, <2>2
<1>3. Len(all) = n
  <2>1. x.scores[c] \in [1 .. n -> Int]
    BY DEF IsPass
  <2> QED BY <1>1, <2>1, ExceedancesAreMarks
<1>4. \A e \in 1 .. n : Path(x, Fresh(x))[e].seen[c] = SubSeq(all, 1, e)
  BY SeenSoFar
<1> HIDE DEF all
<1>5. StopsLocally(all, p) <=> \E e \in 1 .. n : Triggered(SubSeq(all, 1, e), p)
  BY <1>3 DEF StopsLocally
<1> QED BY <1>2, <1>4, <1>5 DEF all

-----------------------------------------------------------------------------
(***************************************************************************)
(* The epochs and the contexts of the comparators.                         *)
(***************************************************************************)
\* Ranks as a comparator is given them.
AreRanks(r) ==
    /\ DOMAIN r = Clients
    /\ \A c \in Clients :
        /\ DOMAIN r[c] \subseteq Int /\ IsFiniteSet(DOMAIN r[c])
        /\ \A e \in DOMAIN r[c] : r[c][e] \in Int \cup {Nothing}

\* At a common epoch each client has a rank that is a number.
LEMMA CommonRanks ==
    ASSUME NEW r, AreRanks(r)
    PROVE  /\ CommonEpochs(r) \subseteq Int
           /\ \A e \in CommonEpochs(r), c \in Clients :
                e \in DOMAIN r[c] /\ RankAt(r, c, e) = r[c][e] /\ r[c][e] \in Int
<1>1. \A e \in CommonEpochs(r), c \in Clients :
        e \in DOMAIN r[c] /\ RankAt(r, c, e) = r[c][e] /\ r[c][e] \in Int
  BY DEF CommonEpochs, RankAt, AreRanks
<1>2. CommonEpochs(r) \subseteq Int
  BY DEF CommonEpochs, AreRanks
<1> QED BY <1>1, <1>2

\* There are finitely many of them.
LEMMA CommonAreFinite == ASSUME NEW r, AreRanks(r) PROVE IsFiniteSet(CommonEpochs(r))
<1>1. CASE Clients = {}
  <2>1. CommonEpochs(r) = {}
    BY <1>1 DEF CommonEpochs
  <2> QED BY <2>1, FS_EmptySet
<1>2. CASE Clients # {}
  <2>1. PICK c \in Clients : TRUE
    BY <1>2
  <2>2. CommonEpochs(r) \subseteq DOMAIN r[c] /\ IsFiniteSet(DOMAIN r[c])
    BY CommonRanks DEF AreRanks
  <2> QED BY <2>2, FS_Subset
<1> QED BY <1>1, <1>2

\* What is left of some ranks when those after an epoch are taken away.
Past(r, e) == Without(r, Later(r, e))

\* The ranks up to it, and no others.
LEMMA PastRanks ==
    ASSUME NEW r, AreRanks(r), NEW e \in Int, NEW c \in Clients
    PROVE  /\ \A d \in Int : d <= e => RankAt(Past(r, e), c, d) = RankAt(r, c, d)
           /\ \A d \in Int : d > e => RankAt(Past(r, e), c, d) = Nothing
           /\ DOMAIN Past(r, e) = Clients /\ DOMAIN Past(r, e)[c] = DOMAIN r[c]
           /\ \A d \in DOMAIN r[c] : d <= e => Past(r, e)[c][d] = r[c][d]
<1> DEFINE S == Later(r, e)
           p == Past(r, e)
<1>1. DOMAIN r = Clients /\ DOMAIN r[c] \subseteq Int
  BY DEF AreRanks
<1>2. DOMAIN p = Clients /\ p[c] = [d \in DOMAIN r[c] |-> IF d \in S THEN Nothing ELSE r[c][d]]
  BY <1>1 DEF Past, Without
<1>3. \A d \in DOMAIN r[c] : d \in S <=> d > e
  BY DEF Later
<1> HIDE DEF p, S
<1>4. DOMAIN p[c] = DOMAIN r[c] /\ \A d \in DOMAIN r[c] : p[c][d] = IF d > e THEN Nothing ELSE r[c][d]
  BY <1>2, <1>3
<1>5. \A d \in Int : d <= e => ~(d > e)
  OBVIOUS
<1>6. \A d \in DOMAIN r[c] : d <= e => p[c][d] = r[c][d]
  BY <1>1, <1>4, <1>5
<1>7. \A d \in Int : d <= e => RankAt(p, c, d) = RankAt(r, c, d)
  BY <1>4, <1>6 DEF RankAt
<1>8. \A d \in Int : d > e => RankAt(p, c, d) = Nothing
  BY <1>4 DEF RankAt
<1> QED BY <1>2, <1>4, <1>6, <1>7, <1>8 DEF p

\* What is left are ranks, and the common epochs up to it.
LEMMA PastIsOfRanks ==
    ASSUME NEW r, AreRanks(r), NEW e \in Int
    PROVE  /\ AreRanks(Past(r, e))
           /\ Clients # {} => CommonEpochs(Past(r, e)) = {d \in CommonEpochs(r) : d <= e}
<1> DEFINE p == Past(r, e)
<1>1. AreRanks(p)
  <2>1. DOMAIN p = Clients
    BY DEF Past, Without, AreRanks
  <2>2. ASSUME NEW c \in Clients
        PROVE  /\ DOMAIN p[c] = DOMAIN r[c]
               /\ \A d \in DOMAIN p[c] : p[c][d] \in Int \cup {Nothing}
    <3>1. p[c] = [d \in DOMAIN r[c] |-> IF d \in Later(r, e) THEN Nothing ELSE r[c][d]]
      BY DEF Past, Without, AreRanks
    <3>2. \A d \in DOMAIN r[c] : r[c][d] \in Int \cup {Nothing}
      BY DEF AreRanks
    <3> HIDE DEF p
    <3> QED BY <3>1, <3>2
  <2> HIDE DEF p
  <2> QED BY <2>1, <2>2 DEF AreRanks
<1>2. ASSUME Clients # {} PROVE CommonEpochs(p) = {d \in CommonEpochs(r) : d <= e}
  <2>1. /\ \A c \in Clients : \A d \in Int : d <= e => RankAt(p, c, d) = RankAt(r, c, d)
        /\ \A c \in Clients : \A d \in Int : d > e => RankAt(p, c, d) = Nothing
        /\ \A c \in Clients : DOMAIN p[c] = DOMAIN r[c]
    <3>1. ASSUME NEW c \in Clients
          PROVE  /\ \A d \in Int : d <= e => RankAt(p, c, d) = RankAt(r, c, d)
                 /\ \A d \in Int : d > e => RankAt(p, c, d) = Nothing
                 /\ DOMAIN p[c] = DOMAIN r[c]
      BY PastRanks
    <3> HIDE DEF p
    <3> QED BY <3>1
  <2>2. CommonEpochs(p) \subseteq Int /\ CommonEpochs(r) \subseteq Int
    BY <1>1, CommonRanks
  <2> HIDE DEF p
  <2>3. UNION {DOMAIN p[c] : c \in Clients} = UNION {DOMAIN r[c] : c \in Clients}
    BY <2>1
  <2>4. ASSUME NEW d \in CommonEpochs(p) PROVE d \in CommonEpochs(r) /\ d <= e
    <3>1. d \in Int /\ \A c \in Clients : RankAt(p, c, d) # Nothing
      BY <2>2 DEF CommonEpochs
    <3>2. d <= e
      <4>1. ~(d > e)
        BY <1>2, <2>1, <3>1
      <4> QED BY <3>1, <4>1
    <3>3. \A c \in Clients : RankAt(r, c, d) # Nothing
      BY <2>1, <3>1, <3>2
    <3> QED BY <2>3, <3>2, <3>3 DEF CommonEpochs
  <2>5. ASSUME NEW d \in CommonEpochs(r), d <= e PROVE d \in CommonEpochs(p)
    <3>1. d \in Int /\ \A c \in Clients : RankAt(r, c, d) # Nothing
      BY <2>2 DEF CommonEpochs
    <3>2. \A c \in Clients : RankAt(p, c, d) # Nothing
      BY <2>1, <2>5, <3>1
    <3> QED BY <2>3, <3>2 DEF CommonEpochs
  <2> QED BY <2>4, <2>5
<1> QED BY <1>1, <1>2

\* The row before an epoch is one of the past.
LEMMA PastRowBefore ==
    ASSUME NEW E, E \subseteq Int, IsFiniteSet(E), NEW e \in Int, NEW d \in Int, d <= e
    PROVE  /\ RowBefore({x \in E : x <= e}, d) = RowBefore(E, d)
           /\ RowBefore(E, d) # Nothing => RowBefore(E, d) \in E /\ RowBefore(E, d) < d
<1> DEFINE B == {x \in E : x < d}
           L == {x \in E : x <= e}
<1>1. {x \in L : x < d} = B
  <2>1. \A x \in E : x < d => x <= e
    OBVIOUS
  <2> QED BY <2>1
<1>2. (\E x \in L : x < d) <=> B # {}
  BY <1>1
<1>3. (\E x \in E : x < d) <=> B # {}
  OBVIOUS
<1>4. RowBefore(L, d) = IF B # {} THEN Max(B) ELSE Nothing
  <2> HIDE DEF L, B
  <2> QED BY <1>1, <1>2 DEF RowBefore
<1>5. RowBefore(E, d) = IF B # {} THEN Max(B) ELSE Nothing
  BY <1>3 DEF RowBefore
<1>6. ASSUME B # {} PROVE Max(B) \in E /\ Max(B) < d
  <2>1. B \subseteq Int /\ IsFiniteSet(B)
    BY FS_Subset
  <2>2. Max(B) \in B
    <3> HIDE DEF B
    <3> QED BY <1>6, <2>1, FirstAndLast
  <2> QED BY <2>2
<1> HIDE DEF B
<1> QED BY <1>4, <1>5, <1>6

\* So is the context of an epoch.
LEMMA PastContext ==
    ASSUME NEW r, AreRanks(r), Clients # {}, NEW e \in Int, NEW d \in Int, d <= e, NEW k
    PROVE  PanelContext(Past(r, e), k, d) = PanelContext(r, k, d)
<1> DEFINE p == Past(r, e)
           before == RowBefore(CommonEpochs(r), d)
           outside == Clients \ MembersOf(k)
<1>1. CommonEpochs(p) = {x \in CommonEpochs(r) : x <= e}
  BY PastIsOfRanks
<1>2. CommonEpochs(r) \subseteq Int /\ IsFiniteSet(CommonEpochs(r))
  BY CommonRanks, CommonAreFinite
<1>3. /\ RowBefore(CommonEpochs(p), d) = before
      /\ before # Nothing => before \in Int /\ before <= e
  <2>1. /\ RowBefore({x \in CommonEpochs(r) : x <= e}, d) = before
        /\ before # Nothing => before \in CommonEpochs(r) /\ before < d
    BY <1>2, PastRowBefore
  <2> HIDE DEF before, p
  <2> QED BY <1>1, <1>2, <2>1
<1>4. \A c \in Clients : \A x \in Int : x <= e => RankAt(p, c, x) = RankAt(r, c, x)
  BY PastRanks
<1> HIDE DEF before, p
<1>5. before # Nothing => Histogram(p, outside, before) = Histogram(r, outside, before)
  <2> SUFFICES ASSUME before # Nothing PROVE Histogram(p, outside, before) = Histogram(r, outside, before)
    OBVIOUS
  <2>1. \A b : {c \in outside : RankAt(p, c, before) = b} = {c \in outside : RankAt(r, c, before) = b}
    BY <1>3, <1>4
  <2> QED BY <2>1 DEF Histogram
<1> QED BY <1>3, <1>5 DEF PanelContext, before, p

-----------------------------------------------------------------------------
(***************************************************************************)
(* Conditioning reads the past.                                            *)
(***************************************************************************)
\* An epoch of a set of numbers that comes after another set of epochs.
After(e, S) == e \in Int /\ \A n \in S : n < e

\* The nuisance epochs are among those left.
LEMMA PastNuisance ==
    ASSUME NEW r, AreRanks(r), Clients # {}, NEW e, After(e, Range(Nuisance))
    PROVE  /\ NuisanceRows(Past(r, e)) = NuisanceRows(r)
           /\ \A d \in NuisanceRows(r) : d \in Int /\ d <= e
<1>1. e \in Int /\ CommonEpochs(Past(r, e)) = {d \in CommonEpochs(r) : d <= e}
  BY PastIsOfRanks DEF After
<1>2. \A d \in CommonEpochs(r) \cap Range(Nuisance) : d \in Int /\ d <= e
  <2>1. \A d \in CommonEpochs(r) : d \in Int
    BY CommonRanks
  <2>2. \A d \in Range(Nuisance) : d < e
    BY DEF After
  <2> QED BY <1>1, <2>1, <2>2
<1> QED BY <1>1, <1>2 DEF NuisanceRows

\* What is fitted does not depend on later ranks.
LEMMA PastConditioning ==
    ASSUME NEW r, AreRanks(r), Clients # {}, NEW e, After(e, Range(Nuisance)), NEW k, NEW nearest
    PROVE  Conditioning(Past(r, e), k, nearest) = Conditioning(r, k, nearest)
<1> DEFINE p == Past(r, e)
           N == NuisanceRows(r)
           context(d) == PanelContext(r, k, d)
<1>1. NuisanceRows(p) = N /\ \A d \in N : d \in Int /\ d <= e
  BY PastNuisance
<1>2. \A d \in N : PanelContext(p, k, d) = context(d)
  <2>1. e \in Int
    BY DEF After
  <2> HIDE DEF N
  <2> QED BY <1>1, <2>1, PastContext
<1> DEFINE training(x) == {d \in NuisanceRows(x) : PanelContext(x, k, d) # Nothing}
           cell(x) == [d \in training(x) |-> nearest[PanelContext(x, k, d)][1]]
<1>3. training(p) = training(r)
  <2> HIDE DEF N, p
  <2> QED BY <1>1, <1>2 DEF N
<1>4. cell(p) = cell(r)
  <2>1. \A d \in training(r) : PanelContext(p, k, d) = PanelContext(r, k, d)
    BY <1>2
  <2> HIDE DEF training, p
  <2> QED BY <1>3, <2>1
<1> DEFINE usable(T, f) == {c \in Cells : Cardinality({d \in T : f[d] = c}) >= 2}
           Model(T, f) == IF k > Cardinality(Clients) \/ Cardinality(T) < Cardinality(Cells) \/ usable(T, f) = {}
                          THEN Nothing
                          ELSE [c \in usable(T, f) |-> {d \in T : f[d] = c}]
<1>5. \A x : Conditioning(x, k, nearest) = Model(training(x), cell(x))
  BY DEF Conditioning
<1> HIDE DEF training, cell, Model, p
<1> QED BY <1>3, <1>4, <1>5 DEF p

\* The cells in the order of their distance from each histogram.
AreNearest(nearest) ==
    \A h \in [Bins -> 0 .. Cardinality(Clients)] :
        nearest[h] \in Seq(Cells) /\ Cells \subseteq Range(nearest[h])

\* The context of an epoch is a histogram of clients.
LEMMA ContextsAreHistograms ==
    ASSUME NEW r, NEW k, NEW d, PanelContext(r, k, d) # Nothing
    PROVE  PanelContext(r, k, d) \in [Bins -> 0 .. Cardinality(Clients)]
<1> DEFINE outside == Clients \ MembersOf(k)
           before == RowBefore(CommonEpochs(r), d)
           Of(b) == {c \in outside : RankAt(r, c, before) = b}
<1>1. PanelContext(r, k, d) = [b \in Bins |-> Cardinality(Of(b))]
  BY DEF PanelContext, Histogram
<1>2. ASSUME NEW b PROVE Cardinality(Of(b)) \in 0 .. Cardinality(Clients)
  <2>1. Of(b) \subseteq Clients /\ IsFiniteSet(Clients)
    BY FitAssumption
  <2> HIDE DEF Of
  <2>2. /\ Cardinality(Of(b)) <= Cardinality(Clients)
        /\ Cardinality(Of(b)) \in Nat /\ Cardinality(Clients) \in Nat
    BY <2>1, FS_Subset, FS_CardinalityType
  <2> QED BY <2>2
<1> HIDE DEF Of
<1> QED BY <1>1, <1>2

\* A model has usable cells, each with references among the nuisance rows.
IsModel(r, model) ==
    /\ DOMAIN model \subseteq Cells /\ DOMAIN model # {}
    /\ \A cell \in DOMAIN model : model[cell] \subseteq NuisanceRows(r)

\* That is what is fitted.
LEMMA FittedIsModel ==
    ASSUME NEW r, NEW k, NEW nearest, Conditioning(r, k, nearest) # Nothing
    PROVE  IsModel(r, Conditioning(r, k, nearest))
<1> DEFINE training == {e \in NuisanceRows(r) : PanelContext(r, k, e) # Nothing}
           cell == [e \in training |-> nearest[PanelContext(r, k, e)][1]]
           usable == {c \in Cells : Cardinality({e \in training : cell[e] = c}) >= 2}
           model == [c \in usable |-> {e \in training : cell[e] = c}]
<1>1. Conditioning(r, k, nearest) = model /\ usable # {}
  BY DEF Conditioning
<1>2. training \subseteq NuisanceRows(r)
  OBVIOUS
<1> HIDE DEF training, cell
<1>3. DOMAIN model = usable /\ usable \subseteq Cells /\ \A c \in usable : model[c] \subseteq training
  OBVIOUS
<1> HIDE DEF model, usable
<1> QED BY <1>1, <1>2, <1>3 DEF IsModel

\* The nearest usable cell is one of its cells.
LEMMA NearestIsUsable ==
    ASSUME NEW model, NEW order \in Seq(Cells), Cells \subseteq Range(order),
           DOMAIN model \subseteq Cells, DOMAIN model # {}
    PROVE  NearestUsable(model, order) \in DOMAIN model
<1> DEFINE P == {i \in DOMAIN order : order[i] \in DOMAIN model}
<1>1. P # {}
  BY DEF Range
<1>2. P \subseteq Nat
  BY LenProperties
<1>3. Min(P) \in P
  <2> HIDE DEF P
  <2> QED BY <1>1, <1>2, LeastNumber
<1> QED BY <1>3 DEF NearestUsable

\* Nor do the ranks that are conditioned.
LEMMA PastConditioned ==
    ASSUME NEW r, AreRanks(r), Clients # {}, NEW e \in Int, NEW d \in CommonEpochs(r), d <= e,
           NEW k, NEW model, NEW nearest, IsModel(r, model), AreNearest(nearest),
           \A x \in NuisanceRows(r) : x <= e
    PROVE  ConditionedRanks(Past(r, e), k, model, nearest, d) = ConditionedRanks(r, k, model, nearest, d)
<1> DEFINE p == Past(r, e)
           context == PanelContext(r, k, d)
           cell == NearestUsable(model, nearest[context])
<1>1. d \in Int /\ PanelContext(p, k, d) = context
  BY CommonRanks, PastContext
<1>2. \A c \in Clients : \A x \in CommonEpochs(r) : x <= e => p[c][x] = r[c][x]
  BY CommonRanks, PastRanks
<1>3. MembersOf(k) \subseteq Clients
  BY DEF MembersOf, Smallest
<1> HIDE DEF p, context
<1>0. context # Nothing => \A x \in model[cell] : x \in CommonEpochs(r) /\ x <= e
  <2> SUFFICES ASSUME context # Nothing PROVE \A x \in model[cell] : x \in CommonEpochs(r) /\ x <= e
    OBVIOUS
  <2>1. nearest[context] \in Seq(Cells) /\ Cells \subseteq Range(nearest[context])
    BY ContextsAreHistograms DEF AreNearest, context
  <2>2. cell \in DOMAIN model
    BY <2>1, NearestIsUsable DEF IsModel
  <2>3. model[cell] \subseteq NuisanceRows(r)
    <3> HIDE DEF cell
    <3> QED BY <2>2 DEF IsModel
  <2> HIDE DEF cell
  <2> QED BY <2>3 DEF NuisanceRows
<1>4. context # Nothing => \A c \in MembersOf(k) : MidrankOf(p, c, d, model[cell]) = MidrankOf(r, c, d, model[cell])
  <2> SUFFICES ASSUME context # Nothing, NEW c \in MembersOf(k)
               PROVE  MidrankOf(p, c, d, model[cell]) = MidrankOf(r, c, d, model[cell])
    OBVIOUS
  <2>1. p[c][d] = r[c][d] /\ \A x \in model[cell] : p[c][x] = r[c][x]
    BY <1>0, <1>2, <1>3
  <2>2. /\ {x \in model[cell] : p[c][x] < p[c][d]} = {x \in model[cell] : r[c][x] < r[c][d]}
        /\ {x \in model[cell] : p[c][x] = p[c][d]} = {x \in model[cell] : r[c][x] = r[c][d]}
    BY <2>1
  <2> QED BY <2>2 DEF MidrankOf
<1> HIDE DEF cell
<1>5. context # Nothing =>
        [c \in MembersOf(k) |-> MidrankOf(p, c, d, model[cell])] = [c \in MembersOf(k) |-> MidrankOf(r, c, d, model[cell])]
  BY <1>4
<1> QED BY <1>1, <1>5 DEF ConditionedRanks, p, cell, context

-----------------------------------------------------------------------------
(***************************************************************************)
(* The CUSUM.                                                              *)
(***************************************************************************)
\* Induction over epochs: each from the one before it.
LEMMA EpochInduction ==
    ASSUME NEW E, E \subseteq Int, IsFiniteSet(E), NEW Good,
           \A e \in E : (RowBefore(E, e) # Nothing => RowBefore(E, e) \in Good) => e \in Good
    PROVE  E \subseteq Good
<1> SUFFICES ASSUME E \ Good # {} PROVE FALSE
  OBVIOUS
<1>1. IsFiniteSet(E \ Good) /\ E \ Good \subseteq Int
  BY FS_Subset
<1>2. PICK m \in E \ Good : \A x \in E \ Good : m <= x
  BY <1>1, LeastOfFinite
<1>3. m \in Int /\ m <= m /\ \A x \in E : x \in Int
  OBVIOUS
<1> DEFINE b == RowBefore(E, m)
<1>4. b # Nothing => b \in E /\ b < m
  BY <1>3, PastRowBefore
<1>5. \A x \in E : x < m => ~(m <= x)
  BY <1>3
<1>6. b # Nothing => b \in Good
  <2> HIDE DEF b
  <2> QED BY <1>2, <1>4, <1>5
<1> QED BY <1>2, <1>6

\* The place of an epoch among others.
Position(E, e) == Cardinality({d \in E : d <= e})

\* It is one more than that of the epoch before.
LEMMA PositionsFollow ==
    ASSUME NEW E, E \subseteq Int, IsFiniteSet(E), NEW e \in E
    PROVE  /\ Position(E, e) \in 1 .. Cardinality(E) /\ Cardinality(E) \in Nat
           /\ RowBefore(E, e) = Nothing => Position(E, e) = 1
           /\ RowBefore(E, e) # Nothing => Position(E, e) = Position(E, RowBefore(E, e)) + 1
<1> DEFINE Upto(x) == {d \in E : d <= x}
           B == {d \in E : d < e}
           b == RowBefore(E, e)
<1>1. \A x : IsFiniteSet(Upto(x)) /\ Cardinality(Upto(x)) \in Nat /\ Cardinality(Upto(x)) <= Cardinality(E)
  <2> TAKE x
  <2>1. Upto(x) \subseteq E
    OBVIOUS
  <2> HIDE DEF Upto
  <2> QED BY <2>1, FS_Subset, FS_CardinalityType
<1>2. e \in Int /\ e \in Upto(e) /\ Cardinality(E) \in Nat
  BY FS_CardinalityType
<1>3. IsFiniteSet(B) /\ B \subseteq Int /\ e \notin B /\ Upto(e) = B \cup {e}
  <2>1. IsFiniteSet(B)
    BY FS_Subset
  <2>2. \A d \in E : d <= e <=> d < e \/ d = e
    BY <1>2
  <2>3. ~(e < e)
    BY <1>2
  <2> QED BY <2>1, <2>2, <2>3
<1>4. Position(E, e) = Cardinality(B) + 1 /\ Cardinality(B) \in Nat
  <2> HIDE DEF B, Upto
  <2>1. Cardinality(Upto(e)) = Cardinality(B) + 1 /\ Cardinality(B) \in Nat
    BY <1>3, FS_AddElement, FS_CardinalityType
  <2> QED BY <2>1 DEF Position, Upto
<1>5. b = IF B # {} THEN Max(B) ELSE Nothing
  <2>1. (\E d \in E : d < e) <=> B # {}
    OBVIOUS
  <2> QED BY <2>1 DEF RowBefore
<1>6. ASSUME B # {} PROVE Max(B) \in B /\ Upto(Max(B)) = B /\ Max(B) # Nothing
  <2>1. Max(B) \in B /\ \A d \in B : d <= Max(B)
    <3> HIDE DEF B
    <3> QED BY <1>3, <1>6, FirstAndLast
  <2> DEFINE m == Max(B)
  <2>2. m \in Int /\ m < e
    BY <1>3, <2>1
  <2> HIDE DEF m
  <2>3. \A d \in E : d <= m => d < e
    BY <1>2, <2>2
  <2>4. Upto(m) = B
    BY <2>1, <2>3 DEF m
  <2> QED BY <2>1, <2>2, <2>4, ComparatorsAssumption DEF m
<1>7. Position(E, e) \in 1 .. Cardinality(E)
  <2>1. Position(E, e) <= Cardinality(E)
    BY <1>1 DEF Position
  <2> HIDE DEF B
  <2> QED BY <1>2, <1>4, <2>1
<1>8. b = Nothing => Position(E, e) = 1
  <2>1. b = Nothing => B = {}
    <3> HIDE DEF B, b
    <3> QED BY <1>5, <1>6
  <2>2. B = {} => Cardinality(B) = 0
    <3> HIDE DEF B
    <3> QED BY <1>3, FS_EmptySet
  <2> HIDE DEF B, b
  <2> QED BY <1>4, <2>1, <2>2
<1>9. b # Nothing => Position(E, e) = Position(E, b) + 1
  <2> SUFFICES ASSUME b # Nothing PROVE Position(E, e) = Position(E, b) + 1
    OBVIOUS
  <2>1. Upto(b) = B
    <3> HIDE DEF Upto, B
    <3> QED BY <1>5, <1>6
  <2>2. Position(E, b) = Cardinality(Upto(b))
    BY DEF Position
  <2> HIDE DEF B, b, Upto
  <2> QED BY <1>4, <2>1, <2>2
<1> QED BY <1>2, <1>7, <1>8, <1>9

\* No two epochs have the same.
LEMMA PositionsDiffer ==
    ASSUME NEW E, E \subseteq Int, IsFiniteSet(E), NEW d \in E, NEW e \in E, d < e
    PROVE  Position(E, d) # Position(E, e)
<1> DEFINE D == {x \in E : x <= d}
           U == {x \in E : x <= e}
<1>1. D \subseteq U /\ e \in U /\ e \notin D
  <2>1. \A x \in E : x <= d => x <= e
    OBVIOUS
  <2>2. ~(e <= d) /\ e <= e
    OBVIOUS
  <2> QED BY <2>1, <2>2
<1>2. IsFiniteSet(U)
  BY FS_Subset
<1> HIDE DEF D, U
<1>3. Cardinality(D) # Cardinality(U)
  BY <1>1, <1>2, FS_Subset
<1> QED BY <1>3 DEF Position, D, U

\* So an epoch is the row at its place.
LEMMA RowAtPosition ==
    ASSUME NEW E, E \subseteq Int, IsFiniteSet(E), NEW e \in E
    PROVE  /\ PanelRows(E)[Position(E, e)] = e
           /\ Len(PanelRows(E)) = Cardinality(E)
<1> DEFINE n == Cardinality(E)
           v(i) == CHOOSE d \in E : Cardinality({x \in E : x <= d}) = i
           S == {v(i) : i \in 1 .. n}
<1>1. n \in Nat /\ Position(E, e) \in 1 .. n
  BY PositionsFollow
<1>2. PanelRows(E) = [i \in 1 .. n |-> v(i)]
  BY DEF PanelRows
<1>3. v(Position(E, e)) = e
  <2>1. \A d \in E : Position(E, d) = Position(E, e) => d = e
    <3>1. \A d \in E : d \in Int /\ e \in Int
      OBVIOUS
    <3>2. \A d \in E : d < e \/ d = e \/ e < d
      BY <3>1
    <3> QED BY <3>2, PositionsDiffer
  <2>2. v(Position(E, e)) = CHOOSE d \in E : Position(E, d) = Position(E, e)
    BY DEF Position
  <2> QED BY <2>1, <2>2
<1>4. Len([i \in 1 .. n |-> v(i)]) = n
  <2>1. \A i \in 1 .. n : v(i) \in S
    OBVIOUS
  <2> HIDE DEF v, S, n
  <2>2. [i \in 1 .. n |-> v(i)] \in Seq(S) /\ Len([i \in 1 .. n |-> v(i)]) = n
    BY <1>1, <2>1
  <2> QED BY <2>2
<1> HIDE DEF v, n
<1> QED BY <1>1, <1>2, <1>3, <1>4 DEF n

\* The statistic before an epoch.
Reset(C, E, e) == IF RowBefore(E, e) = Nothing THEN 0 ELSE C[RowBefore(E, e)]

\* A statistic that follows the increments of an epoch and its value at the epoch before.
IsStatistic(C, E, g) ==
    /\ DOMAIN C = E
    /\ \A e \in E : C[e] = Max({0, Reset(C, E, e) + 2 * g[e] - Drift})

\* The CUSUM is one.
LEMMA CusumFollows ==
    ASSUME NEW E, E \subseteq Int, IsFiniteSet(E), NEW g
    PROVE  IsStatistic(Cusum(E, g), E, g)
<1> DEFINE ordered == PanelRows(E)
           n == Len(ordered)
           Step(f, i) == IF i = 0 THEN 0 ELSE Max({0, f[i - 1] + 2 * g[ordered[i]] - Drift})
           Upto(f, m) == f = [i \in 0 .. m |-> Step(f, i)]
           Reached == {m \in Nat : \E f : Upto(f, m)}
           state == CHOOSE f : f = [i \in 0 .. n |-> Step(f, i)]
           C == Cusum(E, g)
<1>1. C = [e \in E |-> state[Position(E, e)]]
  BY DEF Cusum, Position
<1> HIDE DEF ordered
<1>2. Nat \subseteq Reached
  <2>1. 0 \in Reached
    <3>1. Upto([i \in 0 .. 0 |-> 0], 0)
      OBVIOUS
    <3> QED BY <3>1
  <2>2. ASSUME NEW m \in Nat, m \in Reached PROVE m + 1 \in Reached
    <3>1. PICK f : Upto(f, m)
      BY <2>2
    <3> DEFINE h == [i \in 0 .. m + 1 |-> IF i = m + 1 THEN Step(f, i) ELSE f[i]]
    <3>2. \A i \in 0 .. m : f[i] = Step(f, i)
      <4> HIDE DEF Step
      <4> QED BY <3>1
    <3>3. \A i \in 0 .. m + 1 : i # 0 => h[i - 1] = f[i - 1]
      OBVIOUS
    <3>4. \A i \in 0 .. m + 1 : h[i] = Step(f, i)
      <4> HIDE DEF Step
      <4> QED BY <3>2
    <3>5. h = [i \in 0 .. m + 1 |-> h[i]]
      OBVIOUS
    <3> HIDE DEF h
    <3>6. \A i \in 0 .. m + 1 : Step(h, i) = Step(f, i)
      BY <3>3
    <3>7. Upto(h, m + 1)
      <4> HIDE DEF Step
      <4> QED BY <3>4, <3>5, <3>6
    <3> HIDE DEF Upto
    <3> QED BY <3>7
  <2> HIDE DEF Reached
  <2> QED BY <2>1, <2>2, AllNumbers
<1>3. (n \in Nat /\ n = Cardinality(E)) \/ E = {}
  <2> SUFFICES ASSUME NEW e \in E PROVE n \in Nat /\ n = Cardinality(E)
    OBVIOUS
  <2> QED BY RowAtPosition, PositionsFollow DEF ordered
<1>4. ASSUME NEW e \in E PROVE C[e] = Max({0, Reset(C, E, e) + 2 * g[e] - Drift})
  <2> DEFINE p == Position(E, e)
             b == RowBefore(E, e)
  <2>1. /\ n \in Nat /\ p \in 1 .. n /\ ordered[p] = e
        /\ b = Nothing => p = 1
        /\ b # Nothing => p = Position(E, b) + 1
    BY <1>3, PositionsFollow, RowAtPosition DEF ordered
  <2>2. b # Nothing => b \in E /\ Position(E, b) = p - 1
    <3>1. e \in Int /\ e <= e
      OBVIOUS
    <3>2. b # Nothing => b \in E
      BY <3>1, PastRowBefore
    <3>3. b # Nothing => Position(E, b) \in 1 .. Cardinality(E) /\ Cardinality(E) \in Nat
      BY <3>2, PositionsFollow
    <3> HIDE DEF b, p
    <3>4. b # Nothing => Position(E, b) \in Nat
      BY <3>3
    <3> QED BY <2>1, <3>2, <3>4
  <2>3. state = [i \in 0 .. n |-> Step(state, i)]
    <3>1. \E f : Upto(f, n)
      BY <1>2, <2>1
    <3> HIDE DEF Step
    <3> QED BY <3>1
  <2> HIDE DEF state, p, b
  <2>4. state[0] = 0 /\ state[p] = Max({0, state[p - 1] + 2 * g[ordered[p]] - Drift})
    <3>1. \A i \in 0 .. n : state[i] = Step(state, i)
      <4> HIDE DEF Step
      <4> QED BY <2>3
    <3>2. 0 \in 0 .. n /\ p \in 0 .. n /\ p # 0
      BY <2>1
    <3> QED BY <3>1, <3>2
  <2>5. C[e] = state[p]
    <3> HIDE DEF C
    <3> QED BY <1>1 DEF p
  <2>6. state[p - 1] = IF b = Nothing THEN 0 ELSE C[b]
    <3> HIDE DEF C
    <3>1. b = Nothing => p - 1 = 0
      BY <2>1
    <3>2. b # Nothing => C[b] = state[p - 1]
      BY <1>1, <2>2
    <3> QED BY <2>4, <3>1, <3>2
  <2> HIDE DEF C
  <2> QED BY <2>1, <2>4, <2>5, <2>6 DEF Reset, b
<1>5. DOMAIN C = E
  BY <1>1
<1> HIDE DEF C
<1> QED BY <1>4, <1>5 DEF IsStatistic, C

\* The larger of zero and a number.
LEMMA MaxWithZero ==
    ASSUME NEW x \in Int
    PROVE  Max({0, x}) = IF x > 0 THEN x ELSE 0
<1>1. Max({0, x}) = IF 0 >= x THEN 0 ELSE x
  BY MaxOfTwo
<1> QED BY <1>1

\* It is a number, and does not look ahead.
LEMMA CusumPast ==
    ASSUME NEW E, E \subseteq Int, IsFiniteSet(E), NEW g, NEW h, NEW e \in Int,
           \A d \in E : g[d] \in Int, \A d \in E : d <= e => h[d] = g[d]
    PROVE  /\ \A d \in E : Cusum(E, g)[d] \in Int
           /\ \A d \in E : d <= e => Cusum({x \in E : x <= e}, h)[d] = Cusum(E, g)[d]
<1> DEFINE L == {x \in E : x <= e}
           C == Cusum(E, g)
           K == Cusum(L, h)
           Good == {d \in E : C[d] \in Int}
           Same == {d \in E : d <= e => K[d] = C[d]}
<1>1. L \subseteq Int /\ IsFiniteSet(L)
  BY FS_Subset
<1>2. IsStatistic(C, E, g) /\ IsStatistic(K, L, h)
  <2> HIDE DEF L
  <2> QED BY <1>1, CusumFollows
<1>3. Drift \in Int /\ \A d \in E : d \in Int
  BY ComparatorsAssumption
<1> HIDE DEF C, K
<1>4. E \subseteq Good
  <2>1. ASSUME NEW d \in E, RowBefore(E, d) # Nothing => RowBefore(E, d) \in Good PROVE d \in Good
    <3>1. Reset(C, E, d) \in Int
      BY <2>1 DEF Reset
    <3> DEFINE x == Reset(C, E, d) + 2 * g[d] - Drift
    <3>2. x \in Int
      BY <1>3, <3>1
    <3>3. C[d] = Max({0, x})
      BY <1>2 DEF IsStatistic
    <3> HIDE DEF x
    <3>4. C[d] \in Int
      BY <3>2, <3>3, MaxWithZero
    <3> QED BY <3>4
  <2> HIDE DEF Good
  <2> QED BY <2>1, EpochInduction
<1>5. E \subseteq Same
  <2>1. ASSUME NEW d \in E, RowBefore(E, d) # Nothing => RowBefore(E, d) \in Same PROVE d \in Same
    <3> SUFFICES ASSUME d <= e PROVE K[d] = C[d]
      OBVIOUS
    <3>1. /\ RowBefore(L, d) = RowBefore(E, d)
          /\ RowBefore(E, d) # Nothing => RowBefore(E, d) \in E /\ RowBefore(E, d) < d
      BY <1>3, PastRowBefore
    <3> DEFINE b == RowBefore(E, d)
    <3> HIDE DEF b
    <3>6. d \in Int /\ b # Nothing => b \in E /\ b < d
      <4> HIDE DEF L
      <4> QED BY <3>1 DEF b
    <3>2. b # Nothing => b \in Int /\ b <= e
      <4> HIDE DEF L, Good, Same
      <4>1. d \in Int /\ e \in Int
        BY <1>3
      <4>2. b # Nothing => b \in Int /\ b < d
        BY <1>3, <3>6
      <4> QED BY <4>1, <4>2
    <3>3. b # Nothing => K[b] = C[b]
      BY <2>1, <3>2 DEF b
    <3>4. Reset(K, L, d) = Reset(C, E, d)
      <4> HIDE DEF L
      <4> QED BY <3>1, <3>3 DEF Reset, b
    <3>5. d \in L /\ h[d] = g[d]
      OBVIOUS
    <3> HIDE DEF L
    <3> QED BY <1>2, <3>4, <3>5 DEF IsStatistic
  <2> HIDE DEF Same
  <2> QED BY <2>1, EpochInduction
<1> QED BY <1>4, <1>5 DEF C, K

\* The row before an epoch is the last one before it.
LEMMA LastBefore ==
    ASSUME NEW E, E \subseteq Int, IsFiniteSet(E), NEW e \in Int
    PROVE  /\ RowBefore(E, e) = Nothing => \A d \in E : ~(d < e)
           /\ RowBefore(E, e) # Nothing =>
                /\ RowBefore(E, e) \in E /\ RowBefore(E, e) < e
                /\ \A d \in E : d < e => d <= RowBefore(E, e)
<1> DEFINE B == {d \in E : d < e}
<1>1. B \subseteq Int /\ IsFiniteSet(B)
  BY FS_Subset
<1>2. RowBefore(E, e) = IF B # {} THEN Max(B) ELSE Nothing
  <2>1. (\E d \in E : d < e) <=> B # {}
    OBVIOUS
  <2> QED BY <2>1 DEF RowBefore
<1>3. B # {} => Max(B) \in B /\ \A d \in B : d <= Max(B)
  <2> HIDE DEF B
  <2> QED BY <1>1, FirstAndLast
<1>4. B # {} => RowBefore(E, e) # Nothing
  <2> HIDE DEF B
  <2>1. B # {} => Max(B) \in Int
    BY <1>1, <1>3
  <2> QED BY <1>2, <2>1, ComparatorsAssumption
<1>5. RowBefore(E, e) = Nothing => B = {}
  BY <1>4
<1>6. ASSUME RowBefore(E, e) # Nothing
      PROVE  RowBefore(E, e) \in B /\ \A d \in B : d <= RowBefore(E, e)
  <2> HIDE DEF B
  <2> QED BY <1>2, <1>3, <1>6
<1>7. \A d \in E : d < e => d \in B
  OBVIOUS
<1>8. ASSUME RowBefore(E, e) # Nothing
      PROVE  RowBefore(E, e) \in E /\ RowBefore(E, e) < e
  BY <1>6, <1>8
<1> QED BY <1>5, <1>6, <1>7, <1>8

\* Sums over parts do not depend on the set that they are parts of.
LEMMA SumsAgree ==
    ASSUME NEW S, IsFiniteSet(S), NEW g, NEW I, Adds(I, S, g),
           NEW P \in SUBSET S, NEW h, NEW J, Adds(J, P, h), \A x \in P : h[x] = g[x]
    PROVE  J[P] = I[P]
<1> DEFINE X == {s \in SUBSET P : J[s] = I[s]}
<1>1. IsFiniteSet(P)
  BY FS_Subset
<1>2. {} \in X
  <2>1. {} \in SUBSET P /\ {} \in SUBSET S
    OBVIOUS
  <2>2. J[{}] = 0 /\ I[{}] = 0
    BY <2>1, Zenon DEF Adds
  <2> QED BY <2>2
<1>3. ASSUME NEW s \in SUBSET P, NEW x \in s, s \ {x} \in X PROVE s \in X
  <2>1. J[s] = h[x] + J[s \ {x}]
    BY DEF Adds
  <2>2. I[s] = g[x] + I[s \ {x}]
    BY DEF Adds
  <2>3. J[s \ {x}] = I[s \ {x}] /\ h[x] = g[x]
    BY <1>3
  <2> QED BY <2>1, <2>2, <2>3
<1> HIDE DEF X
<1>4. SUBSET P \subseteq X
  BY <1>1, <1>2, <1>3, AllParts
<1> QED BY <1>4 DEF X

\* The sum of the increments of some epochs.
Increments(P, q) == SumOver(P, LAMBDA d : 2 * q[d] - Drift)

\* It is a sum in any order.
LEMMA IncrementsAdd ==
    ASSUME NEW P, IsFiniteSet(P), NEW q, \A d \in P : q[d] \in Int
    PROVE  \E I : /\ Adds(I, P, [d \in P |-> 2 * q[d] - Drift])
                  /\ Increments(P, q) = I[P]
<1> DEFINE g == [d \in P |-> 2 * q[d] - Drift]
           Is(J) == J = [s \in SUBSET P |->
                            IF s = {} THEN 0
                            ELSE (2 * q[CHOOSE x \in s : TRUE] - Drift) + J[s \ {CHOOSE x \in s : TRUE}]]
           I == CHOOSE J : Is(J)
<1>1. Increments(P, q) = I[P]
  BY DEF Increments, SumOver, FoldSet, MapThenFoldSet
<1>2. \A J : Is(J) <=> IsSum(J, P, g)
  <2>1. \A s \in SUBSET P : s # {} => g[CHOOSE x \in s : TRUE] = 2 * q[CHOOSE x \in s : TRUE] - Drift
    OBVIOUS
  <2> HIDE DEF g
  <2> QED BY <2>1 DEF IsSum
<1>3. \A x \in P : g[x] \in Int
  BY ComparatorsAssumption
<1> HIDE DEF Is, g
<1>4. IsSum(I, P, g)
  <2>1. \E J : Is(J)
    BY <1>2, SumsExist
  <2>2. Is(I)
    BY <2>1
  <2> QED BY <1>2, <2>2
<1> HIDE DEF I
<1>5. Adds(I, P, g)
  BY <1>3, <1>4, SumsAdd
<1> QED BY <1>1, <1>5 DEF g

\* The epochs from one to another.
Stretch(E, from, e) == {d \in E : from <= d /\ d <= e}

\* What the sums over those that end at an epoch are.
Grows(E, e, g, I) ==
    /\ \A f \in Int : f > e => I[Stretch(E, f, e)] = 0
    /\ I[Stretch(E, e, e)] = g[e] /\ g[e] \in Int
    /\ RowBefore(E, e) # Nothing =>
         \A f \in E : f < e => I[Stretch(E, f, e)] = g[e] + I[Stretch(E, f, RowBefore(E, e))]

\* The sums over them grow by one increment from epoch to epoch.
LEMMA StretchesGrow ==
    ASSUME NEW E, E \subseteq Int, IsFiniteSet(E), NEW e \in E, NEW g, \A d \in E : g[d] \in Int,
           NEW I, Adds(I, E, g)
    PROVE  Grows(E, e, g, I)
<1> DEFINE b == RowBefore(E, e)
<1>1. e \in Int /\ \A d \in E : d \in Int
  OBVIOUS
<1>2. I[{}] = 0
  <2>1. {} \in SUBSET E
    OBVIOUS
  <2> QED BY <2>1, Zenon DEF Adds
<1>3. \A f \in Int : f > e => Stretch(E, f, e) = {}
  <2> TAKE f \in Int
  <2>1. f > e => \A d \in E : ~(f <= d /\ d <= e)
    BY <1>1
  <2> QED BY <2>1 DEF Stretch
<1>4. Stretch(E, e, e) = {} \cup {e}
  <2>1. \A d \in E : e <= d /\ d <= e <=> d = e
    BY <1>1
  <2> QED BY <2>1 DEF Stretch
<1>5. I[{} \cup {e}] = g[e] + I[{}]
  <2>1. {} \in SUBSET E /\ e \notin {}
    OBVIOUS
  <2> QED BY <2>1, OneMore
<1>6. g[e] \in Int
  OBVIOUS
<1>7. ASSUME b # Nothing, NEW f \in E, f < e PROVE I[Stretch(E, f, e)] = g[e] + I[Stretch(E, f, b)]
  <2>1. b \in E /\ b < e /\ \A d \in E : d < e => d <= b
    BY <1>1, <1>7, LastBefore
  <2> HIDE DEF b
  <2>2. Stretch(E, f, e) = Stretch(E, f, b) \cup {e}
    <3>1. b \in Int /\ f \in Int
      BY <1>1, <2>1
    <3>2. \A d \in E : d <= e <=> d <= b \/ d = e
      BY <1>1, <2>1, <3>1
    <3>3. f <= e
      BY <1>1, <1>7
    <3> QED BY <3>2, <3>3 DEF Stretch
  <2>3. e \notin Stretch(E, f, b) /\ Stretch(E, f, b) \in SUBSET E
    BY <1>1, <2>1 DEF Stretch
  <2> QED BY <2>2, <2>3, OneMore
<1>8. I[Stretch(E, e, e)] = g[e]
  <2> DEFINE x == g[e]
  <2>1. x \in Int /\ I[Stretch(E, e, e)] = x + 0
    BY <1>2, <1>4, <1>5, <1>6
  <2> HIDE DEF x
  <2>2. I[Stretch(E, e, e)] = x
    BY <2>1
  <2> QED BY <2>2 DEF x
<1>9. \A f \in Int : f > e => I[Stretch(E, f, e)] = 0
  BY <1>2, <1>3
<1>10. b # Nothing => \A f \in E : f < e => I[Stretch(E, f, e)] = g[e] + I[Stretch(E, f, b)]
  BY <1>7
<1> QED BY <1>6, <1>8, <1>9, <1>10 DEF Grows

\* The CUSUM is one of these sums, and none is larger.
LEMMA LargestRecentSum ==
    ASSUME NEW E, E \subseteq Int, IsFiniteSet(E), NEW q, \A d \in E : q[d] \in Int,
           NEW g, \A d \in E : g[d] = 2 * q[d] - Drift, NEW I, Adds(I, E, g), NEW e \in E
    PROVE  /\ Cusum(E, q)[e] \in Int
           /\ \E f \in E \cup {e + 1} : Cusum(E, q)[e] = I[Stretch(E, f, e)]
           /\ \A f \in E \cup {e + 1} : I[Stretch(E, f, e)] \in Int /\ I[Stretch(E, f, e)] <= Cusum(E, q)[e]
<1> DEFINE C == Cusum(E, q)
           Adding(f, d) == I[Stretch(E, f, d)]
           Holds(d) == /\ C[d] >= 0
                       /\ \E f \in E \cup {d + 1} : C[d] = Adding(f, d)
                       /\ \A f \in E \cup {d + 1} : Adding(f, d) <= C[d]
           Good == {d \in E : Holds(d)}
<1>0. \A d \in E : g[d] \in Int
  BY ComparatorsAssumption
<1>7. \A d \in E : Grows(E, d, g, I)
  BY <1>0, StretchesGrow
<1>1. \A d \in E : C[d] \in Int /\ d \in Int
  <2>1. \A d \in E : d <= e => q[d] = q[d]
    OBVIOUS
  <2>2. e \in Int
    OBVIOUS
  <2> QED BY <2>1, <2>2, CusumPast
<1>2. IsStatistic(C, E, q)
  BY CusumFollows
<1>3. \A f, d : Adding(f, d) \in Int
  <2>1. \A f, d : Stretch(E, f, d) \in SUBSET E
    BY DEF Stretch
  <2> QED BY <2>1 DEF Adds
<1> HIDE DEF C
<1>4. ASSUME NEW d \in E, RowBefore(E, d) # Nothing => RowBefore(E, d) \in Good PROVE d \in Good
  <2> DEFINE b == RowBefore(E, d)
             previous == Reset(C, E, d)
             x == previous + g[d]
  <2>1. d \in Int /\ d + 1 \in Int /\ d + 1 > d
    BY <1>1
  <2>2. /\ \A f \in Int : f > d => Adding(f, d) = 0
        /\ Adding(d, d) = g[d] /\ g[d] \in Int
        /\ b # Nothing => \A f \in E : f < d => Adding(f, d) = g[d] + Adding(f, b)
    BY <1>7 DEF Grows
  <2>3. /\ b = Nothing => \A f \in E : ~(f < d)
        /\ b # Nothing => b \in E /\ b < d /\ \A f \in E : f < d => f <= b
    BY <2>1, LastBefore
  <2>4. b # Nothing => /\ b \in E /\ C[b] >= 0
                       /\ \E f \in E \cup {b + 1} : C[b] = Adding(f, b)
                       /\ \A f \in E \cup {b + 1} : Adding(f, b) <= C[b]
    BY <1>4
  <2>5. previous = IF b = Nothing THEN 0 ELSE C[b]
    BY DEF Reset
  <2>6. b # Nothing => \A f \in Int : f > b => Adding(f, b) = 0
    <3> SUFFICES ASSUME b # Nothing PROVE \A f \in Int : f > b => Adding(f, b) = 0
      OBVIOUS
    <3>1. b \in E
      BY <2>3
    <3> HIDE DEF b
    <3> QED BY <1>7, <3>1 DEF Grows
  <2>7. previous \in Int /\ previous >= 0
    <3> HIDE DEF b, previous
    <3> QED BY <1>1, <2>3, <2>4, <2>5
  <2>8. C[d] = IF x > 0 THEN x ELSE 0
    <3>1. C[d] = Max({0, previous + 2 * q[d] - Drift})
      BY <1>2 DEF IsStatistic
    <3>2. previous + 2 * q[d] - Drift = x
      <4> DEFINE p == previous w == q[d]
      <4>1. p \in Int /\ w \in Int /\ Drift \in Int /\ g[d] = 2 * w - Drift
        BY <2>7, ComparatorsAssumption
      <4> HIDE DEF p, w
      <4>2. p + 2 * w - Drift = p + g[d]
        BY <4>1
      <4> QED BY <4>2 DEF p, w
    <3>3. x \in Int
      BY <2>2, <2>7
    <3> HIDE DEF x
    <3> QED BY <3>1, <3>2, <3>3, MaxWithZero
  <2> HIDE DEF b, previous, Sum, Holds
  <2>9. C[d] >= 0 /\ C[d] >= x /\ C[d] \in Int
    BY <1>1, <2>2, <2>7, <2>8
  <2>10. \E f \in E \cup {d + 1} : C[d] = Adding(f, d)
    <3>1. CASE ~(x > 0)
      <4>1. C[d] = 0 /\ Adding(d + 1, d) = 0
        BY <2>1, <2>2, <2>8, <3>1
      <4> QED BY <4>1
    <3>2. CASE x > 0 /\ previous = 0
      <4>1. C[d] = Adding(d, d)
        BY <2>2, <2>8, <3>2
      <4> QED BY <4>1
    <3>3. CASE x > 0 /\ previous # 0
      <4>1. b # Nothing /\ previous = C[b]
        BY <2>5, <3>3
      <4>2. PICK f \in E \cup {b + 1} : C[b] = Adding(f, b)
        BY <2>4, <4>1
      <4>3. b \in Int /\ b < d /\ b \in E
        BY <1>1, <2>3, <4>1
      <4>4. ~(f > b) /\ f \in Int
        <5>1. f \in Int
          BY <1>1, <4>3
        <5> QED BY <2>6, <3>3, <4>1, <4>2, <5>1
      <4>5. f \in E /\ f < d
        BY <2>1, <4>3, <4>4
      <4>6. Adding(f, d) = g[d] + Adding(f, b)
        BY <2>2, <4>1, <4>5
      <4>7. C[d] = Adding(f, d)
        BY <1>3, <2>2, <2>7, <2>8, <3>3, <4>1, <4>2, <4>6
      <4> QED BY <4>5, <4>7
    <3> QED BY <3>1, <3>2, <3>3
  <2>11. \A f \in E \cup {d + 1} : Adding(f, d) <= C[d]
    <3> SUFFICES ASSUME NEW f \in E \cup {d + 1} PROVE Adding(f, d) <= C[d]
      OBVIOUS
    <3>1. f \in Int
      BY <1>1, <2>1
    <3>2. CASE f > d
      BY <2>2, <2>9, <3>1, <3>2
    <3>3. CASE f = d
      BY <2>2, <2>7, <2>9, <3>3
    <3>4. CASE f < d
      <4>1. f \in E
        BY <2>1, <3>1, <3>4
      <4>2. b # Nothing /\ previous = C[b]
        BY <2>3, <2>5, <3>4, <4>1
      <4>3. Adding(f, d) = g[d] + Adding(f, b) /\ Adding(f, b) <= C[b]
        BY <2>2, <2>4, <3>4, <4>1, <4>2
      <4> DEFINE s == Adding(f, b) p == previous
      <4>4. s \in Int /\ p \in Int /\ g[d] \in Int /\ s <= p /\ Adding(f, d) = g[d] + s
        BY <1>3, <2>2, <2>7, <4>2, <4>3
      <4> HIDE DEF s, p
      <4>5. Adding(f, d) <= p + g[d]
        BY <4>4
      <4>6. p + g[d] <= C[d] /\ p + g[d] \in Int /\ Adding(f, d) \in Int
        BY <2>9, <4>4 DEF p
      <4> QED BY <2>9, <4>5, <4>6
    <3> QED BY <2>1, <3>1, <3>2, <3>3, <3>4
  <2> QED BY <2>9, <2>10, <2>11 DEF Holds
<1> HIDE DEF Good
<1>5. E \subseteq Good
  BY <1>4, EpochInduction
<1>6. Holds(e)
  BY <1>5 DEF Good
<1> QED BY <1>1, <1>3, <1>6 DEF C

-----------------------------------------------------------------------------
(***************************************************************************)
(* Scores and evidence read the past.                                      *)
(***************************************************************************)
\* Scores that are those of another up to an epoch.
AgreeUpto(past, now, e) ==
    /\ DOMAIN past = {d \in DOMAIN now : d <= e}
    /\ \A d \in DOMAIN past : past[d] = now[d]

\* The sum of the ranks of an epoch.
RankSum(r, d) == SumOver(Clients, LAMBDA c : r[c][d])

\* The sum over the clients is a matter of the ranks that are summed.
LEMMA RankSumsAgree ==
    ASSUME NEW p, NEW r, NEW d, \A c \in Clients : p[c][d] = r[c][d]
    PROVE  RankSum(p, d) = RankSum(r, d)
<1> DEFINE First(s) == CHOOSE c \in s : TRUE
           Body(J, x) == [s \in SUBSET Clients |-> IF s = {} THEN 0 ELSE x[First(s)][d] + J[s \ {First(s)}]]
           I(x) == CHOOSE J : J = Body(J, x)
<1>1. RankSum(p, d) = I(p)[Clients]
  BY DEF RankSum, SumOver, FoldSet, MapThenFoldSet
<1>2. RankSum(r, d) = I(r)[Clients]
  BY DEF RankSum, SumOver, FoldSet, MapThenFoldSet
<1>3. \A J : Body(J, p) = Body(J, r)
  <2>1. \A s \in SUBSET Clients : s # {} => p[First(s)][d] = r[First(s)][d]
    <3>1. \A s \in SUBSET Clients : s # {} => First(s) \in Clients
      OBVIOUS
    <3> HIDE DEF First
    <3> QED BY <3>1
  <2> HIDE DEF First
  <2> QED BY <2>1
<1> HIDE DEF Body
<1>4. I(p) = I(r)
  BY <1>3
<1> QED BY <1>1, <1>2, <1>4

\* There are scores at common epochs only.
LEMMA ScoredEpochsAreCommon ==
    ASSUME NEW r, NEW method, NEW nearest
    PROVE  DOMAIN EpochScores(r, method, nearest) \subseteq CommonEpochs(r)
<1> DEFINE E == CommonEpochs(r)
           m == Conditioning(r, NativeOrder[method], nearest)
           given == [e \in E |-> ConditionedRanks(r, NativeOrder[method], m, nearest, e)]
           f == [e \in {d \in NuisanceRows(r) : given[d] # Nothing} |-> given[e]]
           scores == [e \in {d \in E : given[d] # Nothing} |-> <<given[e], f>>]
<1>1. CASE method \in {"mean", "max", "cusum"}
  <2>1. DOMAIN EpochScores(r, method, nearest) = E
    BY <1>1 DEF EpochScores
  <2> QED BY <2>1
<1>2. CASE method \notin {"mean", "max", "cusum"}
  <2>1. EpochScores(r, method, nearest) = IF m = Nothing THEN <<>> ELSE scores
    BY <1>2 DEF EpochScores
  <2>2. DOMAIN scores \subseteq E /\ DOMAIN <<>> = {}
    OBVIOUS
  <2> HIDE DEF scores, m
  <2> QED BY <2>1, <2>2
<1> QED BY <1>1, <1>2

\* The scores of the methods that condition on nothing do not look ahead.
LEMMA PastPlainScores ==
    ASSUME NEW r, AreRanks(r), Clients # {}, NEW e \in Int, NEW nearest,
           NEW method \in {"mean", "max", "cusum"}
    PROVE  AgreeUpto(EpochScores(Past(r, e), method, nearest), EpochScores(r, method, nearest), e)
<1> DEFINE p == Past(r, e)
           E == CommonEpochs(r)
           L == CommonEpochs(p)
<1>1. L = {d \in E : d <= e} /\ E \subseteq Int /\ IsFiniteSet(E)
  BY PastIsOfRanks, CommonRanks, CommonAreFinite
<1>2. \A c \in Clients : \A d \in E : d <= e => p[c][d] = r[c][d]
  BY CommonRanks, PastRanks
<1>3. \A c \in Clients : \A d \in E : r[c][d] \in Int
  BY CommonRanks
<1> HIDE DEF E, L, p
<1>4. CASE method = "mean"
  <2> DEFINE f(d) == RankSum(p, d)
             g(d) == RankSum(r, d)
  <2>1. EpochScores(p, method, nearest) = [d \in L |-> f(d)]
    BY <1>4 DEF EpochScores, L, RankSum
  <2>2. EpochScores(r, method, nearest) = [d \in E |-> g(d)]
    BY <1>4 DEF EpochScores, E, RankSum
  <2>3. \A d \in L : f(d) = g(d)
    <3> TAKE d \in L
    <3>1. \A c \in Clients : p[c][d] = r[c][d]
      BY <1>1, <1>2
    <3> QED BY <3>1, RankSumsAgree
  <2> HIDE DEF f, g
  <2> QED BY <1>1, <2>1, <2>2, <2>3 DEF AgreeUpto, p, E
<1>5. CASE method = "max"
  <2> DEFINE f(d) == Max({p[c][d] : c \in Clients})
             g(d) == Max({r[c][d] : c \in Clients})
  <2>1. EpochScores(p, method, nearest) = [d \in L |-> f(d)]
    BY <1>5 DEF EpochScores, L
  <2>2. EpochScores(r, method, nearest) = [d \in E |-> g(d)]
    BY <1>5 DEF EpochScores, E
  <2>3. \A d \in L : f(d) = g(d)
    <3> TAKE d \in L
    <3>1. \A c \in Clients : p[c][d] = r[c][d]
      BY <1>1, <1>2
    <3>2. {p[c][d] : c \in Clients} = {r[c][d] : c \in Clients}
      BY <3>1
    <3> QED BY <3>2
  <2> HIDE DEF f, g
  <2> QED BY <1>1, <2>1, <2>2, <2>3 DEF AgreeUpto, p, E
<1>6. CASE method = "cusum"
  <2> DEFINE C(c) == Cusum(L, p[c])
             K(c) == Cusum(E, r[c])
             f(d) == Max({C(c)[d] : c \in Clients})
             g(d) == Max({K(c)[d] : c \in Clients})
  <2>1. EpochScores(p, method, nearest) = [d \in L |-> f(d)]
    <3>1. EpochScores(p, method, nearest)
            = [d \in CommonEpochs(p) |-> Max({[x \in Clients |-> Cusum(CommonEpochs(p), p[x])][c][d] : c \in Clients})]
      BY <1>6 DEF EpochScores
    <3>2. \A c \in Clients : [x \in Clients |-> C(x)][c] = C(c)
      OBVIOUS
    <3> HIDE DEF C
    <3> QED BY <3>1, <3>2 DEF L, C
  <2>2. EpochScores(r, method, nearest) = [d \in E |-> g(d)]
    <3>1. EpochScores(r, method, nearest)
            = [d \in CommonEpochs(r) |-> Max({[x \in Clients |-> Cusum(CommonEpochs(r), r[x])][c][d] : c \in Clients})]
      BY <1>6 DEF EpochScores
    <3>2. \A c \in Clients : [x \in Clients |-> K(x)][c] = K(c)
      OBVIOUS
    <3> HIDE DEF K
    <3> QED BY <3>1, <3>2 DEF E, K
  <2>3. \A c \in Clients : \A d \in L : C(c)[d] = K(c)[d]
    <3> TAKE c \in Clients
    <3>1. \A d \in E : d <= e => K(c)[d] = Cusum({x \in E : x <= e}, p[c])[d]
      BY <1>1, <1>2, <1>3, CusumPast
    <3> HIDE DEF K
    <3> QED BY <1>1, <3>1
  <2>4. \A d \in L : f(d) = g(d)
    <3> TAKE d \in L
    <3> HIDE DEF C, K
    <3>1. {C(c)[d] : c \in Clients} = {K(c)[d] : c \in Clients}
      BY <2>3
    <3> QED BY <3>1
  <2> HIDE DEF f, g
  <2> QED BY <1>1, <2>1, <2>2, <2>4 DEF AgreeUpto, p, E
<1> QED BY <1>4, <1>5, <1>6 DEF p, E

\* Nor do those that are conditioned, once everything is fitted.
LEMMA PastConditionedScores ==
    ASSUME NEW r, AreRanks(r), Clients # {}, NEW e, After(e, Range(Nuisance)), NEW nearest,
           AreNearest(nearest), NEW method, method \notin {"mean", "max", "cusum"}
    PROVE  AgreeUpto(EpochScores(Past(r, e), method, nearest), EpochScores(r, method, nearest), e)
<1> DEFINE p == Past(r, e)
           k == NativeOrder[method]
           E == CommonEpochs(r)
           L == CommonEpochs(p)
           N == NuisanceRows(r)
           model == Conditioning(r, k, nearest)
           conditioned(x, d) == ConditionedRanks(x, k, model, nearest, d)
           fitted(x) == [d \in {y \in N : conditioned(x, y) # Nothing} |-> conditioned(x, d)]
           scores(x, D) == IF model = Nothing THEN <<>>
                           ELSE [d \in {y \in D : conditioned(x, y) # Nothing} |-> <<conditioned(x, d), fitted(x)>>]
<1>1. e \in Int /\ L = {d \in E : d <= e} /\ E \subseteq Int
  BY PastIsOfRanks, CommonRanks DEF After
<1>2. Conditioning(p, k, nearest) = model
  BY PastConditioning
<1>3. NuisanceRows(p) = N /\ N \subseteq E /\ N \subseteq L /\ \A d \in N : d <= e
  <2>1. NuisanceRows(p) = N /\ \A d \in N : d <= e
    BY PastNuisance
  <2>2. N \subseteq E
    BY DEF NuisanceRows
  <2> HIDE DEF N, E, L
  <2> QED BY <1>1, <2>1, <2>2
<1> DEFINE Of(x, m, D, M) ==
             LET given == [d \in D |-> ConditionedRanks(x, k, m, nearest, d)]
                 f == [d \in {y \in M : given[y] # Nothing} |-> given[d]]
             IN  IF m = Nothing THEN <<>>
                 ELSE [d \in {y \in D : given[y] # Nothing} |-> <<given[d], f>>]
<1>4. \A x : EpochScores(x, method, nearest)
               = Of(x, Conditioning(x, k, nearest), CommonEpochs(x), NuisanceRows(x))
  BY DEF EpochScores
<1>5. \A x : NuisanceRows(x) \subseteq CommonEpochs(x)
  BY DEF NuisanceRows
<1>6. EpochScores(r, method, nearest) = scores(r, E)
  <2> DEFINE given == [d \in E |-> conditioned(r, d)]
             f == [d \in {y \in N : given[y] # Nothing} |-> given[d]]
  <2>1. EpochScores(r, method, nearest)
          = IF model = Nothing THEN <<>>
            ELSE [d \in {y \in E : given[y] # Nothing} |-> <<given[d], f>>]
    <3>1. EpochScores(r, method, nearest) = Of(r, model, E, N)
      <4> HIDE DEF Of
      <4> QED BY <1>4
    <3> QED BY <3>1
  <2>2. \A d \in E : given[d] = conditioned(r, d)
    OBVIOUS
  <2> HIDE DEF conditioned, given, model, E, N
  <2>3. f = fitted(r)
    BY <1>3, <2>2
  <2> HIDE DEF f, fitted
  <2> QED BY <2>1, <2>2, <2>3
<1>7. EpochScores(p, method, nearest) = scores(p, L)
  <2> DEFINE given == [d \in L |-> conditioned(p, d)]
             f == [d \in {y \in N : given[y] # Nothing} |-> given[d]]
  <2>1. EpochScores(p, method, nearest)
          = IF model = Nothing THEN <<>>
            ELSE [d \in {y \in L : given[y] # Nothing} |-> <<given[d], f>>]
    <3>1. EpochScores(p, method, nearest) = Of(p, model, L, N)
      <4> HIDE DEF Of, model, N, p
      <4> QED BY <1>2, <1>3, <1>4
    <3> HIDE DEF p, model, N, L
    <3> QED BY <3>1
  <2>2. \A d \in L : given[d] = conditioned(p, d)
    OBVIOUS
  <2> HIDE DEF conditioned, given, model, L, N
  <2>3. f = fitted(p)
    BY <1>3, <2>2
  <2> HIDE DEF f, fitted
  <2> QED BY <2>1, <2>2, <2>3
<1>8. model # Nothing => \A d \in L : conditioned(p, d) = conditioned(r, d)
  <2> SUFFICES ASSUME model # Nothing PROVE \A d \in L : conditioned(p, d) = conditioned(r, d)
    OBVIOUS
  <2>1. IsModel(r, model)
    BY FittedIsModel
  <2> TAKE d \in L
  <2>2. d \in E /\ d <= e
    BY <1>1
  <2> HIDE DEF model
  <2> QED BY <1>1, <1>3, <2>1, <2>2, PastConditioned
<1> HIDE DEF conditioned, model, p, E, L, N
<1>9. ASSUME model # Nothing PROVE fitted(p) = fitted(r)
  BY <1>3, <1>8, <1>9
<1>10. AgreeUpto(scores(p, L), scores(r, E), e) /\ DOMAIN scores(r, E) \subseteq E
  <2>1. CASE model = Nothing
    <3>1. scores(p, L) = <<>> /\ scores(r, E) = <<>> /\ DOMAIN <<>> = {}
      BY <2>1
    <3> HIDE DEF scores
    <3> QED BY <3>1 DEF AgreeUpto
  <2>2. CASE model # Nothing
    <3> HIDE DEF fitted
    <3>1. DOMAIN scores(p, L) = {y \in L : conditioned(p, y) # Nothing}
      BY <2>2
    <3>2. DOMAIN scores(r, E) = {y \in E : conditioned(r, y) # Nothing}
      BY <2>2
    <3>3. \A d \in DOMAIN scores(p, L) : scores(p, L)[d] = <<conditioned(p, d), fitted(p)>>
      BY <2>2
    <3>4. \A d \in DOMAIN scores(r, E) : scores(r, E)[d] = <<conditioned(r, d), fitted(r)>>
      BY <2>2
    <3> HIDE DEF scores
    <3>5. DOMAIN scores(p, L) = {d \in DOMAIN scores(r, E) : d <= e}
      BY <1>1, <1>8, <2>2, <3>1, <3>2
    <3>6. \A d \in DOMAIN scores(p, L) : scores(p, L)[d] = scores(r, E)[d]
      BY <1>8, <1>9, <2>2, <3>1, <3>3, <3>4, <3>5
    <3> QED BY <3>2, <3>5, <3>6 DEF AgreeUpto
  <2> QED BY <2>1, <2>2
<1> QED BY <1>6, <1>7, <1>10 DEF p, E

\* Evidence is computed from a score and those of the nuisance epochs.
LEMMA PastEvidence ==
    ASSUME NEW past, NEW now, NEW e, After(e, Range(Nuisance)), AgreeUpto(past, now, e),
           DOMAIN now \subseteq Int, NEW standardized,
           ~EvidenceFails(now), e \in DOMAIN EvidenceScores(now, standardized)
    PROVE  /\ ~EvidenceFails(past)
           /\ e \in DOMAIN EvidenceScores(past, standardized)
           /\ EvidenceScores(past, standardized)[e] = EvidenceScores(now, standardized)[e]
<1> DEFINE nuisance(x) == [d \in DOMAIN x \cap Range(Nuisance) |-> x[d]]
           Absent(x) == ~standardized /\ Cardinality(Range(nuisance(x))) = 1
           E(x) == EvidenceScores(x, standardized)
<1>1. \A x : ~EvidenceFails(x) =>
          E(x) = IF Absent(x) THEN <<>> ELSE [d \in DOMAIN x |-> <<x[d], nuisance(x)>>]
  BY DEF EvidenceScores
<1>2. /\ DOMAIN past \cap Range(Nuisance) = DOMAIN now \cap Range(Nuisance)
      /\ nuisance(past) = nuisance(now)
  <2>1. \A d \in DOMAIN now \cap Range(Nuisance) : d <= e
    BY DEF After
  <2>2. DOMAIN past \cap Range(Nuisance) = DOMAIN now \cap Range(Nuisance)
    BY <2>1 DEF AgreeUpto
  <2>3. \A d \in DOMAIN past \cap Range(Nuisance) : past[d] = now[d]
    BY DEF AgreeUpto
  <2> QED BY <2>2, <2>3
<1> HIDE DEF nuisance
<1>3. Absent(past) = Absent(now)
  BY <1>2
<1> HIDE DEF Absent, E
<1>4. ~Absent(now) /\ e \in DOMAIN now
  <2>1. DOMAIN <<>> = {}
    OBVIOUS
  <2> QED BY <1>1, <2>1 DEF E
<1>5. e \in DOMAIN past /\ past[e] = now[e] /\ ~EvidenceFails(past)
  <2>1. e \in Int /\ e <= e
    BY DEF After
  <2>2. ~EvidenceFails(past)
    BY <1>2, <1>4 DEF EvidenceFails
  <2> QED BY <1>4, <2>1, <2>2 DEF AgreeUpto
<1>6. E(past) = [d \in DOMAIN past |-> <<past[d], nuisance(past)>>]
  BY <1>1, <1>3, <1>4, <1>5
<1>7. E(now) = [d \in DOMAIN now |-> <<now[d], nuisance(now)>>]
  BY <1>1, <1>4
<1> QED BY <1>2, <1>4, <1>5, <1>6, <1>7 DEF E

-----------------------------------------------------------------------------
(***************************************************************************)
(* The context of the comparators is that of EMHI.                         *)
(***************************************************************************)
\* No clients at all are never enough.
LEMMA NobodyIsTooFew == RequiredOutside(0) >= 1 /\ RequiredOutside(0) \in Int
<1> DEFINE a == OutsideShare[1]
           b == OutsideShare[2]
           x == (a * 0 + b - 1) \div b
<1>1. MinimumOutside \in Nat \ {0} /\ a \in Nat /\ b \in Nat \ {0}
  BY FitAssumption
<1>2. x \in Int
  <2> HIDE DEF a, b
  <2>1. a * 0 = 0
    BY <1>1
  <2>2. a * 0 + b - 1 \in Int
    BY <1>1, <2>1
  <2> QED BY <1>1, <2>2
<1>3. RequiredOutside(0) = Max({MinimumOutside, x})
  BY DEF RequiredOutside
<1> HIDE DEF x
<1>4. MinimumOutside \in Int /\ MinimumOutside >= 1
  BY <1>1
<1>5. RequiredOutside(0) = IF MinimumOutside >= x THEN MinimumOutside ELSE x
  BY <1>2, <1>3, <1>4, MaxOfTwo
<1> QED BY <1>2, <1>4, <1>5

\* Where the epoch of the lag has a row, the panel gives the context of EMHI.
LEMMA ContextsAgree ==
    ASSUME NEW r, AreRanks(r), NEW k, NEW e \in CommonEpochs(r), e - Lag \in CommonEpochs(r)
    PROVE  PanelContext(r, k, e)
             = ContextRow(r, "exact", MembersOf(k), e, LaggedEpoch({e}), Nothing)
<1> DEFINE E == CommonEpochs(r)
           outside == Clients \ MembersOf(k)
           before == RowBefore(E, e)
           n == Cardinality(outside)
<1>1. Lag = 1 /\ Nothing \notin Int
  BY ComparatorsAssumption
<1>2. e \in Int /\ e - 1 \in E /\ e - 1 \in Int /\ E \subseteq Int /\ IsFiniteSet(E)
  BY <1>1, CommonRanks, CommonAreFinite
<1>3. before = e - 1 /\ before # Nothing
  <2> DEFINE d == e - 1
  <2>1. d \in E /\ d \in Int /\ d < e /\ d + 1 = e
    BY <1>2
  <2> HIDE DEF d, E
  <2>2. before # Nothing
    BY <1>2, <2>1, LastBefore
  <2>3. before \in E /\ before < e /\ d <= before
    BY <1>2, <2>1, <2>2, LastBefore
  <2> HIDE DEF before
  <2>4. before \in Int
    BY <1>2, <2>3
  <2>5. before = d
    BY <1>2, <2>1, <2>3, <2>4
  <2> QED BY <2>2, <2>5 DEF d
<1>4. Available(r, outside, e - 1) = outside
  <2>1. \A c \in outside : RankAt(r, c, e - 1) # Nothing
    BY <1>2 DEF CommonEpochs
  <2> HIDE DEF outside
  <2> QED BY <2>1 DEF Available
<1>5. ContextRow(r, "exact", MembersOf(k), e, LaggedEpoch({e}), Nothing)
        = IF n < RequiredOutside(n) THEN Nothing ELSE Histogram(r, outside, e - 1)
  <2>1. ContextMembers("exact", MembersOf(k)) = outside
    BY DEF ContextMembers
  <2>2. LaggedEpoch({e})[e] = e - 1
    BY <1>1 DEF LaggedEpoch
  <2> HIDE DEF outside
  <2> QED BY <1>4, <2>1, <2>2 DEF ContextRow
<1>6. PanelContext(r, k, e)
        = IF outside = {} \/ n < RequiredOutside(n) THEN Nothing ELSE Histogram(r, outside, e - 1)
  <2> HIDE DEF before
  <2>1. PanelContext(r, k, e)
          = IF before = Nothing \/ outside = {} \/ n < RequiredOutside(n)
            THEN Nothing ELSE Histogram(r, outside, before)
    BY DEF PanelContext, before
  <2> QED BY <1>3, <2>1
<1>7. outside = {} => n < RequiredOutside(n)
  <2>1. outside = {} => n = 0
    BY FS_EmptySet
  <2> HIDE DEF n, outside
  <2> QED BY <2>1, NobodyIsTooFew
<1> HIDE DEF n, outside
<1> QED BY <1>5, <1>6, <1>7

-----------------------------------------------------------------------------
(***************************************************************************)
(* The backend of the comparators.                                         *)
(***************************************************************************)
\* The states of some factors over the epochs of a horizon.
Accrues(state, f, epochs) ==
    state = [i \in 0 .. Len(epochs) |->
                IF i = 0 THEN 0
                ELSE IF epochs[i] \in DOMAIN f THEN NextState(state[i - 1], f[epochs[i]])
                ELSE state[i - 1]]

Accrued(f, epochs) == CHOOSE state : Accrues(state, f, epochs)

\* Where they reach a threshold.
Reaches(f, epochs, h) == {i \in DOMAIN epochs : epochs[i] \in DOMAIN f /\ Accrued(f, epochs)[i] >= h}

\* A comparator stops there.
LEMMA StopsWhereReached ==
    ASSUME NEW f, NEW epochs, NEW h
    PROVE  ComparatorStop(f, epochs, h)
             = IF Reaches(f, epochs, h) = {} THEN Nothing ELSE epochs[Min(Reaches(f, epochs, h))]
BY DEF ComparatorStop, Reaches, Accrued, Accrues

\* The factors with a one where there is none.
Filled(f, epochs) == [e \in Range(epochs) |-> IF e \in DOMAIN f THEN f[e] ELSE Whole]

\* EMHI stops where a comparator would that has a score at every epoch.
LEMMA EmhiStopsAsFilled ==
    ASSUME NEW f, NEW epochs, NEW h, DOMAIN epochs = 1 .. Len(epochs), Len(epochs) \in Nat
    PROVE  EmhiStop(f, epochs, h) = ComparatorStop(Filled(f, epochs), epochs, h)
<1> DEFINE n == Len(epochs)
           F == Filled(f, epochs)
           factor(e) == IF e \in DOMAIN f THEN f[e] ELSE Whole
           Body(J) == [i \in 0 .. n |-> IF i = 0 THEN 0 ELSE NextState(J[i - 1], factor(epochs[i]))]
           Other(J) == [i \in 0 .. n |-> IF i = 0 THEN 0
                                         ELSE IF epochs[i] \in DOMAIN F THEN NextState(J[i - 1], F[epochs[i]])
                                         ELSE J[i - 1]]
           state == CHOOSE J : J = Body(J)
           stops == {i \in DOMAIN epochs : state[i] >= h}
<1>1. EmhiStop(f, epochs, h) = IF stops = {} THEN Nothing ELSE epochs[Min(stops)]
  BY DEF EmhiStop
<1>2. \A i \in 1 .. n : epochs[i] \in DOMAIN F /\ F[epochs[i]] = factor(epochs[i])
  BY DEF Filled, Range
<1>3. \A J : Body(J) = Other(J)
  <2> HIDE DEF F, factor
  <2>1. \A i \in 0 .. n : i # 0 => i \in 1 .. n
    OBVIOUS
  <2> QED BY <1>2, <2>1
<1>4. Accrued(F, epochs) = CHOOSE J : J = Other(J)
  BY DEF Accrued, Accrues
<1> HIDE DEF Body, Other
<1>5. state = Accrued(F, epochs)
  BY <1>3, <1>4
<1> HIDE DEF state, F
<1>6. stops = Reaches(F, epochs, h)
  BY <1>2, <1>5 DEF Reaches
<1> HIDE DEF stops
<1> QED BY <1>1, <1>6, StopsWhereReached DEF F

\* Quotients keep the order.
LEMMA QuotientsKeepOrder ==
    ASSUME NEW a \in Nat, NEW b \in Nat, a <= b, NEW w \in Nat \ {0}
    PROVE  a \div w \in Nat /\ b \div w \in Nat /\ a \div w <= b \div w
<1> DEFINE p == a \div w q == b \div w
<1>1. /\ p \in Int /\ w * p <= a /\ a < w * p + w
      /\ q \in Int /\ w * q <= b /\ b < w * q + w
  BY Z3
<1> HIDE DEF p, q
<1>2. p >= 0 /\ q >= 0
  BY <1>1, Z3
<1>3. p <= q
  <2> SUFFICES ASSUME q + 1 <= p PROVE FALSE
    BY <1>1
  <2>1. w * (q + 1) <= w * p
    BY <1>1, Z3
  <2>2. w * (q + 1) = w * q + w
    BY <1>1, Z3
  <2> DEFINE x == w * q y == w * p z == w * (q + 1)
  <2>3. x \in Int /\ y \in Int /\ z \in Int
    BY <1>1, Z3
  <2> HIDE DEF x, y, z
  <2>4. z <= y /\ z = x + w /\ y <= a /\ b < x + w
    BY <1>1, <2>1, <2>2 DEF x, y, z
  <2> QED BY <2>3, <2>4
<1>4. p \in Nat /\ q \in Nat
  BY <1>1, <1>2
<1> QED BY <1>3, <1>4 DEF p, q

\* A larger state stays larger, and a factor of one adds to it.
LEMMA NextStateKeepsOrder ==
    ASSUME NEW s \in Nat, NEW t \in Nat, s <= t, NEW k \in Nat
    PROVE  /\ NextState(s, k) \in Nat /\ NextState(t, k) \in Nat /\ NextState(s, k) <= NextState(t, k)
           /\ t <= NextState(t, Whole)
<1>1. Whole \in Nat \ {0}
  BY ComparatorsAssumption
<1> DEFINE a == (s + Whole) * k b == (t + Whole) * k
<1>2. a \in Nat /\ b \in Nat /\ a <= b
  <2> DEFINE x == s + Whole y == t + Whole
  <2>1. x \in Nat /\ y \in Nat /\ x <= y
    BY <1>1
  <2> HIDE DEF x, y
  <2>2. x * k \in Nat /\ y * k \in Nat /\ x * k <= y * k
    BY <2>1, Z3
  <2> QED BY <2>2 DEF x, y
<1> HIDE DEF a, b
<1>3. a \div Whole \in Nat /\ b \div Whole \in Nat /\ a \div Whole <= b \div Whole
  BY <1>1, <1>2, QuotientsKeepOrder
<1>4. ((t + Whole) * Whole) \div Whole = t + Whole
  <2> DEFINE y == t + Whole w == Whole
  <2>1. y \in Nat /\ w \in Nat \ {0}
    BY <1>1
  <2> HIDE DEF y, w
  <2>2. (y * w) \div w = y
    BY <2>1, Z3
  <2> QED BY <2>2 DEF y, w
<1>5. t <= NextState(t, Whole)
  BY <1>1, <1>4 DEF NextState
<1> QED BY <1>3, <1>5 DEF NextState, a, b

\* The states exist, and are numbers.
LEMMA StatesFollow ==
    ASSUME NEW f, \A e \in DOMAIN f : f[e] \in Nat, NEW epochs, Len(epochs) \in Nat
    PROVE  LET s == Accrued(f, epochs)
           IN  /\ s[0] = 0 /\ \A i \in 0 .. Len(epochs) : s[i] \in Nat
               /\ \A i \in 1 .. Len(epochs) :
                    s[i] = IF epochs[i] \in DOMAIN f THEN NextState(s[i - 1], f[epochs[i]]) ELSE s[i - 1]
<1> DEFINE n == Len(epochs)
           Step(J, i) == IF i = 0 THEN 0
                         ELSE IF epochs[i] \in DOMAIN f THEN NextState(J[i - 1], f[epochs[i]])
                         ELSE J[i - 1]
           Upto(J, m) == J = [i \in 0 .. m |-> Step(J, i)]
           Known == {m \in Nat : \E J : Upto(J, m)}
           s == Accrued(f, epochs)
<1>1. Nat \subseteq Known
  <2>1. 0 \in Known
    <3>1. Upto([i \in 0 .. 0 |-> 0], 0)
      OBVIOUS
    <3> QED BY <3>1
  <2>2. ASSUME NEW m \in Nat, m \in Known PROVE m + 1 \in Known
    <3>1. PICK J : Upto(J, m)
      BY <2>2
    <3> DEFINE K == [i \in 0 .. m + 1 |-> IF i = m + 1 THEN Step(J, i) ELSE J[i]]
    <3>2. \A i \in 0 .. m : J[i] = Step(J, i)
      <4> HIDE DEF Step
      <4> QED BY <3>1
    <3>3. \A i \in 0 .. m + 1 : i # 0 => K[i - 1] = J[i - 1]
      OBVIOUS
    <3>4. \A i \in 0 .. m + 1 : K[i] = Step(J, i)
      <4> HIDE DEF Step
      <4> QED BY <3>2
    <3>5. K = [i \in 0 .. m + 1 |-> K[i]]
      OBVIOUS
    <3> HIDE DEF K
    <3>6. \A i \in 0 .. m + 1 : Step(K, i) = Step(J, i)
      BY <3>3
    <3>7. Upto(K, m + 1)
      <4> HIDE DEF Step
      <4> QED BY <3>4, <3>5, <3>6
    <3> HIDE DEF Upto
    <3> QED BY <3>7
  <2> HIDE DEF Known
  <2> QED BY <2>1, <2>2, AllNumbers
<1>2. s = CHOOSE J : Upto(J, n)
  BY DEF Accrued, Accrues
<1>3. Upto(s, n)
  <2>1. \E J : Upto(J, n)
    BY <1>1
  <2> HIDE DEF Upto, s
  <2> QED BY <1>2, <2>1
<1> HIDE DEF s
<1>4. \A i \in 0 .. n : s[i] = Step(s, i)
  <2> HIDE DEF Step
  <2> QED BY <1>3
<1>5. s[0] = 0
  BY <1>4
<1>6. \A i \in 1 .. n : s[i] = IF epochs[i] \in DOMAIN f THEN NextState(s[i - 1], f[epochs[i]]) ELSE s[i - 1]
  BY <1>4
<1> DEFINE Good == {m \in Nat : m <= n => s[m] \in Nat}
<1>7. Nat \subseteq Good
  <2>1. 0 \in Good
    BY <1>5
  <2>2. ASSUME NEW m \in Nat, m \in Good PROVE m + 1 \in Good
    <3> SUFFICES ASSUME m + 1 <= n PROVE s[m + 1] \in Nat
      OBVIOUS
    <3> DEFINE i == m + 1
    <3>1. i \in 1 .. n /\ i - 1 = m /\ s[m] \in Nat
      BY <2>2
    <3> HIDE DEF i
    <3>2. s[i] = IF epochs[i] \in DOMAIN f THEN NextState(s[m], f[epochs[i]]) ELSE s[m]
      BY <1>6, <3>1
    <3>3. epochs[i] \in DOMAIN f => NextState(s[m], f[epochs[i]]) \in Nat
      <4>1. s[m] <= s[m]
        BY <3>1
      <4> QED BY <3>1, <4>1, NextStateKeepsOrder
    <3>4. s[i] \in Nat
      BY <3>1, <3>2, <3>3
    <3> QED BY <3>4 DEF i
  <2> HIDE DEF Good
  <2> QED BY <2>1, <2>2, AllNumbers
<1>8. \A i \in 0 .. n : s[i] \in Nat
  BY <1>7
<1> QED BY <1>5, <1>6, <1>8 DEF s

\* A horizon is a sequence of epochs.
IsHorizon(epochs) ==
    /\ Len(epochs) \in Nat /\ DOMAIN epochs = 1 .. Len(epochs)
    /\ \A i \in DOMAIN epochs : epochs[i] \in Int

\* With ones where there is none, there is never less.
LEMMA FilledAccrueMore ==
    ASSUME NEW f, \A e \in DOMAIN f : f[e] \in Nat, NEW epochs, IsHorizon(epochs),
           NEW i \in 0 .. Len(epochs)
    PROVE  Accrued(f, epochs)[i] <= Accrued(Filled(f, epochs), epochs)[i]
<1> DEFINE F == Filled(f, epochs)
           n == Len(epochs)
           s == Accrued(f, epochs)
           t == Accrued(F, epochs)
           Good == {m \in Nat : m <= n => s[m] <= t[m]}
<1>1. n \in Nat /\ Whole \in Nat
  BY ComparatorsAssumption DEF IsHorizon
<1>2. /\ \A e \in DOMAIN F : F[e] \in Nat
      /\ \A m \in 1 .. n : epochs[m] \in DOMAIN F
      /\ \A e \in DOMAIN F : F[e] = IF e \in DOMAIN f THEN f[e] ELSE Whole
  BY <1>1 DEF Filled, Range, IsHorizon
<1>3. /\ s[0] = 0 /\ \A m \in 0 .. n : s[m] \in Nat
      /\ \A m \in 1 .. n : s[m] = IF epochs[m] \in DOMAIN f THEN NextState(s[m - 1], f[epochs[m]]) ELSE s[m - 1]
  BY <1>1, StatesFollow
<1> HIDE DEF F
<1>4. /\ t[0] = 0 /\ \A m \in 0 .. n : t[m] \in Nat
      /\ \A m \in 1 .. n : t[m] = IF epochs[m] \in DOMAIN F THEN NextState(t[m - 1], F[epochs[m]]) ELSE t[m - 1]
  BY <1>1, <1>2, StatesFollow
<1> HIDE DEF s, t
<1>5. Nat \subseteq Good
  <2>1. 0 \in Good
    BY <1>3, <1>4
  <2>2. ASSUME NEW m \in Nat, m \in Good PROVE m + 1 \in Good
    <3> SUFFICES ASSUME m + 1 <= n PROVE s[m + 1] <= t[m + 1]
      OBVIOUS
    <3> DEFINE j == m + 1
    <3>1. j \in 1 .. n /\ j - 1 = m /\ s[m] <= t[m] /\ s[m] \in Nat /\ t[m] \in Nat
      BY <1>1, <1>3, <1>4, <2>2
    <3> HIDE DEF j
    <3>2. t[j] = NextState(t[m], F[epochs[j]])
      BY <1>2, <1>4, <3>1
    <3>3. CASE epochs[j] \in DOMAIN f
      <4>1. s[j] = NextState(s[m], f[epochs[j]]) /\ F[epochs[j]] = f[epochs[j]] /\ f[epochs[j]] \in Nat
        BY <1>2, <1>3, <3>1, <3>3
      <4> DEFINE a == s[m] b == t[m] k == f[epochs[j]]
      <4>3. a \in Nat /\ b \in Nat /\ a <= b /\ k \in Nat
        BY <3>1, <4>1
      <4> HIDE DEF a, b, k
      <4>4. NextState(a, k) <= NextState(b, k)
        BY <4>3, NextStateKeepsOrder
      <4>2. s[j] <= t[j]
        BY <3>2, <4>1, <4>4 DEF a, b, k
      <4> QED BY <4>2 DEF j
    <3>4. CASE epochs[j] \notin DOMAIN f
      <4>1. s[j] = s[m] /\ F[epochs[j]] = Whole
        BY <1>2, <1>3, <3>1, <3>4
      <4> DEFINE b == t[m]
      <4>4. b \in Nat /\ b <= b
        BY <3>1
      <4> HIDE DEF b
      <4>5. b <= NextState(b, Whole) /\ NextState(b, Whole) \in Nat
        BY <1>1, <4>4, NextStateKeepsOrder
      <4>2. t[m] <= t[j] /\ t[j] \in Nat
        BY <3>2, <4>1, <4>5 DEF b
      <4>3. s[j] <= t[j]
        BY <3>1, <4>1, <4>2
      <4> QED BY <4>3 DEF j
    <3> QED BY <3>3, <3>4
  <2> HIDE DEF Good
  <2> QED BY <2>1, <2>2, AllNumbers
<1>6. i \in Nat /\ i <= n
  BY <1>1
<1>7. s[i] <= t[i]
  BY <1>5, <1>6
<1> QED BY <1>7 DEF s, t, F

\* A stop is at the first epoch where the threshold is reached.
LEMMA FirstReached ==
    ASSUME NEW f, NEW epochs, IsHorizon(epochs), NEW h
    PROVE  /\ ComparatorStop(f, epochs, h) # Nothing <=> Reaches(f, epochs, h) # {}
           /\ Reaches(f, epochs, h) # {} =>
                /\ Min(Reaches(f, epochs, h)) \in Reaches(f, epochs, h)
                /\ \A i \in Reaches(f, epochs, h) : Min(Reaches(f, epochs, h)) <= i
                /\ ComparatorStop(f, epochs, h) = epochs[Min(Reaches(f, epochs, h))]
<1> DEFINE R == Reaches(f, epochs, h)
<1>1. R \subseteq DOMAIN epochs /\ R \subseteq Nat
  BY DEF Reaches, IsHorizon
<1>2. ComparatorStop(f, epochs, h) = IF R = {} THEN Nothing ELSE epochs[Min(R)]
  BY StopsWhereReached
<1> HIDE DEF R
<1>3. R # {} => Min(R) \in R /\ \A i \in R : Min(R) <= i
  BY <1>1, LeastNumber
<1>4. R # {} => epochs[Min(R)] \in Int
  BY <1>1, <1>3 DEF IsHorizon
<1>5. R # {} => ComparatorStop(f, epochs, h) # Nothing
  BY <1>2, <1>4, ComparatorsAssumption
<1> QED BY <1>2, <1>3, <1>5 DEF R

\* A lower threshold is reached wherever a higher one is.
LEMMA LowerIsReached ==
    ASSUME NEW f, \A e \in DOMAIN f : f[e] \in Nat, NEW epochs, IsHorizon(epochs),
           NEW h \in Int, NEW j \in Int, h <= j
    PROVE  Reaches(f, epochs, j) \subseteq Reaches(f, epochs, h)
<1>1. \A i \in DOMAIN epochs : Accrued(f, epochs)[i] \in Nat
  <2>1. \A i \in 0 .. Len(epochs) : Accrued(f, epochs)[i] \in Nat
    BY StatesFollow DEF IsHorizon
  <2> QED BY <2>1 DEF IsHorizon
<1>2. \A i \in DOMAIN epochs : Accrued(f, epochs)[i] >= j => Accrued(f, epochs)[i] >= h
  BY <1>1
<1> QED BY <1>2 DEF Reaches

\* So there are fewer false stops at a higher one.
LEMMA ComparatorFalseStopsFall ==
    ASSUME NEW f, \A e \in DOMAIN f : f[e] \in Nat,
           NEW horizons, IsFiniteSet(DOMAIN horizons), \A i \in DOMAIN horizons : IsHorizon(horizons[i]),
           NEW h \in Int, NEW j \in Int, h <= j
    PROVE  /\ ComparatorFalseStops(f, horizons, j) \in Nat /\ ComparatorFalseStops(f, horizons, h) \in Nat
           /\ ComparatorFalseStops(f, horizons, j) <= ComparatorFalseStops(f, horizons, h)
<1> DEFINE Stopped(x) == {i \in DOMAIN horizons : ComparatorStop(f, horizons[i], x) # Nothing}
<1>1. Stopped(j) \subseteq Stopped(h)
  <2> SUFFICES ASSUME NEW i \in Stopped(j) PROVE i \in Stopped(h)
    OBVIOUS
  <2>1. IsHorizon(horizons[i]) /\ ComparatorStop(f, horizons[i], j) # Nothing
    OBVIOUS
  <2>2. Reaches(f, horizons[i], j) # {}
    BY <2>1, FirstReached
  <2>3. Reaches(f, horizons[i], h) # {}
    BY <2>1, <2>2, LowerIsReached
  <2>4. ComparatorStop(f, horizons[i], h) # Nothing
    BY <2>1, <2>3, FirstReached
  <2> QED BY <2>4
<1>2. Stopped(h) \subseteq DOMAIN horizons
  OBVIOUS
<1>3. \A x : ComparatorFalseStops(f, horizons, x) = Cardinality(Stopped(x))
  BY DEF ComparatorFalseStops
<1> HIDE DEF Stopped
<1>4. IsFiniteSet(Stopped(h)) /\ IsFiniteSet(Stopped(j))
  BY <1>1, <1>2, FS_Subset
<1>5. /\ Cardinality(Stopped(j)) \in Nat /\ Cardinality(Stopped(h)) \in Nat
      /\ Cardinality(Stopped(j)) <= Cardinality(Stopped(h))
  BY <1>1, <1>4, FS_Subset, FS_CardinalityType
<1> QED BY <1>3, <1>5

\* The threshold is the least of those with no more false stops than are accepted.
LEMMA PointIsLeast ==
    ASSUME NEW f, \A e \in DOMAIN f : f[e] \in Nat,
           NEW horizons, IsFiniteSet(DOMAIN horizons), \A i \in DOMAIN horizons : IsHorizon(horizons[i]),
           ComparatorPoint(f, horizons, horizons, Thresholds).threshold # Nothing
    PROVE  LET point == ComparatorPoint(f, horizons, horizons, Thresholds)
           IN  /\ point.heldout <= AcceptedStops
               /\ \A h \in Thresholds :
                    ComparatorFalseStops(f, horizons, h) <= AcceptedStops <=> h >= point.threshold
<1> DEFINE accepted == {h \in Thresholds : ComparatorFalseStops(f, horizons, h) <= AcceptedStops}
           least == Min(accepted)
           point == ComparatorPoint(f, horizons, horizons, Thresholds)
<1>1. /\ accepted # {}
      /\ point = [threshold |-> least, heldout |-> ComparatorFalseStops(f, horizons, least)]
  BY DEF ComparatorPoint
<1>2. Thresholds \subseteq Int /\ IsFiniteSet(Thresholds) /\ AcceptedStops \in Int
  BY ComparatorsAssumption
<1>3. least \in accepted /\ \A h \in accepted : least <= h
  <2>1. IsFiniteSet(accepted) /\ accepted \subseteq Int
    BY <1>2, FS_Subset
  <2> HIDE DEF accepted
  <2> QED BY <1>1, <2>1, FirstAndLast
<1> HIDE DEF least, point
<1>4. point.threshold = least /\ point.heldout = ComparatorFalseStops(f, horizons, least)
  BY <1>1
<1>5. least \in Int /\ ComparatorFalseStops(f, horizons, least) <= AcceptedStops
  BY <1>2, <1>3
<1>6. ASSUME NEW h \in Thresholds, ComparatorFalseStops(f, horizons, h) <= AcceptedStops
      PROVE  h >= least
  BY <1>2, <1>3, <1>5, <1>6
<1>7. ASSUME NEW h \in Thresholds, h >= least
      PROVE  ComparatorFalseStops(f, horizons, h) <= AcceptedStops
  <2> DEFINE a == ComparatorFalseStops(f, horizons, least) b == ComparatorFalseStops(f, horizons, h)
  <2>1. h \in Int /\ least <= h
    BY <1>2, <1>5, <1>7
  <2>2. a \in Nat /\ b \in Nat /\ b <= a
    BY <1>5, <2>1, ComparatorFalseStopsFall
  <2> HIDE DEF a, b
  <2>3. a <= AcceptedStops
    BY <1>5 DEF a
  <2>4. b <= AcceptedStops
    BY <1>2, <2>2, <2>3
  <2> QED BY <2>4 DEF b
<1> QED BY <1>4, <1>5, <1>6, <1>7 DEF point

\* Over the same evidence EMHI stops no later, and at the same epoch when every one has a
\* score.
LEMMA StopsCompare ==
    ASSUME NEW f, \A e \in DOMAIN f : f[e] \in Nat, f = [e \in DOMAIN f |-> f[e]],
           NEW n \in Nat, NEW h \in Int
    PROVE  LET epochs == [e \in 1 .. n |-> e]
               emhi == EmhiStop(f, epochs, h)
               comparator == ComparatorStop(f, epochs, h)
           IN  /\ DOMAIN f = Range(epochs) => comparator = emhi
               /\ comparator # Nothing => emhi # Nothing /\ emhi <= comparator
<1> DEFINE epochs == [e \in 1 .. n |-> e]
           F == Filled(f, epochs)
           emhi == EmhiStop(f, epochs, h)
           comparator == ComparatorStop(f, epochs, h)
<1>1. IsHorizon(epochs) /\ Len(epochs) = n
  <2>1. epochs \in Seq(Nat) /\ Len(epochs) = n
    OBVIOUS
  <2>2. DOMAIN epochs = 1 .. n /\ \A i \in DOMAIN epochs : epochs[i] \in Int
    OBVIOUS
  <2> HIDE DEF epochs
  <2> QED BY <2>1, <2>2 DEF IsHorizon
<1>2. Range(epochs) = 1 .. n /\ \A i \in 1 .. n : epochs[i] = i
  BY DEF Range
<1> HIDE DEF epochs
<1>3. emhi = ComparatorStop(F, epochs, h)
  BY <1>1, EmhiStopsAsFilled DEF IsHorizon
<1>4. DOMAIN f = Range(epochs) => F = f
  BY DEF Filled
<1>5. Reaches(f, epochs, h) \subseteq Reaches(F, epochs, h)
  <2> SUFFICES ASSUME NEW i \in Reaches(f, epochs, h) PROVE i \in Reaches(F, epochs, h)
    OBVIOUS
  <2> DEFINE a == Accrued(f, epochs)[i] b == Accrued(F, epochs)[i]
  <2>1. i \in 1 .. n /\ i \in 0 .. n /\ i \in DOMAIN epochs /\ a >= h
    BY <1>1 DEF Reaches, IsHorizon
  <2>2. epochs[i] \in DOMAIN F
    BY <1>2, <2>1 DEF Filled
  <2>3. a <= b
    BY <1>1, <2>1, FilledAccrueMore
  <2>4. a \in Nat /\ b \in Nat
    <3>1. \A e \in DOMAIN F : F[e] \in Nat
      BY ComparatorsAssumption DEF Filled
    <3> HIDE DEF F
    <3> QED BY <1>1, <2>1, <3>1, StatesFollow
  <2> HIDE DEF a, b, F
  <2>5. b >= h
    BY <2>1, <2>3, <2>4
  <2> QED BY <2>1, <2>2, <2>5 DEF Reaches, b
<1> DEFINE R == Reaches(f, epochs, h) S == Reaches(F, epochs, h)
<1>6. ASSUME comparator # Nothing PROVE emhi # Nothing /\ emhi <= comparator
  <2> HIDE DEF F
  <2>1. R # {} /\ Min(R) \in R /\ comparator = epochs[Min(R)]
    BY <1>1, <1>6, FirstReached
  <2>2. S # {}
    BY <1>5, <2>1
  <2>3. Min(S) \in S /\ Min(S) <= Min(R) /\ ComparatorStop(F, epochs, h) = epochs[Min(S)]
        /\ ComparatorStop(F, epochs, h) # Nothing
    BY <1>1, <1>5, <2>1, <2>2, FirstReached
  <2>4. Min(S) \in 1 .. n /\ Min(R) \in 1 .. n
    BY <1>1, <2>1, <2>3 DEF Reaches, IsHorizon
  <2> HIDE DEF R, S, emhi, comparator
  <2> QED BY <1>2, <1>3, <2>1, <2>3, <2>4
<1>7. DOMAIN f = Range(epochs) => comparator = emhi
  BY <1>3, <1>4
<1> HIDE DEF emhi, comparator
<1> QED BY <1>6, <1>7 DEF emhi, comparator, epochs

\* The two halves of a horizon are horizons.
LEMMA HalvesAreHorizons ==
    IsFiniteSet(DOMAIN Halves) /\ \A i \in DOMAIN Halves : IsHorizon(Halves[i])
<1> DEFINE n == MaxHorizon
           half == n \div 2
           left == [e \in 1 .. half |-> e]
           right == [e \in 1 .. n - half |-> e + half]
<1>1. n \in Nat /\ half \in Nat /\ n - half \in Nat
  <2>1. n \in Nat
    BY ComparatorsAssumption
  <2> HIDE DEF n
  <2>2. half \in Nat /\ half <= n
    BY <2>1
  <2> HIDE DEF half
  <2> QED BY <2>1, <2>2
<1> HIDE DEF half, n
<1>2. IsHorizon(left)
  <2>1. left \in Seq(Nat) /\ Len(left) = half
    BY <1>1
  <2>2. DOMAIN left = 1 .. half /\ \A i \in DOMAIN left : left[i] \in Int
    BY <1>1
  <2> HIDE DEF left
  <2> QED BY <1>1, <2>1, <2>2 DEF IsHorizon
<1>3. IsHorizon(right)
  <2> DEFINE m == n - half
  <2> HIDE DEF m
  <2>1. \A e \in 1 .. m : e + half \in Nat
    BY <1>1
  <2>2. m \in Nat /\ right = [e \in 1 .. m |-> e + half]
    BY <1>1 DEF m
  <2>3. right \in Seq(Nat) /\ Len(right) = m
    <3> DEFINE b(e) == e + half
    <3>1. \A e \in 1 .. m : b(e) \in Nat
      BY <2>1
    <3>2. right = [e \in 1 .. m |-> b(e)]
      BY <2>2
    <3> HIDE DEF b, right
    <3>3. [e \in 1 .. m |-> b(e)] \in Seq(Nat) /\ Len([e \in 1 .. m |-> b(e)]) = m
      BY <2>2, <3>1
    <3> QED BY <3>2, <3>3
  <2>4. DOMAIN right = 1 .. m /\ \A i \in DOMAIN right : right[i] \in Int
    <3>1. DOMAIN [e \in 1 .. m |-> e + half] = 1 .. m
      OBVIOUS
    <3>2. \A i \in 1 .. m : [e \in 1 .. m |-> e + half][i] \in Int
      BY <2>1
    <3> HIDE DEF right
    <3> QED BY <2>2, <3>1, <3>2
  <2> HIDE DEF right
  <2> QED BY <2>2, <2>3, <2>4 DEF IsHorizon
<1>4. Halves = <<left, right>>
  BY DEF Halves, n, half
<1> HIDE DEF left, right
<1>5. DOMAIN Halves = 1 .. 2 /\ \A i \in 1 .. 2 : Halves[i] = left \/ Halves[i] = right
  BY <1>4
<1>6. IsFiniteSet(1 .. 2)
  <2>1. 1 \in Int /\ 2 \in Int
    OBVIOUS
  <2> QED BY <2>1, FS_Interval
<1> QED BY <1>2, <1>3, <1>5, <1>6

-----------------------------------------------------------------------------
(***************************************************************************)
(* The specification.                                                      *)
(***************************************************************************)
\* A case of a kind that is argued about is one of those that are given.
InputsAreGiven ==
    /\ case.kind = "fit" => case.f \in Fits
    /\ case.kind = "ridge" =>
        \E n \in 1 .. MaxCandidates : case.mse \in [1 .. n -> Errors] /\ case.tolerance \in Tolerances
    /\ case.kind = "lookups" => IsGivenLookups(case)
    /\ case.kind = "windows" =>
        case.window \in Windows /\ case.events \in [Clients -> [1 .. case.window.epochs -> EventCounts]]
    /\ case.kind = "metrics" =>
        \E n \in 1 .. MaxEpochs : case.scores \in [1 .. n -> Scores] /\ case.labels \in [1 .. n -> BOOLEAN]
    /\ case.kind = "layout" => case.t \in Layouts
    /\ case.kind = "repetitions" => case.x \in Passes
    /\ case.kind = "comparison" => case.x \in Comparisons
    /\ case.kind = "backend" => \E S \in SUBSET (1 .. MaxHorizon) : case.factors \in [S -> Factors]

\* At first no input is chosen.
LEMMA NoInputYet == Init => InputsAreGiven
BY DEF Init, Waiting, InputsAreGiven

\* Each step chooses one, of its own kind.
LEMMA InputsComeFromTheirSets == InputsAreGiven /\ [Next]_vars => InputsAreGiven'
<1> SUFFICES ASSUME InputsAreGiven, [Next]_vars PROVE InputsAreGiven'
  OBVIOUS
<1>1. CASE Differ
  BY <1>1 DEF Differ, InputsAreGiven
<1>2. CASE Correct
  BY <1>2 DEF Correct, InputsAreGiven
<1>3. CASE Summarise
  BY <1>3 DEF Summarise, InputsAreGiven
<1>4. CASE Robust
  BY <1>4 DEF Robust, InputsAreGiven
<1>5. CASE Stress
  BY <1>5 DEF Stress, InputsAreGiven
<1>6. CASE Measure
  BY <1>6 DEF Measure, InputsAreGiven
<1>7. CASE FitCoalition
  BY <1>7 DEF FitCoalition, InputsAreGiven
<1>8. CASE Penalise
  BY <1>8 DEF Penalise, InputsAreGiven
<1>9. CASE LookUp
  <2>1. \A requests, inherited :
          LET c == [kind |-> "lookups", requests |-> requests, inherited |-> inherited]
          IN  c.kind = "lookups" /\ c.requests = requests /\ c.inherited = inherited
    OBVIOUS
  <2> QED BY <1>9, <2>1 DEF LookUp, InputsAreGiven, IsGivenLookups
<1>10. CASE Compare
  BY <1>10 DEF Compare, InputsAreGiven
<1>11. CASE Calibrate
  BY <1>11 DEF Calibrate, InputsAreGiven
<1>12. CASE Compose
  BY <1>12 DEF Compose, InputsAreGiven
<1>13. CASE CalibrateLocally
  BY <1>13 DEF CalibrateLocally, InputsAreGiven
<1>14. CASE LayOut
  BY <1>14 DEF LayOut, InputsAreGiven
<1>15. CASE Repeat
  BY <1>15 DEF Repeat, InputsAreGiven
<1>16. CASE SummariseLatencies
  BY <1>16 DEF SummariseLatencies, InputsAreGiven
<1>17. CASE Generate
  BY <1>17 DEF Generate, InputsAreGiven
<1>18. CASE Explain
  BY <1>18 DEF Explain, InputsAreGiven
<1>19. CASE Assess
  BY <1>19 DEF Assess, InputsAreGiven
<1>20. CASE AssignRoles
  BY <1>20 DEF AssignRoles, InputsAreGiven
<1>21. CASE DropOut
  BY <1>21 DEF DropOut, InputsAreGiven
<1>22. CASE FollowPath
  BY <1>22 DEF FollowPath, InputsAreGiven
<1>23. CASE Claim
  BY <1>23 DEF Claim, InputsAreGiven
<1>24. CASE UNCHANGED vars
  BY <1>24 DEF vars, InputsAreGiven
<1> QED BY <1>1, <1>2, <1>3, <1>4, <1>5, <1>6, <1>7, <1>8, <1>9, <1>10, <1>11, <1>12, <1>13, <1>14, <1>15, <1>16, <1>17, <1>18, <1>19, <1>20, <1>21, <1>22, <1>23, <1>24 DEF Next

\* What is given is a fit as the program makes them, so that nothing leaks.
LEMMA GivenFitsDoNotLeak == InputsAreGiven => FitsDoNotLeak
<1> SUFFICES ASSUME InputsAreGiven PROVE FitsDoNotLeak
  OBVIOUS
<1> DEFINE f == case.f
<1>1. case.kind = "fit" => f \in Fits
  BY DEF InputsAreGiven
<1>2. TrainingNeverReadsHeldEpochs
  <2> SUFFICES ASSUME f \in Fits, NEW fold \in Fold, NEW cell \in CellsOf(f.method)
               PROVE  TrainingCell([f EXCEPT !.ranks = Without(f.ranks, HeldEpochs(fold))], fold, cell)
                        = TrainingCell(f, fold, cell)
    BY <1>1 DEF TrainingNeverReadsHeldEpochs
  <2> HIDE DEF f
  <2> QED BY TrainingIsBlind
<1>3. HeldEpochsCountOnce
  <2> SUFFICES ASSUME ~f.forced, NEW fold \in Fold, NEW one, NEW other, one # other
               PROVE  HeldInnovations(f, fold, one) \cap HeldInnovations(f, fold, other) = {}
    BY DEF HeldEpochsCountOnce
  <2> HIDE DEF f
  <2> QED BY HeldOnce
<1>4. ScoringRoutesAsFitted
  <2> SUFFICES ASSUME f \in Fits, ~f.forced, NEW cell \in CellsOf(f.method)
               PROVE  LET fitted == FittedCells(f)
                          scored == [e \in Range(Nuisance) |-> ScoredBy(f, fitted, e, f.lag[CrossFolds])]
                      IN  {e \in Range(Nuisance) : scored[e] = cell}
                            = IF cell \in fitted THEN ConditionedRows(f, FitEpochs(f, cell)) ELSE {}
    BY <1>1 DEF ScoringRoutesAsFitted
  <2> HIDE DEF f
  <2>1. {e \in Range(Nuisance) : ScoredBy(f, FittedCells(f), e, f.lag[CrossFolds]) = cell}
          = IF cell \in FittedCells(f) THEN ConditionedRows(f, FitEpochs(f, cell)) ELSE {}
    BY FittedAreScored
  <2> QED BY <2>1
<1>5. SelectedRowsAreTrained
  <2> SUFFICES ASSUME f \in Fits, f.method # "no_outside", NEW fold \in 0 .. CrossFolds
               PROVE  LET k == Order(f.coalition)
                          epochs == IF fold = CrossFolds THEN Range(Nuisance) ELSE TrainingEpochs(fold)
                          permitted == IF fold = CrossFolds THEN Nothing ELSE epochs
                      IN  Cardinality(TrainingRows(f.ranks, f.method, k, epochs, f.lag[fold], permitted,
                                                   f.order))
                            = Min({RowLimit, Cardinality({x \in Coalitions(k) \X epochs :
                                    ContextRow(f.ranks, f.method, x[1], x[2], f.lag[fold], permitted)
                                        # Nothing})})
    BY <1>1 DEF SelectedRowsAreTrained
  <2> HIDE DEF f
  <2> QED BY RowsOfEachFold
<1>6. RidgeTiesGoToTheLargest
  <2> SUFFICES ASSUME case.kind = "ridge"
               PROVE  SelectRidge(case.mse, case.tolerance)
                        = Max({i \in DOMAIN case.mse : case.mse[i] <= Min(Range(case.mse)) + case.tolerance})
    BY DEF RidgeTiesGoToTheLargest
  <2>1. PICK n \in 1 .. MaxCandidates : case.mse \in [1 .. n -> Errors] /\ case.tolerance \in Tolerances
    BY DEF InputsAreGiven
  <2>2. n \in Nat \ {0}
    BY FitsAssumption
  <2>3. case.mse \in [1 .. n -> Int] /\ case.tolerance \in Nat
    BY <2>1, FitsAssumption
  <2> QED BY <2>2, <2>3, TiesGoToTheLargest
<1> QED BY <1>2, <1>3, <1>4, <1>5, <1>6 DEF FitsDoNotLeak

\* A fit (emhi/calibration.py) never trains a fold on the epochs it holds out, counts each
\* of them in one cell, scores the epochs a cell was fitted on by that cell and as many rows
\* as can be built, and its ridge penalty (emhi/projection.py) is the largest within the
\* tolerance of the least error: for any ranks, lags, routes, folds and limits.
THEOREM FitsDoNotLeakHolds == Spec => []FitsDoNotLeak
<1>1. Spec => []InputsAreGiven
  BY NoInputYet, InputsComeFromTheirSets, PTL DEF Spec
<1> QED BY <1>1, GivenFitsDoNotLeak, PTL

\* The ranks that a scoring reads (emhi/structure.py) are those of the artifact it asks for,
\* although the cache recognises an artifact by its fingerprint alone: whatever tasks of the
\* real-data and dropout experiments a worker runs, in any order, with the cache it was
\* forked with.
THEOREM LookedUpRanksAreThoseAskedHolds == Spec => []LookedUpRanksAreThoseAsked
<1>1. Spec => []InputsAreGiven
  BY NoInputYet, InputsComeFromTheirSets, PTL DEF Spec
<1>2. InputsAreGiven => LookedUpRanksAreThoseAsked
  <2> SUFFICES ASSUME InputsAreGiven, case.kind = "lookups"
               PROVE  ServesWhatIsAsked(case.requests, case.inherited)
    BY DEF LookedUpRanksAreThoseAsked
  <2>1. IsGivenLookups(case)
    BY DEF InputsAreGiven
  <2> QED BY <2>1, GivenLookupsAreServed
<1> QED BY <1>1, <1>2, PTL

\* What is given is a stream or windows of it, so that the metrics rank as they should.
LEMMA GivenRankingsAreRight == InputsAreGiven => RankingsAreRight
<1> SUFFICES ASSUME InputsAreGiven PROVE RankingsAreRight
  OBVIOUS
<1>1. ASSUME case.kind = "windows" PROVE WindowsAreTheTopFraction
  <2> DEFINE w == case.window
             counts == Counts(w, case.events)
  <2>1. w \in Windows /\ case.events \in [Clients -> [1 .. w.epochs -> EventCounts]]
    BY <1>1 DEF InputsAreGiven
  <2>2. IsFiniteSet(DOMAIN counts) /\ counts \in [DOMAIN counts -> Int]
    BY <2>1, CountsAreNumbers
  <2>3. w.fraction \in Nat \X (Nat \ {0}) /\ w.fraction[1] <= w.fraction[2]
    BY <2>1, RankingsAssumption
  <2> DEFINE selected == (w.fraction[1] * Cardinality(DOMAIN counts)) \div w.fraction[2]
             high == HighVolume(counts, w.fraction)
             lowest == Min({counts[s] : s \in high})
  <2>4. selected > 0 =>
            /\ \A s \in high, t \in DOMAIN counts \ high : counts[s] > counts[t]
            /\ Cardinality(high) >= selected
            /\ Cardinality({s \in high : counts[s] > lowest}) < selected
    <3> HIDE DEF counts, w
    <3> QED BY <2>2, <2>3, TopFraction
  <2> QED BY <2>4 DEF WindowsAreTheTopFraction
<1>2. ASSUME case.kind = "metrics" PROVE IsStream(case.scores, case.labels)
  <2>1. PICK n \in 1 .. MaxEpochs : case.scores \in [1 .. n -> Scores] /\ case.labels \in [1 .. n -> BOOLEAN]
    BY <1>2 DEF InputsAreGiven
  <2>2. IsFiniteSet(1 .. n)
    BY FS_Interval
  <2> QED BY <2>1, <2>2, RankingsAssumption DEF IsStream
<1>3. WindowsAreTheTopFraction
  BY <1>1 DEF WindowsAreTheTopFraction
<1>4. AurocIsPairwise
  BY <1>2, AurocCountsPairs DEF AurocIsPairwise
<1>5. AuprcIsMeanPrecision
  BY <1>2, AuprcSumsGroups DEF AuprcIsMeanPrecision
<1> QED BY <1>3, <1>4, <1>5 DEF RankingsAreRight

\* The areas under both curves (evaluation/metrics.py) count every pair of epochs and every
\* group of tied ones as they should, and the stress windows (experiments/robustness.py) are
\* the top fraction with all that are tied at its border: for any scores, labels and counts.
THEOREM RankingsAreRightHolds == Spec => []RankingsAreRight
<1>1. Spec => []InputsAreGiven
  BY NoInputYet, InputsComeFromTheirSets, PTL DEF Spec
<1> QED BY <1>1, GivenRankingsAreRight, PTL

\* What is given is a cut of a stream or the epochs of a repetition.
LEMMA GivenTimingsAreFair == InputsAreGiven => TimingsAreFair
<1> SUFFICES ASSUME InputsAreGiven PROVE TimingsAreFair
  OBVIOUS
<1>1. ASSUME case.kind = "layout" PROVE TimedEpochsAreFresh
  <2> DEFINE t == case.t
  <2>1. IsLayout(t)
    BY <1>1, TimingAssumption DEF InputsAreGiven
  <2>2. \A i, j \in DOMAIN RolesOf(t) : i # j => RolesOf(t)[i] \cap RolesOf(t)[j] = {}
    BY <2>1, RolesAreApart
  <2>3. UNION Range(RolesOf(t)) = 0 .. TotalEpochs(t) - 1
    BY <2>1, EveryEpochHasARole
  <2> QED BY <2>2, <2>3 DEF TimedEpochsAreFresh, RolesOf
<1>2. ASSUME case.kind = "repetitions" PROVE RepetitionsAreAlike
  <2> DEFINE x == case.x
  <2>1. IsPass(x)
    BY <1>2, TimingAssumption DEF InputsAreGiven
  <2> HIDE DEF x
  <2>2. \A r \in DOMAIN Repetitions(x) : \A c \in {d \in DOMAIN x.scores : x.policies[d] # NoPolicy} :
            (\E e \in DOMAIN Repetitions(x)[r] : Triggered(Repetitions(x)[r][e].seen[c], x.policies[c]))
                <=> StopsLocally(Exceedances(x.scores[c], x.policies[c].threshold, 1), x.policies[c])
    BY <2>1, RepetitionsAgree
  <2> QED BY <2>2 DEF RepetitionsAreAlike, x
<1>3. TimedEpochsAreFresh
  BY <1>1 DEF TimedEpochsAreFresh
<1>4. RepetitionsAreAlike
  BY <1>2 DEF RepetitionsAreAlike
<1> QED BY <1>3, <1>4 DEF TimingsAreFair

\* The roles that the scalability harness (evaluation/scalability.py) cuts a stream into
\* share no epoch and leave none out, and a repetition goes through the same states as the
\* evaluation of the same scores: for any counts of epochs and horizons, and any scores.
THEOREM TimingsAreFairHolds == Spec => []TimingsAreFair
<1>1. Spec => []InputsAreGiven
  BY NoInputYet, InputsComeFromTheirSets, PTL DEF Spec
<1> QED BY <1>1, GivenTimingsAreFair, PTL

\* What is given is a panel of ranks or factors at some epochs, so that the comparators see
\* no more than EMHI does and are held to its backend.
LEMMA GivenComparatorsAreComparable == InputsAreGiven => ComparatorsAreComparable
<1> SUFFICES ASSUME InputsAreGiven PROVE ComparatorsAreComparable
  OBVIOUS
<1> DEFINE r == case.x.ranks
           nearest == case.x.nearest
           method == case.x.method
<1>1. ASSUME case.kind = "comparison" PROVE AreRanks(r) /\ AreNearest(nearest)
  <2>1. case.x \in Comparisons
    BY <1>1 DEF InputsAreGiven
  <2> QED BY <2>1, ComparatorsAssumption DEF AreRanks, AreNearest
<1> HIDE DEF r, nearest, method
<1>2. ComparatorScoresReadThePast
  <2> DEFINE Scored(q) == EpochScores(q, method, nearest)
             now == Scored(r)
  <2>1. SUFFICES ASSUME case.kind = "comparison", NEW e \in DOMAIN now, \A n \in Range(Nuisance) : n < e,
                        NEW standardized \in BOOLEAN, ~EvidenceFails(now),
                        e \in DOMAIN EvidenceScores(now, standardized)
                 PROVE  /\ ~EvidenceFails(Scored(Past(r, e)))
                        /\ e \in DOMAIN EvidenceScores(Scored(Past(r, e)), standardized)
                        /\ EvidenceScores(Scored(Past(r, e)), standardized)[e]
                             = EvidenceScores(now, standardized)[e]
    BY DEF ComparatorScoresReadThePast, r, nearest, method, Past
  <2>2. AreRanks(r) /\ AreNearest(nearest) /\ e \in CommonEpochs(r)
    BY <1>1, <2>1, ScoredEpochsAreCommon
  <2>3. DOMAIN now \subseteq Int /\ e \in Int /\ Clients # {}
    BY <2>2, CommonRanks, ScoredEpochsAreCommon DEF CommonEpochs
  <2>4. After(e, Range(Nuisance))
    BY <2>1, <2>3 DEF After
  <2>5. AgreeUpto(Scored(Past(r, e)), now, e)
    <3>1. CASE method \in {"mean", "max", "cusum"}
      BY <2>2, <2>3, <3>1, PastPlainScores
    <3>2. CASE method \notin {"mean", "max", "cusum"}
      BY <2>2, <2>3, <2>4, <3>2, PastConditionedScores
    <3> QED BY <3>1, <3>2
  <2> HIDE DEF Scored, now
  <2> QED BY <2>1, <2>3, <2>4, <2>5, PastEvidence
<1>3. ComparatorsSeeTheContextOfEmhi
  <2> SUFFICES ASSUME case.kind = "comparison", NEW e \in CommonEpochs(r), e - Lag \in CommonEpochs(r)
               PROVE  PanelContext(r, NativeOrder[method], e)
                        = ContextRow(r, "exact", MembersOf(NativeOrder[method]), e, LaggedEpoch({e}), Nothing)
    BY DEF ComparatorsSeeTheContextOfEmhi, r, method
  <2> QED BY <1>1, ContextsAgree
<1>4. CusumIsTheLargestRecentSum
  <2> DEFINE E == CommonEpochs(r)
             Recent(c, f, e) == SumOver({d \in E : f <= d /\ d <= e}, LAMBDA d : 2 * r[c][d] - Drift)
  <2> SUFFICES ASSUME case.kind = "comparison", NEW c \in Clients, NEW e \in E
               PROVE  Cusum(E, r[c])[e] = Max({Recent(c, f, e) : f \in E \cup {e + 1}})
    BY DEF CusumIsTheLargestRecentSum, r
  <2> DEFINE q == r[c]
             g == [d \in E |-> 2 * q[d] - Drift]
             C == Cusum(E, q)[e]
             S == {Recent(c, f, e) : f \in E \cup {e + 1}}
  <2>1. E \subseteq Int /\ IsFiniteSet(E) /\ \A d \in E : q[d] \in Int
    BY <1>1, CommonRanks, CommonAreFinite
  <2>2. \A d \in E : g[d] = 2 * q[d] - Drift
    OBVIOUS
  <2> HIDE DEF E, q
  <2>3. PICK I : Adds(I, E, g)
    BY <2>1, IncrementsAdd
  <2> HIDE DEF g
  <2>4. \A f : Recent(c, f, e) = I[Stretch(E, f, e)]
    <3> TAKE f
    <3> DEFINE P == Stretch(E, f, e)
               h == [d \in P |-> 2 * q[d] - Drift]
    <3>1. P \in SUBSET E /\ IsFiniteSet(P) /\ \A d \in P : q[d] \in Int
      <4>1. P \in SUBSET E
        BY DEF Stretch
      <4> HIDE DEF P
      <4> QED BY <2>1, <4>1, FS_Subset
    <3>2. Recent(c, f, e) = Increments(P, q)
      BY DEF Stretch, q, Increments
    <3> HIDE DEF P
    <3>3. PICK J : Adds(J, P, h) /\ Increments(P, q) = J[P]
      BY <3>1, IncrementsAdd
    <3>4. \A d \in P : h[d] = g[d]
      BY <2>2, <3>1
    <3> HIDE DEF h
    <3>5. J[P] = I[P]
      <4> HIDE DEF Recent, C, S
      <4>1. IsFiniteSet(E) /\ Adds(I, E, g) /\ Adds(J, P, h) /\ P \in SUBSET E
        BY <2>1, <2>3, <3>1, <3>3
      <4> QED BY <4>1, <3>4, SumsAgree
    <3> HIDE DEF Recent
    <3> QED BY <3>2, <3>3, <3>5 DEF P
  <2> HIDE DEF Recent
  <2>5. /\ C \in Int
        /\ \E f \in E \cup {e + 1} : C = I[Stretch(E, f, e)]
        /\ \A f \in E \cup {e + 1} : I[Stretch(E, f, e)] \in Int /\ I[Stretch(E, f, e)] <= C
    BY <2>1, <2>2, <2>3, LargestRecentSum
  <2>6. C \in S /\ S \subseteq Int /\ \A x \in S : x <= C
    <3> HIDE DEF C
    <3> QED BY <2>4, <2>5
  <2> HIDE DEF S, C
  <2>7. Max(S) = C
    <3>1. C \in Int /\ \A x \in S : C >= x
      BY <2>6
    <3>2. \A y \in S : (\A x \in S : y >= x) => y = C
      BY <2>6
    <3> QED BY <2>6, <3>1, <3>2 DEF Max
  <2> QED BY <2>7 DEF S, C, q
<1>5. BackendIsShared
  <2> DEFINE f == case.factors
             epochs == [e \in 1 .. MaxHorizon |-> e]
             point == ComparatorPoint(f, Halves, Halves, Thresholds)
             Compared(h) == /\ DOMAIN f = Range(epochs) => ComparatorStop(f, epochs, h) = EmhiStop(f, epochs, h)
                            /\ ComparatorStop(f, epochs, h) # Nothing =>
                                 /\ EmhiStop(f, epochs, h) # Nothing
                                 /\ EmhiStop(f, epochs, h) <= ComparatorStop(f, epochs, h)
  <2> SUFFICES ASSUME case.kind = "backend"
               PROVE  /\ \A h \in Thresholds : Compared(h)
                      /\ point.threshold # Nothing =>
                            /\ point.heldout <= AcceptedStops
                            /\ \A h \in Thresholds :
                                 ComparatorFalseStops(f, Halves, h) <= AcceptedStops <=> h >= point.threshold
    BY DEF BackendIsShared
  <2>1. PICK S \in SUBSET (1 .. MaxHorizon) : f \in [S -> Factors]
    BY DEF InputsAreGiven
  <2> HIDE DEF f
  <2>2. /\ \A e \in DOMAIN f : f[e] \in Nat
        /\ f = [e \in DOMAIN f |-> f[e]]
        /\ MaxHorizon \in Nat /\ Thresholds \subseteq Int
    BY <2>1, ComparatorsAssumption
  <2>3. ASSUME NEW h \in Thresholds PROVE Compared(h)
    <3>1. h \in Int
      BY <2>2
    <3> QED BY <2>2, <3>1, StopsCompare
  <2>4. ASSUME point.threshold # Nothing
        PROVE  /\ point.heldout <= AcceptedStops
               /\ \A h \in Thresholds :
                    ComparatorFalseStops(f, Halves, h) <= AcceptedStops <=> h >= point.threshold
    BY <2>2, <2>4, HalvesAreHorizons, PointIsLeast
  <2> QED BY <2>3, <2>4
<1> QED BY <1>2, <1>3, <1>4, <1>5 DEF ComparatorsAreComparable

\* A comparator's score and evidence read no rank of a later epoch, it sees the context of
\* EMHI where the epoch before has a row (comparators/conditioning.py), its CUSUM is the
\* largest sum of the increments up to now, and it stops and is calibrated by the backend of
\* EMHI (experiments/seed_evaluation.py): for any ranks, orders, factors and thresholds.
THEOREM ComparatorsAreComparableHolds == Spec => []ComparatorsAreComparable
<1>1. Spec => []InputsAreGiven
  BY NoInputYet, InputsComeFromTheirSets, PTL DEF Spec
<1> QED BY <1>1, GivenComparatorsAreComparable, PTL
=============================================================================

-------------------------- MODULE SyntheticPoolProofs --------------------------
(***************************************************************************)
(* Proofs about SyntheticPool, for every number of cells, dispatches,      *)
(* workers and configurations, and every bound on disturbances.            *)
(***************************************************************************)
EXTENDS SyntheticPool, FiniteSetTheorems, WellFoundedInduction, TLAPS

-----------------------------------------------------------------------------
(***************************************************************************)
(* Numbered sets.                                                          *)
(***************************************************************************)
\* A strictly smaller set cannot be found for ever.
LEMMA SmallestSet ==
    ASSUME NEW S, IsFiniteSet(S), NEW T, T \subseteq SUBSET S, T # {}
    PROVE  \E X \in T : \A Y \in T : ~(Y \subseteq X /\ Y # X)
<1>1. IsWellFoundedOn(StrictSubsetOrdering(S), FiniteSubsetsOf(S))
  BY FS_StrictSubsetOrderingWellFounded
<1>2. T \subseteq FiniteSubsetsOf(S)
  BY FS_Subset DEF FiniteSubsetsOf
<1>3. PICK X \in T : \A Y \in T : <<Y, X>> \notin StrictSubsetOrdering(S)
  BY <1>1, <1>2, WFMin
<1> QED BY <1>3 DEF StrictSubsetOrdering

\* There are finitely many cells.
LEMMA CellsAreFinite ==
    /\ CellCount \in Nat \ {0} /\ Cells = 1 .. CellCount
    /\ Cells \subseteq Nat
    /\ \A S \in SUBSET Cells : IsFiniteSet(S) /\ Cardinality(S) \in Nat
<1>1. CellCount \in Nat \ {0} /\ Cells = 1 .. CellCount /\ Cells \subseteq Nat
  BY ConstantsAssumption DEF Cells
<1>2. IsFiniteSet(Cells)
  BY <1>1, FS_Interval
<1>3. \A S \in SUBSET Cells : IsFiniteSet(S)
  BY <1>2, FS_Subset
<1> QED BY <1>1, <1>3, FS_CardinalityType

\* Cells that are numbered are finitely many, and there is a first and a last.
LEMMA FirstAndLast ==
    ASSUME NEW S, S \subseteq Cells, S # {}
    PROVE  /\ IsFiniteSet(S)
           /\ Min(S) \in S /\ \A x \in S : Min(S) <= x
           /\ \E m \in S : \A x \in S : x <= m
<1>1. IsFiniteSet(S)
  BY CellsAreFinite
<1>2. S \subseteq Nat
  BY CellsAreFinite
<1>3. \E m \in S : \A x \in S : m <= x
  <2> DEFINE Upto(m) == {x \in S : x <= m}
  <2> DEFINE Segments == {Upto(m) : m \in S}
  <2>1. Segments \subseteq SUBSET S /\ Segments # {}
    OBVIOUS
  <2> HIDE DEF Upto, Segments
  <2>2. PICK X \in Segments : \A Y \in Segments : ~(Y \subseteq X /\ Y # X)
    BY <1>1, <2>1, SmallestSet
  <2> USE DEF Segments
  <2>4. PICK m \in S : X = Upto(m)
    BY <2>2
  <2>3. ASSUME NEW x \in S, ~(m <= x) PROVE FALSE
    <3>1. x < m
      BY <1>2, <2>3
    <3>2. x \in Nat /\ m \in Nat /\ \A z \in S : z \in Nat
      BY <1>2
    <3>3. \A z \in S : z <= x => z <= m
      BY <3>1, <3>2
    <3>4. Upto(x) \subseteq Upto(m)
      BY <3>3 DEF Upto
    <3>5. m \in Upto(m) /\ m \notin Upto(x)
      BY <2>3, <3>2 DEF Upto
    <3>6. Upto(x) # Upto(m)
      BY <3>5
    <3> QED BY <2>2, <2>4, <3>4, <3>6
  <2> QED BY <2>3
<1>4. \E m \in S : \A x \in S : x <= m
  <2> DEFINE From(m) == {x \in S : m <= x}
  <2> DEFINE Segments == {From(m) : m \in S}
  <2>1. Segments \subseteq SUBSET S /\ Segments # {}
    OBVIOUS
  <2> HIDE DEF From, Segments
  <2>2. PICK X \in Segments : \A Y \in Segments : ~(Y \subseteq X /\ Y # X)
    BY <1>1, <2>1, SmallestSet
  <2> USE DEF Segments
  <2>4. PICK m \in S : X = From(m)
    BY <2>2
  <2>3. ASSUME NEW x \in S, ~(x <= m) PROVE FALSE
    <3>1. m < x
      BY <1>2, <2>3
    <3>2. x \in Nat /\ m \in Nat /\ \A z \in S : z \in Nat
      BY <1>2
    <3>3. \A z \in S : x <= z => m <= z
      BY <3>1, <3>2
    <3>4. From(x) \subseteq From(m)
      BY <3>3 DEF From
    <3>5. m \in From(m) /\ m \notin From(x)
      BY <2>3, <3>2 DEF From
    <3>6. From(x) # From(m)
      BY <3>5
    <3> QED BY <2>2, <2>4, <3>4, <3>6
  <2> QED BY <2>3
<1>5. Min(S) \in S /\ \A x \in S : Min(S) <= x
  BY <1>3 DEF Min
<1> QED BY <1>1, <1>4, <1>5

\* The first n of a set are at most n, and not none.
LEMMA FirstOfIsBounded ==
    ASSUME NEW S, S \subseteq Cells, NEW n \in Nat
    PROVE  /\ FirstOf(n, S) \subseteq S
           /\ IsFiniteSet(FirstOf(n, S)) /\ Cardinality(FirstOf(n, S)) <= n
           /\ n # 0 /\ S # {} => FirstOf(n, S) # {}
<1> DEFINE F == FirstOf(n, S)
           Below(d) == {e \in S : e < d}
<1>1. F \subseteq S /\ \A d \in F : Cardinality(Below(d)) < n
  BY DEF FirstOf
<1>2. S \subseteq Nat /\ \A X \in SUBSET S : IsFiniteSet(X) /\ Cardinality(X) \in Nat
  BY CellsAreFinite
<1>3. Cardinality(F) <= n
  <2>1. CASE F = {}
    BY <2>1, FS_EmptySet
  <2>2. CASE F # {}
    <3>1. PICK m \in F : \A x \in F : x <= m
      BY <1>1, <2>2, FirstAndLast
    <3>2. F \subseteq Below(m) \cup {m}
      <4>1. \A x \in F : x \in S /\ x \in Nat /\ m \in Nat /\ x <= m
        BY <1>1, <1>2, <3>1
      <4>2. \A x \in F : x < m \/ x = m
        BY <4>1
      <4> QED BY <4>1, <4>2
    <3>3. /\ IsFiniteSet(Below(m)) /\ m \notin Below(m)
          /\ Cardinality(Below(m)) < n /\ Cardinality(Below(m)) \in Nat
      <4>1. Below(m) \in SUBSET S /\ m \in Nat
        BY <1>1, <1>2, <3>1
      <4>2. m \notin Below(m)
        BY <4>1
      <4> HIDE DEF Below
      <4> QED BY <1>1, <1>2, <3>1, <4>1, <4>2
    <3> HIDE DEF Below, F
    <3>4. /\ IsFiniteSet(Below(m) \cup {m})
          /\ Cardinality(Below(m) \cup {m}) = Cardinality(Below(m)) + 1
      BY <3>3, FS_AddElement
    <3>5. Cardinality(F) <= Cardinality(Below(m) \cup {m}) /\ Cardinality(F) \in Nat
      BY <1>1, <1>2, <3>2, <3>4, FS_Subset, FS_CardinalityType
    <3> QED BY <3>3, <3>4, <3>5
  <2> QED BY <2>1, <2>2
<1>4. ASSUME n # 0, S # {} PROVE F # {}
  <2>1. Min(S) \in S /\ \A x \in S : Min(S) <= x
    BY <1>4, FirstAndLast
  <2>2. Below(Min(S)) = {}
    <3>1. \A x \in S : x \in Nat /\ Min(S) \in Nat /\ Min(S) <= x
      BY <1>2, <2>1
    <3>2. \A x \in S : ~(x < Min(S))
      BY <3>1
    <3> QED BY <3>2
  <2>3. Cardinality(Below(Min(S))) < n
    BY <1>4, <2>2, FS_EmptySet
  <2> QED BY <2>1, <2>3 DEF FirstOf
<1> QED BY <1>1, <1>2, <1>3, <1>4

\* Slots of one cell each are joined to the cells in order.
LEMMA SlotsAreJoined ==
    ASSUME NEW slots, slots = [c \in Cells |-> <<c>>]
    PROVE  FlattenSeq(slots) = [c \in Cells |-> c]
<1> DEFINE Upto(i) == [c \in 1 .. i |-> c]
           Joins(f) == f = [i \in 1 .. CellCount |->
                                IF i = 1 THEN slots[i] ELSE f[i - 1] \o slots[i]]
           joined == [i \in 1 .. CellCount |-> Upto(i)]
           flatten == CHOOSE f : Joins(f)
<1>1. CellCount \in Nat \ {0} /\ Cells = 1 .. CellCount
  BY CellsAreFinite
<1>2. Len(slots) = CellCount /\ \A i \in 1 .. CellCount : slots[i] = <<i>>
  BY <1>1
<1>3. FlattenSeq(slots) = flatten[CellCount]
  BY <1>1, <1>2 DEF FlattenSeq
<1>4. \A i \in Nat \ {0} : Upto(i) \o <<i + 1>> = Upto(i + 1)
  OBVIOUS
<1>5. Upto(1) = <<1>>
  OBVIOUS
<1>6. Joins(joined)
  <2>1. ASSUME NEW i \in 1 .. CellCount
        PROVE  Upto(i) = IF i = 1 THEN slots[i] ELSE joined[i - 1] \o slots[i]
    <3>1. CASE i = 1
      BY <1>2, <1>5, <2>1, <3>1
    <3>2. CASE i # 1
      <4>1. i - 1 \in Nat \ {0} /\ i - 1 \in 1 .. CellCount /\ (i - 1) + 1 = i
        BY <1>1, <2>1, <3>2
      <4>2. joined[i - 1] = Upto(i - 1)
        BY <4>1
      <4> HIDE DEF joined, Upto
      <4> QED BY <1>2, <1>4, <2>1, <3>2, <4>1, <4>2
    <3> QED BY <3>1, <3>2
  <2> HIDE DEF Upto
  <2> QED BY <2>1
<1>7. Joins(flatten)
  <2> HIDE DEF Joins, joined
  <2> QED BY <1>6
<1> HIDE DEF flatten
<1>8. \A i \in 1 .. CellCount : flatten[i] = Upto(i)
  <2> SUFFICES ASSUME {i \in 1 .. CellCount : flatten[i] # Upto(i)} # {} PROVE FALSE
    OBVIOUS
  <2> DEFINE wrong == {i \in 1 .. CellCount : flatten[i] # Upto(i)}
             i == Min(wrong)
  <2>1. i \in wrong /\ \A j \in wrong : i <= j
    BY <1>1, FirstAndLast
  <2>2. i \in 1 .. CellCount /\ flatten[i] # Upto(i)
    BY <2>1
  <2> HIDE DEF i
  <2>3. flatten[i] = IF i = 1 THEN slots[i] ELSE flatten[i - 1] \o slots[i]
    BY <1>7, <2>2
  <2>4. CASE i = 1
    <3> HIDE DEF Upto
    <3> QED BY <1>2, <1>5, <2>2, <2>3, <2>4
  <2>5. CASE i # 1
    <3>1. i - 1 \in Nat \ {0} /\ i - 1 \in 1 .. CellCount /\ (i - 1) + 1 = i /\ ~(i <= i - 1)
      BY <1>1, <2>2, <2>5
    <3> HIDE DEF Upto
    <3>2. flatten[i - 1] = Upto(i - 1)
      BY <2>1, <3>1
    <3> QED BY <1>2, <1>4, <2>2, <2>3, <2>5, <3>1, <3>2
  <2> QED BY <2>4, <2>5
<1> HIDE DEF Upto
<1>9. flatten[CellCount] = Upto(CellCount)
  BY <1>1, <1>8
<1> QED BY <1>1, <1>3, <1>9 DEF Upto

-----------------------------------------------------------------------------
(***************************************************************************)
(* The kinds of steps.                                                     *)
(***************************************************************************)
\* The parent in the pool is of its type, and neither idle nor before the scan.
LEMMA ParentInPool ==
    ASSUME PoolInduction, InPool
    PROVE  /\ parent \in PoolType
           /\ \A d \in parent.running : d \in parent.futures /\ parent.result[d] = None
           /\ \A d \in parent.batch : d \in parent.futures /\ parent.result[d] # None
           /\ PoolIsSound(parent)
<1>1. parent # Idle
  BY DEF InPool, Idle
<1>2. parent \notin [pc: {"check", "scan"}, overwrite: BOOLEAN, declared: Declarations]
  BY DEF InPool
<1>3. ParentOK
  BY DEF PoolInduction, TypeOK
<1>4. parent \in PoolType /\ parent.running \subseteq parent.futures \ Finished
      /\ parent.batch \subseteq Finished
  BY <1>1, <1>2, <1>3 DEF ParentOK
<1> QED BY <1>4 DEF PoolInduction, Finished

\* Dispatches are cells, of which each names itself.
LEMMA DispatchesAreCells ==
    /\ Dispatches \subseteq Cells /\ Cells \subseteq Nat \ {0} /\ CellCount \in Nat \ {0}
    /\ \A c \in Cells : DispatchOf[c] \in Dispatches /\ DispatchOf[c] <= c
    /\ \A d \in Dispatches : DispatchOf[d] = d
    /\ \A S \in SUBSET Dispatches : IsFiniteSet(S) /\ Cardinality(S) \in Nat
<1>1. /\ Cells \subseteq Nat \ {0} /\ CellCount \in Nat \ {0}
      /\ \A c \in Cells : DispatchOf[c] \in Dispatches /\ DispatchOf[c] <= c
      /\ Dispatches \subseteq Cells
      /\ \A d \in Dispatches : DispatchOf[d] = d
  BY ConstantsAssumption DEF Dispatches, Cells
<1>2. \A S \in SUBSET Dispatches : S \in SUBSET Cells
  BY <1>1
<1> QED BY <1>1, <1>2, CellsAreFinite

\* A step that leaves the files alone and brings the parent where all is sound.
LEMMA ParentMoves ==
    ASSUME PoolInduction, NEW new \in PoolType, parent' = new,
           UNCHANGED <<declared, files>>, disturbances' \in 0 .. MaxDisturbances,
           \A d \in new.running : d \in new.futures /\ new.result[d] = None,
           \A d \in new.batch : d \in new.futures /\ new.result[d] # None,
           PoolIsSound(new)
    PROVE  PoolInduction'
<1>1. TypeOK'
  <2>1. ParentOK'
    BY DEF ParentOK, Finished
  <2> QED BY <2>1 DEF PoolInduction, TypeOK, files
<1>2. FirstCellsComeFirst'
  BY DEF PoolInduction, FirstCellsComeFirst, files
<1>3. PoolIsSound(parent)'
  BY DEF PoolIsSound, IsInOnePlace, CellsArePublished, CellIsWritten, WindowIsFull, PhasesFollow,
     NothingToReuse, Outstanding, IsRemaining, IsPublished, HasDiagnostic, HasCheckpoint,
     HasRecord, HasSlot, CheckpointIsReusable, files
<1> QED BY <1>1, <1>2, <1>3 DEF PoolInduction

\* A step that ends the command, or that is not yet in the pool.
LEMMA OutsideStep ==
    ASSUME PoolInduction, UNCHANGED <<diagnostic, checkpoint, record>>,
           run' \in [state: {"Completed", "Invalid"}, declared: Declarations] \cup {None},
           declared' \in Declarations, disturbances' \in 0 .. MaxDisturbances,
           \/ parent' = Idle
           \/ parent' \in [pc: {"check", "scan"}, overwrite: BOOLEAN, declared: Declarations]
    PROVE  PoolInduction'
<1>1. TypeOK'
  BY DEF PoolInduction, TypeOK, ParentOK
<1>2. ~InPool'
  BY DEF InPool, Idle
<1>3. FirstCellsComeFirst'
  BY DEF PoolInduction, FirstCellsComeFirst
<1> QED BY <1>1, <1>2, <1>3 DEF PoolInduction

-----------------------------------------------------------------------------
(***************************************************************************)
(* The steps of the pool.                                                  *)
(***************************************************************************)
\* A worker takes what was submitted first: nothing is decided by who is running.
LEMMA BeginStep ==
    ASSUME PoolInduction, Begin
    PROVE  PoolInduction'
<1> DEFINE me == parent
           waiting == {d \in me.futures \ me.running : me.result[d] = None}
           new == [me EXCEPT !.running = @ \cup {Min(waiting)}]
<1>1. /\ InPool /\ waiting # {} /\ parent' = new /\ UNCHANGED <<declared, files, disturbances>>
  BY DEF Begin, InPool
<1>2. /\ me \in PoolType /\ \A x \in me.running : x \in me.futures /\ me.result[x] = None
      /\ \A d \in me.batch : d \in me.futures /\ me.result[d] # None
      /\ PoolIsSound(me)
  BY <1>1, ParentInPool
<1>3. Min(waiting) \in waiting
  <2>1. waiting \subseteq Cells
    BY <1>2, DispatchesAreCells DEF PoolType
  <2> HIDE DEF waiting
  <2> QED BY <1>1, <2>1, FirstAndLast
<1>4. Min(waiting) \in me.futures /\ me.result[Min(waiting)] = None
  BY <1>3
<1>5. disturbances' \in 0 .. MaxDisturbances
  BY <1>1 DEF PoolInduction, TypeOK
<1> HIDE DEF waiting, me
<1>6. new \in PoolType
  BY <1>2, <1>4 DEF PoolType
<1>7. /\ new.running = me.running \cup {Min(waiting)} /\ new.futures = me.futures
      /\ new.pc = me.pc /\ new.overwrite = me.overwrite /\ new.declared = me.declared
      /\ new.workers = me.workers /\ new.result = me.result /\ new.reused = me.reused
      /\ new.pending = me.pending /\ new.batch = me.batch /\ new.writing = me.writing
      /\ new.stage = me.stage /\ new.slots = me.slots /\ new.failed = me.failed
  BY <1>2 DEF PoolType
<1> HIDE DEF new
<1>8. PoolIsSound(new)
  BY <1>2, <1>7
  DEF PoolIsSound, IsInOnePlace, CellsArePublished, CellIsWritten, WindowIsFull, PhasesFollow,
     NothingToReuse, Outstanding, IsRemaining, IsPublished, HasDiagnostic, HasCheckpoint,
     HasRecord, HasSlot
<1> QED BY <1>1, <1>2, <1>4, <1>5, <1>6, <1>7, <1>8, ParentMoves

\* An execution that ends is of a dispatch of which nothing is published.
LEMMA FinishStep ==
    ASSUME PoolInduction, NEW d \in Dispatches, Finish(d)
    PROVE  PoolInduction'
<1> DEFINE me == parent
<1>1. PICK e \in Executions :
        /\ parent' = [me EXCEPT !.running = @ \ {d}, !.result[d] = e]
        /\ IF e.state = "Failed" THEN d \in Unreliable /\ Disturb ELSE UNCHANGED disturbances
  BY DEF Finish
<1> DEFINE new == [me EXCEPT !.running = @ \ {d}, !.result[d] = e]
<1>2. InPool /\ d \in me.running /\ UNCHANGED <<declared, files>>
  BY DEF Finish, InPool
<1>3. /\ me \in PoolType /\ \A x \in me.running : x \in me.futures /\ me.result[x] = None
      /\ \A x \in me.batch : x \in me.futures /\ me.result[x] # None
      /\ PoolIsSound(me)
  BY <1>2, ParentInPool
<1>4. disturbances' \in 0 .. MaxDisturbances
  BY <1>1, ConstantsAssumption DEF PoolInduction, TypeOK, Disturb
<1>5. e # None
  BY NoneAssumption
<1> HIDE DEF me
<1>6. new \in PoolType
  BY <1>3 DEF PoolType
<1>7. /\ new.running = me.running \ {d} /\ new.futures = me.futures
      /\ new.pc = me.pc /\ new.overwrite = me.overwrite /\ new.declared = me.declared
      /\ new.workers = me.workers /\ new.result = [me.result EXCEPT ![d] = e]
      /\ new.reused = me.reused
      /\ new.pending = me.pending /\ new.batch = me.batch /\ new.writing = me.writing
      /\ new.stage = me.stage /\ new.slots = me.slots /\ new.failed = me.failed
  BY <1>3 DEF PoolType
<1>8. new.result[d] = e /\ \A x \in Dispatches \ {d} : new.result[x] = me.result[x]
  BY <1>3, <1>7 DEF PoolType
<1>9. d \in me.futures /\ d \in Outstanding(me) /\ Outstanding(new) = Outstanding(me)
  BY <1>2, <1>3, <1>7 DEF Outstanding
<1>10. me.writing # 0 => /\ me.writing \in Cells /\ DispatchOf[me.writing] \in Dispatches
                         /\ DispatchOf[me.writing] # d
  BY <1>3, <1>9, DispatchesAreCells DEF PoolIsSound, IsInOnePlace, PoolType
<1>11. me.futures \subseteq Dispatches /\ me.reused \subseteq Dispatches
       /\ \A x \in me.batch : x \in Dispatches
  BY <1>3 DEF PoolType
<1> HIDE DEF new
<1>12. CellsArePublished(new)
  <2>1. ASSUME NEW c \in Cells, ~IsRemaining(me, c), IsPublished(me, c)
        PROVE  ~IsRemaining(new, c) /\ IsPublished(new, c)
    <3>1. DispatchOf[c] \in Dispatches /\ DispatchOf[c] # d
      BY <1>9, <2>1, DispatchesAreCells DEF IsRemaining
    <3>2. new.result[DispatchOf[c]] = me.result[DispatchOf[c]]
      BY <1>8, <3>1
    <3> QED BY <1>7, <1>9, <2>1, <3>2
        DEF IsRemaining, IsPublished, HasDiagnostic, HasCheckpoint, HasRecord, HasSlot
  <2>2. \A c \in Cells : IsRemaining(me, c) => IsRemaining(new, c)
    BY <1>7, <1>9 DEF IsRemaining
  <2> QED BY <1>3, <1>7, <2>1, <2>2 DEF PoolIsSound, CellsArePublished
<1>13. CellIsWritten(new)
  BY <1>3, <1>7, <1>8, <1>10
  DEF PoolIsSound, CellIsWritten, HasDiagnostic, HasCheckpoint, HasSlot
<1>14. NothingToReuse(new)
  BY <1>3, <1>5, <1>7, <1>8, <1>11 DEF PoolIsSound, NothingToReuse
<1>15. IsInOnePlace(new) /\ WindowIsFull(new) /\ PhasesFollow(new)
  BY <1>3, <1>5, <1>7, <1>8, <1>9, <1>11
  DEF PoolIsSound, IsInOnePlace, WindowIsFull, PhasesFollow
<1>16. /\ \A x \in new.running : x \in new.futures /\ new.result[x] = None
       /\ \A x \in new.batch : x \in new.futures /\ new.result[x] # None
  BY <1>3, <1>5, <1>7, <1>8, <1>11
<1>17. PoolIsSound(new)
  BY <1>12, <1>13, <1>14, <1>15 DEF PoolIsSound
<1>18. parent' = new
  BY <1>1 DEF new, me
<1> QED BY <1>2, <1>4, <1>6, <1>16, <1>17, <1>18, ParentMoves

\* The batch is what has finished.
LEMMA WaitStep ==
    ASSUME PoolInduction, Wait
    PROVE  PoolInduction'
<1> DEFINE me == parent
           new == [me EXCEPT !.batch = Finished]
<1>1. InPool /\ parent' = new /\ UNCHANGED <<declared, files, disturbances>>
  BY DEF Wait, InPool
<1>2. /\ me \in PoolType /\ \A x \in me.running : x \in me.futures /\ me.result[x] = None
      /\ PoolIsSound(me)
  BY <1>1, ParentInPool
<1>3. Finished = {d \in me.futures : me.result[d] # None}
  BY DEF Finished
<1>4. disturbances' \in 0 .. MaxDisturbances
  BY <1>1 DEF PoolInduction, TypeOK
<1> HIDE DEF me
<1>5. new \in PoolType
  BY <1>2, <1>3 DEF PoolType
<1>6. /\ new.running = me.running /\ new.futures = me.futures
      /\ new.pc = me.pc /\ new.overwrite = me.overwrite /\ new.declared = me.declared
      /\ new.workers = me.workers /\ new.result = me.result /\ new.reused = me.reused
      /\ new.pending = me.pending /\ new.batch = Finished /\ new.writing = me.writing
      /\ new.stage = me.stage /\ new.slots = me.slots /\ new.failed = me.failed
  BY <1>2 DEF PoolType
<1> HIDE DEF new
<1>7. PoolIsSound(new)
  BY <1>2, <1>6
  DEF PoolIsSound, IsInOnePlace, CellsArePublished, CellIsWritten, WindowIsFull, PhasesFollow,
     NothingToReuse, Outstanding, IsRemaining, IsPublished, HasDiagnostic, HasCheckpoint,
     HasRecord, HasSlot
<1>8. /\ \A d \in new.batch : d \in new.futures /\ new.result[d] # None
      /\ \A d \in new.running : d \in new.futures /\ new.result[d] = None
  BY <1>2, <1>3, <1>6
<1> QED BY <1>1, <1>2, <1>4, <1>5, <1>6, <1>7, <1>8, ParentMoves

\* A dispatch that is taken out is written from its first cell: all of its cells remain.
LEMMA TakingIsSound ==
    ASSUME NEW me \in PoolType, NEW new \in PoolType, PoolIsSound(me),
           me.writing = 0, NEW d \in Outstanding(me), me.result[d] # None,
           new.writing = d, Outstanding(new) = Outstanding(me) \ {d},
           new.pc = me.pc, me.pc # "publish",
           new.declared = me.declared, new.result = me.result,
           new.stage = me.stage, new.slots = me.slots, new.failed = me.failed
    PROVE  CellsArePublished(new) /\ CellIsWritten(new)
           /\ DispatchOf[new.writing] \notin Outstanding(new)
<1>1. d \in Dispatches /\ d # 0 /\ DispatchOf[d] = d
  BY DispatchesAreCells DEF Outstanding, PoolType
<1>2. \A c \in Cells : c \in Nat /\ (DispatchOf[c] = d => c >= d)
  BY DispatchesAreCells
<1>3. \A c \in Cells : IsRemaining(me, c) <=> IsRemaining(new, c)
  BY <1>1, <1>2 DEF IsRemaining
<1>4. \A c \in Cells : IsPublished(me, c) => IsPublished(new, c)
  BY DEF IsPublished, HasDiagnostic, HasCheckpoint, HasRecord, HasSlot
<1>5. me.stage = "diagnostic"
  BY DEF PoolIsSound, CellIsWritten
<1>6. CellsArePublished(new)
  BY <1>3, <1>4, <1>5 DEF PoolIsSound, CellsArePublished
<1>7. CellIsWritten(new)
  BY <1>1, <1>5 DEF CellIsWritten
<1> QED BY <1>1, <1>6, <1>7

\* Taking out one execution and submitting another keeps the window as it is.
LEMMA TakeStep ==
    ASSUME PoolInduction, NEW d \in Dispatches, Take(d)
    PROVE  PoolInduction'
<1> DEFINE me == parent
           next == Refill(me)
           new == [me EXCEPT !.batch = @ \ {d}, !.futures = (@ \ {d}) \cup next,
                             !.pending = @ \ next, !.writing = d]
<1>1. /\ InPool /\ me.pc = "pool" /\ me.writing = 0 /\ d \in me.batch
      /\ parent' = new /\ UNCHANGED <<declared, files, disturbances>>
  BY DEF Take, InPool
<1>2. /\ me \in PoolType /\ \A x \in me.running : x \in me.futures /\ me.result[x] = None
      /\ \A x \in me.batch : x \in me.futures /\ me.result[x] # None
      /\ PoolIsSound(me)
  BY <1>1, ParentInPool
<1>3. disturbances' \in 0 .. MaxDisturbances
  BY <1>1 DEF PoolInduction, TypeOK
<1> HIDE DEF me
<1>4. /\ (next \subseteq me.pending /\ next # {}) \/ me.pending = {}
      /\ \E x : next \subseteq {x}
  <2>1. CASE me.pending = {}
    BY <2>1 DEF Refill
  <2>2. CASE me.pending # {}
    <3>1. me.pending \subseteq Cells
      BY <1>2, DispatchesAreCells DEF PoolType
    <3>2. Min(me.pending) \in me.pending
      BY <2>2, <3>1, FirstAndLast
    <3> QED BY <2>2, <3>2 DEF Refill
  <2> QED BY <2>1, <2>2
<1>5. next \subseteq me.pending
  BY <1>4 DEF Refill
<1> HIDE DEF next
<1>6. new \in PoolType
  BY <1>2, <1>5, DispatchesAreCells DEF PoolType
<1>7. /\ new.running = me.running /\ new.futures = (me.futures \ {d}) \cup next
      /\ new.pc = me.pc /\ new.overwrite = me.overwrite /\ new.declared = me.declared
      /\ new.workers = me.workers /\ new.result = me.result /\ new.reused = me.reused
      /\ new.pending = me.pending \ next /\ new.batch = me.batch \ {d} /\ new.writing = d
      /\ new.stage = me.stage /\ new.slots = me.slots /\ new.failed = me.failed
  BY <1>2 DEF PoolType
<1> HIDE DEF new
<1>8. /\ me.reused \cap me.pending = {} /\ me.reused \cap me.futures = {}
      /\ me.pending \cap me.futures = {} /\ d \in me.futures /\ me.result[d] # None
  BY <1>1, <1>2 DEF PoolIsSound, IsInOnePlace
<1>9. Outstanding(new) = Outstanding(me) \ {d} /\ d \in Outstanding(me)
  BY <1>5, <1>7, <1>8 DEF Outstanding
<1>10. CellsArePublished(new) /\ CellIsWritten(new) /\ DispatchOf[new.writing] \notin Outstanding(new)
  BY <1>1, <1>2, <1>6, <1>7, <1>8, <1>9, TakingIsSound
<1>11. IsInOnePlace(new)
  BY <1>5, <1>7, <1>8, <1>10 DEF IsInOnePlace
<1>12. PhasesFollow(new)
  BY <1>1, <1>2, <1>7 DEF PoolIsSound, PhasesFollow
<1>13. NothingToReuse(new)
  BY <1>2, <1>5, <1>7 DEF PoolIsSound, NothingToReuse
<1>14. PICK x : next \subseteq {x}
  BY <1>4
<1>15. /\ IsFiniteSet(me.futures) /\ Cardinality(me.futures) \in Nat
       /\ IsFiniteSet(new.futures) /\ Cardinality(new.futures) \in Nat
  BY <1>2, <1>6, DispatchesAreCells DEF PoolType
<1>16. Cardinality(new.futures) <= Cardinality(me.futures)
  <2>1. /\ IsFiniteSet(me.futures \ {d})
        /\ Cardinality(me.futures \ {d}) = Cardinality(me.futures) - 1
    BY <1>8, <1>15, FS_RemoveElement
  <2>2. /\ IsFiniteSet((me.futures \ {d}) \cup {x})
        /\ Cardinality((me.futures \ {d}) \cup {x}) <= Cardinality(me.futures)
    <3> DEFINE rest == me.futures \ {d}
    <3>1. IsFiniteSet(rest) /\ Cardinality(rest) = Cardinality(me.futures) - 1
      BY <2>1
    <3> HIDE DEF rest
    <3>2. /\ IsFiniteSet(rest \cup {x})
          /\ Cardinality(rest \cup {x}) = IF x \in rest THEN Cardinality(rest) ELSE Cardinality(rest) + 1
      BY <3>1, FS_AddElement
    <3>3. Cardinality(rest \cup {x}) <= Cardinality(me.futures)
      BY <1>15, <3>1, <3>2
    <3> QED BY <3>2, <3>3 DEF rest
  <2>3. new.futures \in SUBSET ((me.futures \ {d}) \cup {x})
    BY <1>7, <1>14
  <2>4. /\ Cardinality(new.futures) <= Cardinality((me.futures \ {d}) \cup {x})
        /\ Cardinality((me.futures \ {d}) \cup {x}) \in Nat
    BY <2>2, <2>3, FS_Subset, FS_CardinalityType
  <2> QED BY <1>15, <2>2, <2>4
<1>17. WindowIsFull(new)
  <2>1. new.futures = {} => new.pending = {}
    BY <1>4, <1>7
  <2>2. Cardinality(new.futures) <= 2 * new.workers
    BY <1>2, <1>7, <1>15, <1>16 DEF PoolIsSound, WindowIsFull, PoolType
  <2> QED BY <2>1, <2>2 DEF WindowIsFull
<1>18. PoolIsSound(new)
  BY <1>10, <1>11, <1>12, <1>13, <1>17 DEF PoolIsSound
<1>19. \A y \in new.batch : y \in new.futures /\ new.result[y] # None
  BY <1>2, <1>7
<1>20. \A y \in new.running : y \in new.futures /\ new.result[y] = None
  BY <1>2, <1>7, <1>8
<1> QED BY <1>1, <1>3, <1>6, <1>18, <1>19, <1>20, ParentMoves

\* Executions that are reused are taken out in order, and the pool follows.
LEMMA TakeReusedStep ==
    ASSUME PoolInduction, TakeReused
    PROVE  PoolInduction'
<1> DEFINE me == parent
           first == Min(me.reused)
           begin == [me EXCEPT !.pc = "pool"]
           take == [me EXCEPT !.reused = @ \ {first}, !.writing = first]
<1>1. /\ InPool /\ me.pc = "reused" /\ me.writing = 0
      /\ UNCHANGED <<declared, files, disturbances>>
      /\ IF me.reused = {} THEN parent' = begin ELSE parent' = take
  BY DEF TakeReused, InPool
<1>2. /\ me \in PoolType /\ \A x \in me.running : x \in me.futures /\ me.result[x] = None
      /\ \A x \in me.batch : x \in me.futures /\ me.result[x] # None
      /\ PoolIsSound(me)
  BY <1>1, ParentInPool
<1>3. disturbances' \in 0 .. MaxDisturbances
  BY <1>1 DEF PoolInduction, TypeOK
<1> HIDE DEF me
<1>4. CASE me.reused = {}
  <2>1. begin \in PoolType
    BY <1>2 DEF PoolType
  <2>2. /\ begin.running = me.running /\ begin.futures = me.futures
        /\ begin.pc = "pool" /\ begin.overwrite = me.overwrite /\ begin.declared = me.declared
        /\ begin.workers = me.workers /\ begin.result = me.result /\ begin.reused = me.reused
        /\ begin.pending = me.pending /\ begin.batch = me.batch /\ begin.writing = me.writing
        /\ begin.stage = me.stage /\ begin.slots = me.slots /\ begin.failed = me.failed
    BY <1>2 DEF PoolType
  <2> HIDE DEF begin
  <2>3. PoolIsSound(begin)
    BY <1>2, <1>4, <2>2
    DEF PoolIsSound, IsInOnePlace, CellsArePublished, CellIsWritten, WindowIsFull, PhasesFollow,
       NothingToReuse, Outstanding, IsRemaining, IsPublished, HasDiagnostic, HasCheckpoint,
       HasRecord, HasSlot
  <2> QED BY <1>1, <1>2, <1>3, <1>4, <2>1, <2>2, <2>3, ParentMoves
<1>5. CASE me.reused # {}
  <2>1. first \in me.reused
    <3>1. me.reused \subseteq Cells
      BY <1>2, DispatchesAreCells DEF PoolType
    <3> QED BY <1>5, <3>1, FirstAndLast
  <2> HIDE DEF first
  <2>2. take \in PoolType
    BY <1>2, <2>1, DispatchesAreCells DEF PoolType
  <2>3. /\ take.running = me.running /\ take.futures = me.futures
        /\ take.pc = me.pc /\ take.overwrite = me.overwrite /\ take.declared = me.declared
        /\ take.workers = me.workers /\ take.result = me.result
        /\ take.reused = me.reused \ {first}
        /\ take.pending = me.pending /\ take.batch = me.batch /\ take.writing = first
        /\ take.stage = me.stage /\ take.slots = me.slots /\ take.failed = me.failed
    BY <1>2 DEF PoolType
  <2> HIDE DEF take
  <2>4. /\ me.reused \cap me.pending = {} /\ me.reused \cap me.futures = {}
        /\ me.pending \cap me.futures = {} /\ me.result[first] # None
    BY <1>2, <2>1 DEF PoolIsSound, IsInOnePlace, PhasesFollow
  <2>5. Outstanding(take) = Outstanding(me) \ {first} /\ first \in Outstanding(me)
    BY <2>1, <2>3, <2>4 DEF Outstanding
  <2>6. /\ CellsArePublished(take) /\ CellIsWritten(take)
        /\ DispatchOf[take.writing] \notin Outstanding(take)
    BY <1>1, <1>2, <2>2, <2>3, <2>4, <2>5, TakingIsSound
  <2>7. IsInOnePlace(take)
    BY <2>3, <2>4, <2>6 DEF IsInOnePlace
  <2>8. PhasesFollow(take) /\ WindowIsFull(take) /\ NothingToReuse(take)
    BY <1>1, <1>2, <2>3 DEF PoolIsSound, PhasesFollow, WindowIsFull, NothingToReuse
  <2>9. PoolIsSound(take)
    BY <2>6, <2>7, <2>8 DEF PoolIsSound
  <2> QED BY <1>1, <1>2, <1>3, <1>5, <2>2, <2>3, <2>9, ParentMoves
<1> QED BY <1>4, <1>5

\* The number of workers is that of the tasks, but at least one and at most those configured.
LEMMA WorkersAreBounded ==
    ASSUME NEW n \in Nat
    PROVE  Max({1, Min({n, Workers})}) \in 1 .. Workers
<1>1. Workers \in Nat \ {0}
  BY ConstantsAssumption
<1>2. Min({n, Workers}) \in Nat /\ Min({n, Workers}) <= Workers
  <2>1. CASE n <= Workers
    <3>1. \A x \in {n, Workers} : n <= x
      BY <1>1, <2>1
    <3> QED BY <1>1, <3>1 DEF Min
  <2>2. CASE ~(n <= Workers)
    <3>1. \A x \in {n, Workers} : Workers <= x
      BY <1>1, <2>2
    <3> QED BY <1>1, <3>1 DEF Min
  <2> QED BY <2>1, <2>2
<1> DEFINE m == Min({n, Workers})
<1> HIDE DEF m
<1>3. m \in Nat /\ m <= Workers
  BY <1>2 DEF m
<1>4. CASE m <= 1
  <2>1. \A x \in {1, m} : 1 >= x
    BY <1>3, <1>4
  <2>2. \A y \in {1, m} : (\A x \in {1, m} : y >= x) => y = 1
    BY <1>3, <1>4
  <2>3. Max({1, m}) = 1
    BY <2>1, <2>2 DEF Max
  <2> QED BY <1>1, <2>3 DEF m
<1>5. CASE ~(m <= 1)
  <2>1. \A x \in {1, m} : m >= x
    BY <1>3, <1>5
  <2>2. \A y \in {1, m} : (\A x \in {1, m} : y >= x) => y = m
    BY <1>3, <1>5
  <2>3. Max({1, m}) = m
    BY <2>1, <2>2 DEF Max
  <2> QED BY <1>3, <1>5, <2>3 DEF m
<1> QED BY <1>4, <1>5

\* The scan puts each dispatch in one place, and all cells remain.
LEMMA ScanStep ==
    ASSUME PoolInduction, Scan
    PROVE  PoolInduction'
<1> DEFINE me == parent
           reused == ScanCheckpoints(me)
           tasks == Dispatches \ reused
           workers == Max({1, Min({Cardinality(tasks), Workers})})
           first == FirstOf(InFlightLimit(workers), tasks)
           result == [d \in Dispatches |-> IF d \in reused THEN checkpoint[d].execution ELSE None]
           slots == [c \in Cells |-> <<>>]
           new == [pc |-> "reused", overwrite |-> me.overwrite, declared |-> me.declared,
                   workers |-> workers, result |-> result,
                   reused |-> reused, pending |-> tasks \ first, futures |-> first,
                   running |-> {}, batch |-> {}, writing |-> 0, stage |-> "diagnostic",
                   slots |-> slots, failed |-> FALSE]
<1>1. /\ me.pc = "scan" /\ parent' = new /\ UNCHANGED <<declared, files, disturbances>>
  BY DEF Scan
<1>2. me.overwrite \in BOOLEAN /\ me.declared \in Declarations
  <2>1. me # Idle /\ me \notin PoolType
    BY <1>1 DEF Idle, PoolType
  <2>2. me \in [pc: {"check", "scan"}, overwrite: BOOLEAN, declared: Declarations]
    BY <2>1 DEF PoolInduction, TypeOK, ParentOK
  <2> QED BY <2>2
<1>3. disturbances' \in 0 .. MaxDisturbances
  BY <1>1 DEF PoolInduction, TypeOK
<1> HIDE DEF me
<1>4. /\ reused \subseteq Dispatches /\ tasks \subseteq Dispatches
      /\ \A d \in reused : checkpoint[d] # None
      /\ ~me.overwrite => \A d \in tasks : ~CheckpointIsReusable(d, me.declared)
  BY DEF ScanCheckpoints, CheckpointIsReusable
<1>5. \A d \in reused : checkpoint[d].execution \in Executions
  <2>1. \A d \in Dispatches : checkpoint[d] \in CheckpointType \cup {None}
    BY DispatchesAreCells DEF PoolInduction, TypeOK
  <2> QED BY <1>4, <2>1 DEF CheckpointType
<1> HIDE DEF reused
<1>6. tasks \subseteq Cells /\ Cardinality(tasks) \in Nat
  BY <1>4, DispatchesAreCells
<1> HIDE DEF tasks
<1>7. workers \in 1 .. Workers /\ Workers \in Nat
  BY <1>6, WorkersAreBounded, ConstantsAssumption
<1> HIDE DEF workers
<1>8. InFlightLimit(workers) \in Nat /\ InFlightLimit(workers) # 0
      /\ InFlightLimit(workers) = 2 * workers
  BY <1>7 DEF InFlightLimit
<1>9. /\ first \subseteq tasks /\ Cardinality(first) <= 2 * workers
      /\ tasks # {} => first # {}
  BY <1>6, <1>8, FirstOfIsBounded
<1> HIDE DEF first
<1>10. result \in [Dispatches -> Executions \cup {None}]
       /\ \A d \in reused : result[d] # None
  BY <1>4, <1>5, NoneAssumption
<1>11. slots \in [Cells -> Seq(Cells)] /\ \A c \in Cells : slots[c] = <<>>
  OBVIOUS
<1> HIDE DEF result, slots
<1>12. new \in PoolType
  BY <1>2, <1>4, <1>7, <1>9, <1>10, <1>11 DEF PoolType
<1>13. /\ new.running = {} /\ new.futures = first /\ new.pc = "reused"
       /\ new.overwrite = me.overwrite /\ new.declared = me.declared
       /\ new.workers = workers /\ new.result = result /\ new.reused = reused
       /\ new.pending = tasks \ first /\ new.batch = {} /\ new.writing = 0
       /\ new.stage = "diagnostic" /\ new.slots = slots
  OBVIOUS
<1> HIDE DEF new
<1>14. reused \cap tasks = {} /\ reused \cup tasks = Dispatches
  BY <1>4 DEF tasks
<1>15. IsInOnePlace(new) /\ Outstanding(new) = Dispatches
  BY <1>9, <1>13, <1>14 DEF IsInOnePlace, Outstanding
<1>16. CellsArePublished(new)
  BY <1>11, <1>13, <1>15, DispatchesAreCells DEF CellsArePublished, IsRemaining
<1>17. CellIsWritten(new) /\ PhasesFollow(new)
  BY <1>10, <1>13 DEF CellIsWritten, PhasesFollow
<1>18. WindowIsFull(new)
  BY <1>9, <1>13 DEF WindowIsFull
<1>19. NothingToReuse(new)
  BY <1>4, <1>9, <1>13 DEF NothingToReuse
<1>20. PoolIsSound(new)
  BY <1>15, <1>16, <1>17, <1>18, <1>19 DEF PoolIsSound
<1> QED BY <1>1, <1>3, <1>12, <1>13, <1>20, ParentMoves

\* A command starts, keeps the run, or is killed.
LEMMA StartStep ==
    ASSUME PoolInduction, NEW overwrite \in BOOLEAN, Start(overwrite)
    PROVE  PoolInduction'
<1>1. /\ parent' = [pc |-> "check", overwrite |-> overwrite, declared |-> declared]
      /\ UNCHANGED <<declared, files>> /\ (Disturb \/ UNCHANGED disturbances)
  BY DEF Start
<1>2. TypeOK
  BY DEF PoolInduction
<1>3. disturbances' \in 0 .. MaxDisturbances
  BY <1>1, <1>2, ConstantsAssumption DEF TypeOK, Disturb
<1>4. parent' \in [pc: {"check", "scan"}, overwrite: BOOLEAN, declared: Declarations]
  BY <1>1, <1>2 DEF TypeOK
<1> QED BY <1>1, <1>2, <1>3, <1>4, OutsideStep DEF files, TypeOK

\* A command whose run is reusable ends, another goes on to the scan.
LEMMA CheckReuseStep ==
    ASSUME PoolInduction, CheckReuse
    PROVE  PoolInduction'
<1>1. /\ parent.pc = "check" /\ UNCHANGED <<declared, files, disturbances>>
      /\ parent' = Idle \/ parent' = [parent EXCEPT !.pc = "scan"]
  BY DEF CheckReuse
<1>2. TypeOK
  BY DEF PoolInduction
<1>3. parent \in [pc: {"check", "scan"}, overwrite: BOOLEAN, declared: Declarations]
  <2>1. parent # Idle /\ parent \notin PoolType
    BY <1>1 DEF Idle, PoolType
  <2> QED BY <1>2, <2>1 DEF TypeOK, ParentOK
<1>4. \/ parent' = Idle
      \/ parent' \in [pc: {"check", "scan"}, overwrite: BOOLEAN, declared: Declarations]
  BY <1>1, <1>3
<1> QED BY <1>1, <1>2, <1>4, OutsideStep DEF files, TypeOK

\* A command that is killed leaves the files as they are.
LEMMA KillStep ==
    ASSUME PoolInduction, Kill
    PROVE  PoolInduction'
<1>1. parent' = Idle /\ UNCHANGED <<declared, files>> /\ Disturb
  BY DEF Kill
<1>2. disturbances' \in 0 .. MaxDisturbances
  BY <1>1, ConstantsAssumption DEF PoolInduction, TypeOK, Disturb
<1> QED BY <1>1, <1>2, OutsideStep DEF files, PoolInduction, TypeOK

\* The run record ends the command.
LEMMA PublishRunStep ==
    ASSUME PoolInduction, PublishRun
    PROVE  PoolInduction'
<1>1. InPool /\ parent.declared \in Declarations
  <2>1. InPool
    BY DEF PublishRun, InPool
  <2> QED BY <2>1, ParentInPool DEF PoolType
<1>2. /\ parent' = Idle /\ UNCHANGED <<declared, diagnostic, checkpoint, record, disturbances>>
      /\ run' \in [state: {"Completed", "Invalid"}, declared: Declarations] \cup {None}
  BY <1>1 DEF PublishRun
<1> QED BY <1>2, OutsideStep DEF PoolInduction, TypeOK

\* An edit leaves the command and the files as they are.
LEMMA EditDeclaredStep ==
    ASSUME PoolInduction, EditDeclared
    PROVE  PoolInduction'
<1>1. declared' \in Declarations /\ UNCHANGED <<files, parent>> /\ Disturb
  BY DEF EditDeclared
<1>2. disturbances' \in 0 .. MaxDisturbances
  BY <1>1, ConstantsAssumption DEF PoolInduction, TypeOK, Disturb
<1>3. TypeOK'
  BY <1>1, <1>2 DEF PoolInduction, TypeOK, ParentOK, Finished, files
<1>4. FirstCellsComeFirst'
  BY <1>1 DEF PoolInduction, FirstCellsComeFirst, files
<1>5. InPool => PoolIsSound(parent)'
  BY <1>1 DEF PoolInduction, PoolIsSound, IsInOnePlace, CellsArePublished, CellIsWritten,
     WindowIsFull, PhasesFollow, NothingToReuse, Outstanding, IsRemaining, IsPublished,
     HasDiagnostic, HasCheckpoint, HasRecord, HasSlot, CheckpointIsReusable, files
<1> QED BY <1>1, <1>3, <1>4, <1>5 DEF PoolInduction, InPool

\* Files are lost between commands, and none of a first cell if such are never lost.
LEMMA LoseFileStep ==
    ASSUME PoolInduction, NEW c \in Losable, LoseFile(c)
    PROVE  PoolInduction'
<1>1. /\ parent = Idle /\ UNCHANGED <<declared, record, statistic, run, parent>> /\ Disturb
      /\ \/ diagnostic' = [diagnostic EXCEPT ![c] = None] /\ UNCHANGED checkpoint
         \/ checkpoint' = [checkpoint EXCEPT ![c] = None] /\ UNCHANGED diagnostic
  BY DEF LoseFile, Active
<1>2. disturbances' \in 0 .. MaxDisturbances
  BY <1>1, ConstantsAssumption DEF PoolInduction, TypeOK, Disturb
<1>3. ~InPool'
  BY <1>1 DEF InPool, Idle
<1>4. TypeOK'
  BY <1>1, <1>2 DEF PoolInduction, TypeOK, ParentOK
<1>5. FirstCellsComeFirst'
  <2> SUFFICES ASSUME LookedUpIsNotLost, NEW x \in Cells, checkpoint'[x] # None
               PROVE  checkpoint'[DispatchOf[x]] # None
    BY DEF FirstCellsComeFirst
  <2>1. checkpoint \in [Cells -> CheckpointType \cup {None}]
    BY DEF PoolInduction, TypeOK
  <2>2. DispatchOf[x] \in Cells /\ DispatchOf[x] # c
    BY DispatchesAreCells DEF LookedUpIsNotLost
  <2>3. checkpoint[x] # None
    BY <1>1, <2>1
  <2>4. checkpoint[DispatchOf[x]] # None
    BY <2>3 DEF PoolInduction, FirstCellsComeFirst
  <2> QED BY <1>1, <2>1, <2>2, <2>4
<1> QED BY <1>3, <1>4, <1>5 DEF PoolInduction

-----------------------------------------------------------------------------
(***************************************************************************)
(* Publishing.                                                             *)
(***************************************************************************)
\* While a cell is written its execution is there and the cell remains.
LEMMA CellBeingWritten ==
    ASSUME PoolInduction, NEW stage, Writing(stage)
    PROVE  LET w == parent.writing
               e == parent.result[DispatchOf[w]]
           IN  /\ InPool /\ parent.pc # "publish" /\ parent.stage = stage
               /\ w \in Cells /\ w # 0 /\ DispatchOf[w] \in Dispatches
               /\ e \in Executions /\ Execution = e
               /\ IsRemaining(parent, w)
               /\ \A d \in parent.pending \cup parent.futures : d \in Dispatches /\ d # w
<1> DEFINE me == parent
           w == me.writing
<1>1. InPool /\ me.pc # "publish" /\ w # 0 /\ me.stage = stage
  BY DEF Writing, InPool
<1>2. me \in PoolType /\ PoolIsSound(me)
  BY <1>1, ParentInPool
<1>3. w \in Cells /\ DispatchOf[w] \in Dispatches
  BY <1>1, <1>2, DispatchesAreCells DEF PoolType
<1>4. me.result[DispatchOf[w]] \in Executions
  BY <1>1, <1>2, <1>3 DEF PoolType, PoolIsSound, CellIsWritten
<1>5. IsRemaining(me, w)
  <2>1. w >= w
    BY <1>3, CellsAreFinite
  <2> QED BY <1>1, <2>1 DEF IsRemaining
<1>6. \A d \in me.pending \cup me.futures : d \in Dispatches /\ d # w
  <2>1. \A d \in me.pending \cup me.futures : d \in Dispatches /\ DispatchOf[d] = d
    BY <1>2, DispatchesAreCells DEF PoolType
  <2>2. DispatchOf[w] \notin me.pending \cup me.futures
    BY <1>1, <1>2 DEF PoolIsSound, IsInOnePlace, Outstanding
  <2> HIDE DEF me
  <2> QED BY <2>1, <2>2
<1> QED BY <1>1, <1>3, <1>4, <1>5, <1>6 DEF Execution

\* The diagnostic of a cell that remains is seen by no other.
LEMMA WriteDiagnosticStep ==
    ASSUME PoolInduction, WriteDiagnostic
    PROVE  PoolInduction'
<1> DEFINE me == parent
           w == me.writing
           e == me.result[DispatchOf[w]]
           new == [me EXCEPT !.stage = "checkpoint"]
<1>1. /\ InPool /\ me.pc # "publish" /\ me.stage = "diagnostic" /\ w \in Cells /\ w # 0
      /\ e \in Executions /\ Execution = e /\ IsRemaining(me, w)
  BY CellBeingWritten DEF WriteDiagnostic
<1>2. /\ diagnostic' = [diagnostic EXCEPT ![w] = e] /\ parent' = new
      /\ UNCHANGED <<declared, checkpoint, record, statistic, run, disturbances>>
  BY <1>1 DEF WriteDiagnostic
<1>3. /\ me \in PoolType /\ \A x \in me.running : x \in me.futures /\ me.result[x] = None
      /\ \A x \in me.batch : x \in me.futures /\ me.result[x] # None
      /\ PoolIsSound(me)
  BY <1>1, ParentInPool
<1>4. TypeOK
  BY DEF PoolInduction
<1> HIDE DEF me
<1>5. new \in PoolType
  BY <1>3 DEF PoolType
<1>6. /\ new.running = me.running /\ new.futures = me.futures
      /\ new.pc = me.pc /\ new.overwrite = me.overwrite /\ new.declared = me.declared
      /\ new.workers = me.workers /\ new.result = me.result /\ new.reused = me.reused
      /\ new.pending = me.pending /\ new.batch = me.batch /\ new.writing = w
      /\ new.stage = "checkpoint" /\ new.slots = me.slots /\ new.failed = me.failed
  BY <1>3 DEF PoolType
<1> HIDE DEF new
<1>7. diagnostic'[w] = e /\ \A c \in Cells \ {w} : diagnostic'[c] = diagnostic[c]
  BY <1>1, <1>2, <1>4 DEF TypeOK
<1>8. TypeOK'
  <2>1. ParentOK'
    BY <1>2, <1>3, <1>5, <1>6 DEF ParentOK, Finished
  <2> QED BY <1>1, <1>2, <1>4, <2>1 DEF TypeOK
<1>9. FirstCellsComeFirst'
  BY <1>2 DEF PoolInduction, FirstCellsComeFirst
<1>10. CellsArePublished(parent)'
  <2>1. \A c \in Cells : IsRemaining(parent, c)' <=> IsRemaining(me, c)
    BY <1>2, <1>6 DEF IsRemaining, Outstanding
  <2>2. \A c \in Cells : ~IsRemaining(me, c) /\ IsPublished(me, c) => IsPublished(parent, c)'
    BY <1>1, <1>2, <1>6, <1>7
    DEF IsPublished, HasDiagnostic, HasCheckpoint, HasRecord, HasSlot
  <2> QED BY <1>1, <1>2, <1>3, <1>6, <2>1, <2>2 DEF PoolIsSound, CellsArePublished
<1>11. CellIsWritten(parent)'
  BY <1>1, <1>2, <1>3, <1>6, <1>7 DEF PoolIsSound, CellIsWritten, HasDiagnostic
<1>12. /\ IsInOnePlace(parent)' /\ WindowIsFull(parent)' /\ PhasesFollow(parent)'
       /\ NothingToReuse(parent)'
  BY <1>1, <1>2, <1>3, <1>6
  DEF PoolIsSound, IsInOnePlace, WindowIsFull, PhasesFollow, NothingToReuse, Outstanding,
      CheckpointIsReusable
<1> QED BY <1>8, <1>9, <1>10, <1>11, <1>12 DEF PoolInduction, PoolIsSound

\* The checkpoint of a cell that remains is not one that is to be looked up, and the
\* checkpoint of the first cell of its dispatch is there or is this one.
LEMMA WriteCheckpointStep ==
    ASSUME PoolInduction, WriteCheckpoint
    PROVE  PoolInduction'
<1> DEFINE me == parent
           w == me.writing
           e == me.result[DispatchOf[w]]
           slot == IF e.state = "Completed" THEN Append(me.slots[w], w) ELSE me.slots[w]
           new == [me EXCEPT !.stage = "record", !.slots[w] = slot]
<1>1. /\ InPool /\ me.pc # "publish" /\ me.stage = "checkpoint" /\ w \in Cells /\ w # 0
      /\ e \in Executions /\ Execution = e /\ IsRemaining(me, w)
      /\ \A d \in me.pending \cup me.futures : d \in Dispatches /\ d # w
  BY CellBeingWritten DEF WriteCheckpoint
<1>2. /\ checkpoint' = [checkpoint EXCEPT ![w] =
                            [material |-> me.declared.material, execution |-> e]]
      /\ parent' = new
      /\ UNCHANGED <<declared, diagnostic, record, statistic, run, disturbances>>
  BY <1>1 DEF WriteCheckpoint, CheckpointOf, SlotOf
<1>3. /\ me \in PoolType /\ \A x \in me.running : x \in me.futures /\ me.result[x] = None
      /\ \A x \in me.batch : x \in me.futures /\ me.result[x] # None
      /\ PoolIsSound(me)
  BY <1>1, ParentInPool
<1>4. TypeOK
  BY DEF PoolInduction
<1> DEFINE written == [material |-> me.declared.material, execution |-> e]
<1>5. written \in CheckpointType /\ written # None
  <2>1. me.declared.material \in Materials
    BY <1>3 DEF PoolType, Declarations
  <2> QED BY <1>1, <2>1, NoneAssumption DEF CheckpointType
<1>6. me.slots[w] = <<>>
  BY <1>1, <1>3 DEF PoolIsSound, CellsArePublished
<1>7. slot \in Seq(Cells) /\ slot = IF e.state = "Completed" THEN <<w>> ELSE <<>>
  BY <1>1, <1>6
<1> HIDE DEF me, slot, written
<1>8. new \in PoolType
  BY <1>1, <1>3, <1>7 DEF PoolType
<1>9. /\ new.running = me.running /\ new.futures = me.futures
      /\ new.pc = me.pc /\ new.overwrite = me.overwrite /\ new.declared = me.declared
      /\ new.workers = me.workers /\ new.result = me.result /\ new.reused = me.reused
      /\ new.pending = me.pending /\ new.batch = me.batch /\ new.writing = w
      /\ new.stage = "record" /\ new.slots = [me.slots EXCEPT ![w] = slot]
      /\ new.failed = me.failed
  BY <1>3 DEF PoolType
<1>10. new.slots[w] = slot /\ \A c \in Cells \ {w} : new.slots[c] = me.slots[c]
  BY <1>1, <1>3, <1>9 DEF PoolType
<1> HIDE DEF new
<1>11. checkpoint'[w] = written /\ \A c \in Cells \ {w} : checkpoint'[c] = checkpoint[c]
  BY <1>1, <1>2, <1>4 DEF TypeOK, written
<1>12. TypeOK'
  <2>1. ParentOK'
    BY <1>2, <1>3, <1>8, <1>9 DEF ParentOK, Finished
  <2>2. checkpoint' \in [Cells -> CheckpointType \cup {None}]
    BY <1>2, <1>4, <1>5 DEF TypeOK, written
  <2> QED BY <1>2, <1>4, <2>1, <2>2 DEF TypeOK
<1>13. CellsArePublished(parent)'
  <2>1. \A c \in Cells : IsRemaining(parent, c)' <=> IsRemaining(me, c)
    BY <1>2, <1>9 DEF IsRemaining, Outstanding
  <2>2. \A c \in Cells \ {w} : IsPublished(me, c) => IsPublished(parent, c)'
    BY <1>2, <1>9, <1>10, <1>11
    DEF IsPublished, HasDiagnostic, HasCheckpoint, HasRecord, HasSlot
  <2>3. ASSUME NEW c \in Cells
        PROVE  \/ ~IsRemaining(parent, c)' /\ IsPublished(parent, c)'
               \/ IsRemaining(parent, c)' /\ parent'.slots[c] = <<>>
               \/ c = parent'.writing /\ parent'.stage = "record"
    <3>1. CASE c = w
      BY <1>2, <1>9, <3>1
    <3>2. CASE c # w
      BY <1>2, <1>3, <1>9, <1>10, <2>1, <2>2, <3>2 DEF PoolIsSound, CellsArePublished
    <3> QED BY <3>1, <3>2
  <2> QED BY <2>3 DEF CellsArePublished
<1>14. CellIsWritten(parent)'
  BY <1>1, <1>2, <1>3, <1>7, <1>9, <1>10, <1>11
  DEF PoolIsSound, CellIsWritten, HasDiagnostic, HasCheckpoint, HasSlot, written
<1>15. NothingToReuse(parent)'
  <2>1. \A d \in me.pending \cup me.futures : checkpoint'[d] = checkpoint[d]
    BY <1>1, <1>11, DispatchesAreCells
  <2> QED BY <1>2, <1>3, <1>9, <2>1 DEF PoolIsSound, NothingToReuse, CheckpointIsReusable
<1>16. IsInOnePlace(parent)' /\ WindowIsFull(parent)' /\ PhasesFollow(parent)'
  BY <1>1, <1>2, <1>3, <1>9
  DEF PoolIsSound, IsInOnePlace, WindowIsFull, PhasesFollow, Outstanding
<1>17. FirstCellsComeFirst'
  <2> SUFFICES ASSUME LookedUpIsNotLost, NEW x \in Cells, checkpoint'[x] # None
               PROVE  checkpoint'[DispatchOf[x]] # None
    BY DEF FirstCellsComeFirst
  <2>1. DispatchOf[x] \in Cells
    BY DispatchesAreCells
  <2>2. CASE DispatchOf[x] = w
    BY <1>5, <1>11, <2>2
  <2>3. CASE DispatchOf[x] # w /\ x # w
    BY <1>11, <2>1, <2>3 DEF PoolInduction, FirstCellsComeFirst
  <2>4. CASE DispatchOf[x] # w /\ x = w
    <3> DEFINE d == DispatchOf[w]
    <3>1. /\ d \in Cells /\ d \in Dispatches /\ DispatchOf[d] = d /\ d # w /\ d < w
      BY <1>1, <2>4, DispatchesAreCells
    <3>2. ~IsRemaining(me, d)
      <4>1. d \notin Outstanding(me)
        BY <1>1, <1>3 DEF PoolIsSound, IsInOnePlace
      <4>2. ~(d >= w)
        BY <1>1, <3>1, CellsAreFinite
      <4> QED BY <3>1, <4>1, <4>2 DEF IsRemaining
    <3>3. IsPublished(me, d)
      BY <1>3, <3>1, <3>2 DEF PoolIsSound, CellsArePublished
    <3>4. checkpoint[d] = written
      BY <3>1, <3>3 DEF IsPublished, HasCheckpoint, written
    <3> QED BY <1>5, <1>11, <2>4, <3>1, <3>4
  <2> QED BY <2>2, <2>3, <2>4
<1> QED BY <1>12, <1>13, <1>14, <1>15, <1>16, <1>17 DEF PoolInduction, PoolIsSound

\* The record closes the cell, and those of its dispatch that remain are the later ones.
LEMMA WriteRecordStep ==
    ASSUME PoolInduction, WriteRecord
    PROVE  PoolInduction'
<1> DEFINE me == parent
           w == me.writing
           e == me.result[DispatchOf[w]]
           rest == {c \in CellsFor(DispatchOf[w]) : c > w}
           next == IF rest = {} THEN 0 ELSE Min(rest)
           failed == me.failed \/ e.state # "Completed"
           written == [declared |-> me.declared, state |-> e.state, diagnostic |-> e,
                       checkpoint |-> [material |-> me.declared.material, execution |-> e]]
           new == [me EXCEPT !.stage = "diagnostic", !.writing = next, !.failed = failed]
<1>1. /\ InPool /\ me.pc # "publish" /\ me.stage = "record" /\ w \in Cells /\ w # 0
      /\ DispatchOf[w] \in Dispatches
      /\ e \in Executions /\ Execution = e /\ IsRemaining(me, w)
  BY CellBeingWritten DEF WriteRecord
<1>2. /\ record' = [record EXCEPT ![w] = written]
      /\ parent' = new
      /\ UNCHANGED <<declared, diagnostic, checkpoint, statistic, run, disturbances>>
  BY <1>1 DEF WriteRecord, CheckpointOf
<1>3. /\ me \in PoolType /\ \A x \in me.running : x \in me.futures /\ me.result[x] = None
      /\ \A x \in me.batch : x \in me.futures /\ me.result[x] # None
      /\ PoolIsSound(me)
  BY <1>1, ParentInPool
<1>4. TypeOK
  BY DEF PoolInduction
<1>5. written \in RecordType
  <2>1. me.declared \in Declarations /\ me.declared.material \in Materials
    BY <1>3 DEF PoolType, Declarations
  <2>2. e.state \in {"Completed", "Failed"}
    BY <1>1 DEF Executions
  <2> QED BY <1>1, <2>1, <2>2 DEF RecordType, CheckpointType
<1>6. /\ written.declared = me.declared /\ written.state = e.state /\ written.diagnostic = e
      /\ written.checkpoint = [material |-> me.declared.material, execution |-> e]
  OBVIOUS
<1>7. /\ next \in Cells \cup {0}
      /\ next = 0 => \A c \in Cells : DispatchOf[c] = DispatchOf[w] => c <= w
      /\ next # 0 => /\ DispatchOf[next] = DispatchOf[w] /\ next > w
                     /\ \A c \in Cells : DispatchOf[c] = DispatchOf[w] /\ c > w => c >= next
  <2>1. rest \subseteq Cells /\ \A c \in Cells : c \in Nat /\ c # 0
    BY DispatchesAreCells DEF CellsFor
  <2>2. \A c \in Cells : c \in rest <=> DispatchOf[c] = DispatchOf[w] /\ c > w
    BY DEF CellsFor
  <2> HIDE DEF rest, me
  <2>3. CASE rest = {}
    BY <1>1, <2>1, <2>2, <2>3
  <2>4. CASE rest # {}
    <3>1. Min(rest) \in rest /\ \A c \in rest : Min(rest) <= c
      BY <2>1, <2>4, FirstAndLast
    <3> QED BY <1>1, <2>1, <2>2, <2>4, <3>1
  <2> QED BY <2>3, <2>4
<1> HIDE DEF me, written, next
<1>8. failed \in BOOLEAN
  BY <1>3 DEF PoolType
<1> HIDE DEF failed
<1>9. new \in PoolType
  BY <1>3, <1>7, <1>8 DEF PoolType
<1>10. /\ new.running = me.running /\ new.futures = me.futures
       /\ new.pc = me.pc /\ new.overwrite = me.overwrite /\ new.declared = me.declared
       /\ new.workers = me.workers /\ new.result = me.result /\ new.reused = me.reused
       /\ new.pending = me.pending /\ new.batch = me.batch /\ new.writing = next
       /\ new.stage = "diagnostic" /\ new.slots = me.slots /\ new.failed = failed
  BY <1>3 DEF PoolType
<1> HIDE DEF new
<1>11. record'[w] = written /\ \A c \in Cells \ {w} : record'[c] = record[c]
  BY <1>1, <1>2, <1>4 DEF TypeOK
<1>12. TypeOK'
  <2>1. ParentOK'
    BY <1>2, <1>3, <1>9, <1>10 DEF ParentOK, Finished
  <2>2. record' \in [Cells -> RecordType \cup {None}]
    BY <1>2, <1>4, <1>5 DEF TypeOK
  <2> QED BY <1>2, <1>4, <2>1, <2>2 DEF TypeOK
<1>13. FirstCellsComeFirst'
  BY <1>2 DEF PoolInduction, FirstCellsComeFirst
<1>14. DispatchOf[w] \notin Outstanding(me)
  BY <1>1, <1>3 DEF PoolIsSound, IsInOnePlace
<1>15. \A c \in Cells : IsRemaining(parent, c)' <=> IsRemaining(me, c) /\ c # w
  <2>1. Outstanding(parent)' = Outstanding(me) /\ parent'.writing = next
    BY <1>2, <1>10 DEF Outstanding
  <2>2. \A c \in Cells : c \in Nat
    BY CellsAreFinite
  <2>3. ASSUME NEW c \in Cells
        PROVE  IsRemaining(parent, c)' <=> IsRemaining(me, c) /\ c # w
    <3>1. CASE DispatchOf[c] \in Outstanding(me)
      BY <1>14, <2>1, <3>1 DEF IsRemaining
    <3>2. CASE DispatchOf[c] \notin Outstanding(me) /\ DispatchOf[c] # DispatchOf[w]
      BY <1>7, <2>1, <3>2 DEF IsRemaining
    <3>3. CASE DispatchOf[c] \notin Outstanding(me) /\ DispatchOf[c] = DispatchOf[w]
      <4>1. IsRemaining(me, c) /\ c # w <=> c > w
        BY <1>1, <2>2, <3>3 DEF IsRemaining
      <4>2. IsRemaining(parent, c)' <=> next # 0 /\ c >= next
        BY <1>7, <2>1, <3>3 DEF IsRemaining
      <4>3. c > w <=> next # 0 /\ c >= next
        BY <1>1, <1>7, <2>2, <3>3
      <4> QED BY <4>1, <4>2, <4>3
    <3> QED BY <3>1, <3>2, <3>3
  <2> QED BY <2>3
<1>16. CellIsWritten(me) /\ CellsArePublished(me)
  BY <1>3 DEF PoolIsSound
<1>17. HasDiagnostic(me, w) /\ HasCheckpoint(me, w) /\ HasSlot(me, w) /\ e # None
  BY <1>1, <1>16 DEF CellIsWritten
<1>18. ASSUME NEW c \in Cells, c = w PROVE IsPublished(parent, c)'
  <2>1. /\ parent'.result = me.result /\ parent'.declared = me.declared
        /\ parent'.slots = me.slots /\ parent'.failed = failed
        /\ diagnostic' = diagnostic /\ checkpoint' = checkpoint
    BY <1>2, <1>10
  <2>2. me.result[DispatchOf[c]] = e /\ e # None
    BY <1>17, <1>18
  <2>3. HasDiagnostic(parent, c)' /\ HasCheckpoint(parent, c)' /\ HasSlot(parent, c)'
    BY <1>17, <1>18, <2>1 DEF HasDiagnostic, HasCheckpoint, HasSlot
  <2>4. diagnostic[c] = e
        /\ checkpoint[c] = [material |-> me.declared.material, execution |-> e]
    BY <1>17, <1>18 DEF HasDiagnostic, HasCheckpoint
  <2>5. HasRecord(parent, c)'
    BY <1>11, <1>18, <2>1, <2>2, <2>4 DEF HasRecord, written
  <2>6. failed \/ e.state = "Completed"
    BY DEF failed
  <2> QED BY <2>1, <2>2, <2>3, <2>5, <2>6 DEF IsPublished
<1>19. CellsArePublished(parent)'
  <2>1. \A c \in Cells \ {w} : IsPublished(me, c) => IsPublished(parent, c)'
    BY <1>2, <1>10, <1>11
    DEF IsPublished, HasDiagnostic, HasCheckpoint, HasRecord, HasSlot, failed
  <2>2. ASSUME NEW c \in Cells
        PROVE  \/ ~IsRemaining(parent, c)' /\ IsPublished(parent, c)'
               \/ IsRemaining(parent, c)' /\ parent'.slots[c] = <<>>
    <3>1. CASE c = w
      BY <1>15, <1>18, <3>1
    <3>2. CASE c # w
      BY <1>2, <1>10, <1>15, <1>16, <2>1, <3>2 DEF CellsArePublished
    <3> QED BY <3>1, <3>2
  <2> QED BY <2>2 DEF CellsArePublished
<1>20. CellIsWritten(parent)'
  BY <1>2, <1>7, <1>10, <1>17 DEF CellIsWritten
<1>21. IsInOnePlace(parent)'
  BY <1>2, <1>3, <1>7, <1>10, <1>14 DEF PoolIsSound, IsInOnePlace, Outstanding
<1>22. WindowIsFull(parent)' /\ PhasesFollow(parent)' /\ NothingToReuse(parent)'
  BY <1>1, <1>2, <1>3, <1>10
  DEF PoolIsSound, WindowIsFull, PhasesFollow, NothingToReuse, CheckpointIsReusable
<1> QED BY <1>12, <1>13, <1>19, <1>20, <1>21, <1>22 DEF PoolInduction, PoolIsSound

\* When nothing is outstanding the slots are joined.
LEMMA DeriveStatisticsStep ==
    ASSUME PoolInduction, DeriveStatistics
    PROVE  PoolInduction'
<1> DEFINE me == parent
           new == [me EXCEPT !.pc = "publish"]
<1>1. /\ InPool /\ me.pc = "pool" /\ me.futures = {} /\ me.writing = 0
      /\ statistic' = FlattenSeq(me.slots) /\ parent' = new
      /\ UNCHANGED <<declared, diagnostic, checkpoint, record, run, disturbances>>
  BY DEF DeriveStatistics, InPool
<1>2. /\ me \in PoolType /\ \A x \in me.running : x \in me.futures /\ me.result[x] = None
      /\ \A x \in me.batch : x \in me.futures /\ me.result[x] # None
      /\ PoolIsSound(me)
  BY <1>1, ParentInPool
<1> HIDE DEF me
<1>3. new \in PoolType
  BY <1>2 DEF PoolType
<1>4. /\ new.running = me.running /\ new.futures = me.futures
      /\ new.pc = "publish" /\ new.overwrite = me.overwrite /\ new.declared = me.declared
      /\ new.workers = me.workers /\ new.result = me.result /\ new.reused = me.reused
      /\ new.pending = me.pending /\ new.batch = me.batch /\ new.writing = me.writing
      /\ new.stage = me.stage /\ new.slots = me.slots /\ new.failed = me.failed
  BY <1>2 DEF PoolType
<1> HIDE DEF new
<1>5. TypeOK'
  <2>1. ParentOK'
    BY <1>1, <1>2, <1>3, <1>4 DEF ParentOK, Finished
  <2> QED BY <1>1, <2>1 DEF PoolInduction, TypeOK
<1>6. FirstCellsComeFirst'
  BY <1>1 DEF PoolInduction, FirstCellsComeFirst
<1>7. PoolIsSound(parent)'
  BY <1>1, <1>2, <1>4
  DEF PoolIsSound, IsInOnePlace, CellsArePublished, CellIsWritten, WindowIsFull, PhasesFollow,
     NothingToReuse, Outstanding, IsRemaining, IsPublished, HasDiagnostic, HasCheckpoint,
     HasRecord, HasSlot, CheckpointIsReusable
<1> QED BY <1>5, <1>6, <1>7 DEF PoolInduction

-----------------------------------------------------------------------------
(***************************************************************************)
(* The theorems.                                                           *)
(***************************************************************************)
\* Nothing is there at first.
LEMMA PoolInit == Init => PoolInduction
<1> SUFFICES ASSUME Init PROVE PoolInduction
  OBVIOUS
<1>1. TypeOK
  BY ConstantsAssumption DEF Init, TypeOK, ParentOK
<1>2. ~InPool
  BY DEF Init, InPool, Idle
<1>3. FirstCellsComeFirst
  BY DEF Init, FirstCellsComeFirst
<1> QED BY <1>1, <1>2, <1>3 DEF PoolInduction

\* Every step of the parent, a worker and the environment preserves the invariant.
LEMMA PoolStep == PoolInduction /\ [Next]_vars => PoolInduction'
<1> SUFFICES ASSUME PoolInduction, [Next]_vars PROVE PoolInduction'
  OBVIOUS
<1>1. ASSUME ParentStep PROVE PoolInduction'
  BY <1>1, CheckReuseStep, ScanStep, WaitStep, TakeReusedStep, TakeStep, WriteDiagnosticStep,
     WriteCheckpointStep, WriteRecordStep, DeriveStatisticsStep, PublishRunStep DEF ParentStep
<1>2. ASSUME WorkerStep PROVE PoolInduction'
  BY <1>2, BeginStep, FinishStep DEF WorkerStep
<1>3. ASSUME Environment PROVE PoolInduction'
  BY <1>3, EditDeclaredStep, KillStep, LoseFileStep DEF Environment
<1>4. CASE UNCHANGED vars
  BY <1>4
  DEF vars, files, PoolInduction, TypeOK, ParentOK, Finished, InPool, FirstCellsComeFirst,
     PoolIsSound, IsInOnePlace, CellsArePublished, CellIsWritten, WindowIsFull, PhasesFollow,
     NothingToReuse, Outstanding, IsRemaining, IsPublished, HasDiagnostic, HasCheckpoint,
     HasRecord, HasSlot, CheckpointIsReusable
<1> QED BY <1>1, <1>2, <1>3, <1>4, StartStep DEF Next

\* What a kill throws away is in the window, or is being written.
LEMMA WindowIsWhatIsLost == PoolInduction => LostWorkIsBounded
<1> DEFINE taken == IF parent.writing = 0 THEN {} ELSE {DispatchOf[parent.writing]}
<1> SUFFICES ASSUME PoolInduction, parent.pc = "pool"
             PROVE  Cardinality(Finished \cup taken) <= 2 * Workers + 1
  BY DEF LostWorkIsBounded
<1>1. parent \in PoolType /\ WindowIsFull(parent)
  BY ParentInPool DEF InPool, PoolIsSound
<1>2. /\ parent.futures \in SUBSET Dispatches /\ Finished \in SUBSET parent.futures
      /\ Finished \in SUBSET Dispatches
      /\ parent.workers \in Nat /\ Workers \in Nat /\ parent.workers <= Workers
  BY <1>1, ConstantsAssumption DEF PoolType, Finished
<1>3. /\ IsFiniteSet(parent.futures) /\ Cardinality(parent.futures) \in Nat
      /\ IsFiniteSet(Finished) /\ Cardinality(Finished) \in Nat
  BY <1>2, DispatchesAreCells
<1>4. Cardinality(Finished) <= 2 * Workers
  <2>1. Cardinality(Finished) <= Cardinality(parent.futures)
    BY <1>2, <1>3, FS_Subset
  <2>2. Cardinality(parent.futures) <= 2 * parent.workers
    BY <1>1 DEF WindowIsFull
  <2> QED BY <1>2, <1>3, <2>1, <2>2
<1>5. Cardinality(Finished \cup taken) <= Cardinality(Finished) + 1
  <2>1. CASE parent.writing = 0
    <3>1. Finished \cup taken = Finished
      BY <2>1
    <3> QED BY <1>3, <3>1
  <2>2. CASE parent.writing # 0
    <3>1. Finished \cup taken = Finished \cup {DispatchOf[parent.writing]}
      BY <2>2
    <3>2. Cardinality(Finished \cup {DispatchOf[parent.writing]}) <= Cardinality(Finished) + 1
      <4> DEFINE f == Finished
                 d == DispatchOf[parent.writing]
      <4>1. IsFiniteSet(f) /\ Cardinality(f) \in Nat
        BY <1>3
      <4> HIDE DEF f, d
      <4>2. Cardinality(f \cup {d}) = IF d \in f THEN Cardinality(f) ELSE Cardinality(f) + 1
        BY <4>1, FS_AddElement
      <4>3. Cardinality(f \cup {d}) <= Cardinality(f) + 1
        BY <4>1, <4>2
      <4> QED BY <4>3 DEF f, d
    <3> QED BY <3>1, <3>2
  <2> QED BY <2>1, <2>2
<1>6. Cardinality(Finished \cup taken) \in Nat
  <2>1. IsFiniteSet(taken)
    BY FS_EmptySet, FS_Singleton
  <2> HIDE DEF taken
  <2> QED BY <1>3, <2>1, FS_Union, FS_CardinalityType
<1> QED BY <1>2, <1>3, <1>4, <1>5, <1>6

\* What begins was looked up and not found: no cell of it has a checkpoint to reuse, unless
\* that of its first cell is another's or of a failure.
LEMMA BeginsNothingPublished ==
    ASSUME LookedUpIsNotLost, PoolInduction, [Next]_vars,
           NEW d \in Dispatches,
           parent.pc = "pool", ~parent.overwrite, d \notin parent.running,
           parent'.pc = "pool", d \in parent'.running,
           NEW c \in CellsFor(d), CheckpointIsReusable(c, parent.declared)
    PROVE  checkpoint[d] # None /\ ~CheckpointIsReusable(d, parent.declared)
<1>1. checkpoint[d] # None
  BY DEF CheckpointIsReusable, CellsFor, PoolInduction, FirstCellsComeFirst
<1>2. /\ parent \in PoolType /\ PoolIsSound(parent)
  BY ParentInPool DEF InPool
<1>3. d \in parent.futures /\ parent.result[d] = None
  <2>1. CASE Begin
    <3> DEFINE waiting == {x \in parent.futures \ parent.running : parent.result[x] = None}
    <3>1. waiting # {} /\ parent' = [parent EXCEPT !.running = @ \cup {Min(waiting)}]
      BY <2>1 DEF Begin
    <3>2. parent'.running = parent.running \cup {Min(waiting)}
      BY <1>2, <3>1 DEF PoolType
    <3>3. waiting \subseteq Cells
      BY <1>2, DispatchesAreCells DEF PoolType
    <3>4. Min(waiting) \in waiting
      <4> HIDE DEF waiting
      <4> QED BY <3>1, <3>3, FirstAndLast
    <3>5. d = Min(waiting)
      BY <3>2
    <3> QED BY <3>4, <3>5
  <2>2. CASE ~Begin
    <3>1. parent'.running \subseteq parent.running
      <4>1. CASE \E x \in Dispatches : Finish(x)
        BY <1>2, <4>1 DEF Finish, PoolType
      <4>2. CASE Wait \/ \E x \in Dispatches : Take(x)
        BY <1>2, <4>2 DEF Wait, Take, PoolType
      <4>3. CASE WriteDiagnostic \/ WriteCheckpoint \/ WriteRecord
        BY <1>2, <4>3 DEF WriteDiagnostic, WriteCheckpoint, WriteRecord, PoolType
      <4>4. CASE UNCHANGED parent
        BY <4>4
      <4>5. CASE CheckReuse \/ Scan \/ TakeReused \/ PublishRun
        BY <4>5 DEF CheckReuse, Scan, TakeReused, PublishRun
      <4>7. CASE DeriveStatistics
        <5>1. parent' = [parent EXCEPT !.pc = "publish"]
          BY <4>7 DEF DeriveStatistics
        <5>2. parent'.pc = "publish"
          BY <1>2, <5>1 DEF PoolType
        <5> QED BY <5>2
      <4>8. CASE \E overwrite \in BOOLEAN : Start(overwrite)
        BY <4>8 DEF Start, Idle, Active
      <4>6. CASE Kill
        BY <4>6 DEF Kill, Idle
      <4> QED BY <2>2, <4>1, <4>2, <4>3, <4>4, <4>5, <4>6, <4>7, <4>8
          DEF Next, ParentStep, WorkerStep, Environment, EditDeclared, LoseFile, vars
    <3> QED BY <3>1
  <2> QED BY <2>1, <2>2
<1>4. ~CheckpointIsReusable(d, parent.declared)
  BY <1>2, <1>3 DEF PoolIsSound, NothingToReuse
<1> QED BY <1>1, <1>4

\* At the end every cell is published and, if none failed, in the statistics in its place.
LEMMA CompletionIsOfAllCells ==
    ASSUME PoolInduction, parent.pc = "publish"
    PROVE  /\ Recorded = Cells
           /\ \A c \in Cells : record[c].declared = parent.declared /\ OutputsVerify(c)
           /\ ~parent.failed => statistic = [c \in Cells |-> c]
<1>1. parent \in PoolType /\ PoolIsSound(parent)
  BY ParentInPool DEF InPool
<1>2. /\ Outstanding(parent) = {} /\ parent.writing = 0
      /\ statistic = FlattenSeq(parent.slots)
  BY <1>1 DEF PoolIsSound, PhasesFollow, WindowIsFull, Outstanding
<1>3. \A c \in Cells : IsPublished(parent, c)
  BY <1>1, <1>2, DispatchesAreCells DEF PoolIsSound, CellsArePublished, IsRemaining
<1>4. ASSUME NEW c \in Cells
      PROVE  record[c] # None /\ record[c].declared = parent.declared /\ OutputsVerify(c)
  <2> DEFINE e == parent.result[DispatchOf[c]]
             written == [material |-> parent.declared.material, execution |-> e]
             entry == [declared |-> parent.declared, state |-> e.state,
                       diagnostic |-> e, checkpoint |-> written]
  <2>1. e \in Executions /\ e # None
    BY <1>1, <1>3, <1>4, DispatchesAreCells DEF IsPublished, PoolType
  <2>2. written \in CheckpointType /\ written # None
    BY <1>1, <2>1, NoneAssumption DEF PoolType, Declarations, CheckpointType
  <2>3. diagnostic[c] = e /\ checkpoint[c] = written /\ record[c] = entry
    BY <1>3 DEF IsPublished, HasDiagnostic, HasCheckpoint, HasRecord
  <2>4. entry \in RecordType /\ entry # None
    BY <1>1, <2>1, <2>2, NoneAssumption DEF PoolType, RecordType, Executions
  <2>5. entry.declared = parent.declared /\ entry.diagnostic = e /\ entry.checkpoint = written
    OBVIOUS
  <2> HIDE DEF e, written, entry
  <2> QED BY <2>1, <2>2, <2>3, <2>4, <2>5 DEF OutputsVerify
<1>5. ASSUME ~parent.failed PROVE statistic = [c \in Cells |-> c]
  <2>1. \A c \in Cells : parent.slots[c] = <<c>>
    BY <1>3, <1>5 DEF IsPublished, HasSlot
  <2>2. parent.slots = [c \in Cells |-> parent.slots[c]]
    BY <1>1 DEF PoolType
  <2>3. parent.slots = [c \in Cells |-> <<c>>]
    BY <2>1, <2>2
  <2> QED BY <1>2, <2>3, SlotsAreJoined
<1> QED BY <1>4, <1>5 DEF Recorded

\* Every dispatch is in one place, every cell that remains has no place in the statistics,
\* and every other is published, through any order of executions and any kill.
THEOREM PoolInductionHolds == Spec => []PoolInduction
<1> QED BY PoolInit, PoolStep, PTL DEF Spec

\* What the parent tracks is of its type, and what a kill would throw away is bounded by
\* the workers, however many cells there are.
THEOREM PoolInvariantHolds == Spec => []PoolInvariant
<1>1. PoolInduction => PoolInvariant
  BY WindowIsWhatIsLost DEF PoolInduction, PoolInvariant
<1> QED BY <1>1, PoolInductionHolds, PTL

\* A command that is started again executes nothing whose checkpoint was published, as long
\* as the checkpoints that are looked up are not lost.
THEOREM ResumeNeverRecomputesHolds ==
    ASSUME LookedUpIsNotLost
    PROVE  Spec => ResumeNeverRecomputes
<1>1. PoolInduction /\ [Next]_vars =>
        [\A d \in Dispatches :
            /\ Active /\ parent.pc = "pool" /\ ~parent.overwrite
            /\ d \notin parent.running
            /\ Active' /\ parent'.pc = "pool" /\ d \in parent'.running
            => \A c \in CellsFor(d) : CheckpointIsReusable(c, parent.declared) =>
                /\ checkpoint[d] # None
                /\ ~CheckpointIsReusable(d, parent.declared)]_vars
  BY BeginsNothingPublished
<1> QED BY <1>1, PoolInductionHolds, PTL DEF Spec, ResumeNeverRecomputes

\* A run record says Completed only of a run of which every cell is published, with outputs
\* that verify and statistics of all of them in order.
THEOREM CompletionIsPublishedLastHolds == Spec => CompletionIsPublishedLast
<1>1. PoolInduction /\ [Next]_vars =>
        [run' # run /\ run'.state = "Completed" =>
            /\ Recorded = Cells
            /\ \A c \in Cells : record[c].declared = run'.declared /\ OutputsVerify(c)
            /\ statistic = [i \in Cells |-> i]]_vars
  <2> SUFFICES ASSUME PoolInduction, Next, run' # run, run'.state = "Completed"
               PROVE  /\ Recorded = Cells
                      /\ \A c \in Cells : record[c].declared = run'.declared /\ OutputsVerify(c)
                      /\ statistic = [i \in Cells |-> i]
    BY DEF vars
  <2>1. PublishRun
    BY DEF Next, ParentStep, WorkerStep, Environment, Start, CheckReuse, Scan, Wait, TakeReused,
       Take, WriteDiagnostic, WriteCheckpoint, WriteRecord, DeriveStatistics, Begin, Finish,
       EditDeclared, Kill, LoseFile, files
  <2>2. /\ parent.pc = "publish" /\ ~parent.failed /\ run'.declared = parent.declared
    BY <2>1 DEF PublishRun
  <2> QED BY <2>2, CompletionIsOfAllCells
<1> QED BY <1>1, PoolInductionHolds, PTL DEF Spec, CompletionIsPublishedLast
=============================================================================

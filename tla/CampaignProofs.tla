------------------------ MODULE CampaignProofs ----------------------------
(***************************************************************************)
(* Proofs about the campaigns of a release (CampaignTimeline) and about    *)
(* the decision that replays them (SequentialDecision): for every finite   *)
(* set of clients, epochs, shares and gaps, and for every coalitions,      *)
(* atoms, candidates, policies and numbers of horizons.                    *)
(***************************************************************************)
EXTENDS SequentialDecision, CampaignTimeline, FiniteSetTheorems, SequenceTheorems, WellFoundedInduction, TLAPS

-----------------------------------------------------------------------------
(***************************************************************************)
(* Numbers.                                                                *)
(***************************************************************************)
\* A nonempty set of numbers has a least one, which is its Min.
LEMMA LeastNumber ==
    ASSUME NEW S, S \subseteq Nat, S # {}
    PROVE  Min(S) \in S /\ \A x \in S : Min(S) <= x
<1> DEFINE less == OpToRel(<, Nat)
<1>1. \A x, y \in Nat : <<x, y>> \in less <=> x < y
  BY Zenon DEF OpToRel
<1>2. IsWellFoundedOn(less, Nat)
  BY NatLessThanWellFounded, Zenon
<1> HIDE DEF less
<1>3. PICK m \in S : \A x \in S : <<x, m>> \notin less
  BY <1>2, WFMin
<1>4. \A x \in S : x \in Nat /\ m \in Nat /\ ~(x < m)
  BY <1>1, <1>3
<1>5. \A x \in S : m <= x
  BY <1>4
<1> QED BY <1>5 DEF Min

\* Induction, for a set of numbers.
LEMMA AllNumbers ==
    ASSUME NEW S, 0 \in S, \A n \in Nat : n \in S => n + 1 \in S
    PROVE  Nat \subseteq S
<1> SUFFICES ASSUME Nat \ S # {} PROVE FALSE
  OBVIOUS
<1> DEFINE m == Min(Nat \ S)
<1>1. m \in Nat \ S /\ \A x \in Nat \ S : m <= x
  BY LeastNumber
<1> HIDE DEF m
<1>2. m - 1 \in Nat
  BY <1>1
<1>3. m - 1 \in S
  BY <1>1, <1>2
<1>4. m \in S
  BY <1>1, <1>2, <1>3
<1> QED BY <1>1, <1>4

\* The first of some positions is one of them and none is before it, if there is one.
LEMMA FirstIsLeast ==
    ASSUME NEW S, S \subseteq Nat
    PROVE  /\ S = {} => FirstOf(S) = None
           /\ S # {} => /\ FirstOf(S) \in S /\ FirstOf(S) # None
                        /\ \A x \in S : FirstOf(S) <= x
<1>1. None \notin Nat
  BY DecisionAssumption
<1> QED BY <1>1, LeastNumber DEF FirstOf

\* One more position, after the others, leaves the first of them where it was; it is the first
\* one only if there was none.
LEMMA FirstStaysFirst ==
    ASSUME NEW n \in Nat, NEW S, NEW T, S \subseteq 1..n, T \subseteq 1..(n + 1),
           \A t \in 1..n : t \in T <=> t \in S
    PROVE  /\ S # {} => FirstOf(T) = FirstOf(S)
           /\ S = {} => FirstOf(T) \in {None, n + 1}
<1>1. S \subseteq Nat /\ T \subseteq Nat /\ \A t \in T : t \in 1..n \/ t = n + 1
  OBVIOUS
<1>2. ASSUME S # {} PROVE FirstOf(T) = FirstOf(S)
  <2> DEFINE s == FirstOf(S) t == FirstOf(T)
  <2>1. s \in S /\ \A x \in S : s <= x
    BY <1>1, <1>2, FirstIsLeast
  <2>2. T # {}
    BY <1>2
  <2>3. t \in T /\ \A x \in T : t <= x
    BY <1>1, <2>2, FirstIsLeast
  <2> HIDE DEF s, t
  <2>4. s \in T /\ s \in 1..n
    BY <2>1
  <2>5. t <= s /\ t \in 1..(n + 1)
    BY <2>3, <2>4
  <2>6. t \in 1..n
    BY <2>4, <2>5
  <2>7. s <= t
    BY <2>1, <2>3, <2>6
  <2>8. s = t
    BY <2>4, <2>5, <2>7
  <2> QED BY <2>8 DEF s, t
<1>3. ASSUME S = {} PROVE FirstOf(T) \in {None, n + 1}
  <2>1. \A t \in T : t = n + 1
    BY <1>1, <1>3
  <2> QED BY <1>1, <2>1, FirstIsLeast
<1> QED BY <1>2, <1>3

\* A set without one of its elements is smaller by one.
LEMMA OneElementLess ==
    ASSUME NEW D, IsFiniteSet(D), NEW s \in SUBSET D, s # {}, NEW n \in Nat, Cardinality(s) <= n + 1
    PROVE  \A x \in s : s \ {x} \in SUBSET D /\ Cardinality(s \ {x}) <= n
<1>1. IsFiniteSet(s)
  BY FS_Subset
<1> TAKE x \in s
<1>2. Cardinality(s \ {x}) = Cardinality(s) - 1 /\ Cardinality(s) \in Nat
  BY <1>1, FS_RemoveElement, FS_CardinalityType
<1>3. Cardinality(s \ {x}) <= n
  BY <1>2
<1> QED BY <1>3

\* A sum of finitely many integers is one.
LEMMA SumIsInteger ==
    ASSUME NEW f, IsFiniteSet(DOMAIN f), \A x \in DOMAIN f : f[x] \in Int
    PROVE  SumFunction(f) \in Int
<1> DEFINE D == DOMAIN f
           Plus(g, s) == IF s = {} THEN 0
                         ELSE f[CHOOSE x \in s : TRUE] + g[s \ {CHOOSE x \in s : TRUE}]
           Adds(g, S) == g = [s \in S |-> Plus(g, s)]
           Upto(n) == {s \in SUBSET D : Cardinality(s) <= n}
           Reached == {n \in Nat : \E g : Adds(g, Upto(n))}
           sum == CHOOSE g : Adds(g, SUBSET D)
<1>1. SumFunction(f) = sum[D]
  BY DEF SumFunction, SumFunctionOnSet, FoldFunctionOnSet, MapThenFoldSet
<1>2. \A s \in SUBSET D : IsFiniteSet(s) /\ Cardinality(s) \in Nat
  BY FS_Subset, FS_CardinalityType
<1>3. ASSUME NEW n \in Nat, NEW s \in Upto(n + 1), s # {}
      PROVE  /\ (CHOOSE x \in s : TRUE) \in D
             /\ s \ {CHOOSE x \in s : TRUE} \in Upto(n)
  <2>1. (CHOOSE x \in s : TRUE) \in s
    BY <1>3
  <2> QED BY <1>3, <2>1, OneElementLess
<1>4. \A s \in Upto(0) : s = {}
  BY <1>2, FS_EmptySet
<1>5. Nat \subseteq Reached
  <2>1. 0 \in Reached
    <3>1. Adds([s \in Upto(0) |-> 0], Upto(0))
      BY <1>4
    <3> QED BY <3>1
  <2>2. ASSUME NEW n \in Nat, n \in Reached PROVE n + 1 \in Reached
    <3>1. PICK g : Adds(g, Upto(n))
      BY <2>2
    <3> DEFINE h == [s \in Upto(n + 1) |-> IF s \in Upto(n) THEN g[s] ELSE Plus(g, s)]
    <3>2. Upto(n) \subseteq Upto(n + 1)
      BY <1>2
    <3>3. \A s \in Upto(n) : g[s] = Plus(g, s) /\ h[s] = g[s]
      BY <3>1, <3>2
    <3>4. ASSUME NEW s \in Upto(n + 1) PROVE h[s] = Plus(h, s)
      <4>1. h[s] = Plus(g, s)
        BY <3>3
      <4>2. CASE s = {}
        BY <4>1, <4>2
      <4>3. CASE s # {}
        <5>1. s \ {CHOOSE x \in s : TRUE} \in Upto(n)
          BY <1>3, <4>3
        <5>2. h[s \ {CHOOSE x \in s : TRUE}] = g[s \ {CHOOSE x \in s : TRUE}]
          BY <3>3, <5>1
        <5> HIDE DEF h
        <5> QED BY <4>1, <5>2
      <4> QED BY <4>2, <4>3
    <3>5. h = [s \in Upto(n + 1) |-> h[s]]
      OBVIOUS
    <3> HIDE DEF h
    <3>6. Adds(h, Upto(n + 1))
      BY <3>4, <3>5
    <3> HIDE DEF Adds, Upto
    <3> QED BY <3>6
  <2> HIDE DEF Reached
  <2> QED BY <2>1, <2>2, AllNumbers
<1>6. Cardinality(D) \in Nat /\ Upto(Cardinality(D)) = SUBSET D
  BY <1>2, FS_Subset, FS_CardinalityType
<1>7. Adds(sum, SUBSET D)
  <2> HIDE DEF Adds, Upto
  <2>1. \E g : Adds(g, SUBSET D)
    BY <1>5, <1>6
  <2> QED BY <2>1
<1> DEFINE Typed == {n \in Nat : \A s \in Upto(n) : sum[s] \in Int}
<1> HIDE DEF sum
<1>8. Nat \subseteq Typed
  <2>1. 0 \in Typed
    BY <1>4, <1>7
  <2>2. ASSUME NEW n \in Nat, n \in Typed PROVE n + 1 \in Typed
    <3>1. ASSUME NEW s \in Upto(n + 1) PROVE sum[s] \in Int
      <4>1. sum[s] = Plus(sum, s)
        BY <1>7
      <4>2. CASE s = {}
        BY <4>1, <4>2
      <4>3. CASE s # {}
        <5>1. f[CHOOSE x \in s : TRUE] \in Int /\ sum[s \ {CHOOSE x \in s : TRUE}] \in Int
          BY <1>3, <2>2, <4>3
        <5> QED BY <4>1, <4>3, <5>1
      <4> QED BY <4>2, <4>3
    <3> QED BY <3>1
  <2> HIDE DEF Typed
  <2> QED BY <2>1, <2>2, AllNumbers
<1>9. D \in Upto(Cardinality(D))
  BY <1>6
<1> QED BY <1>1, <1>6, <1>8, <1>9

\* So is the mean, rounded down, of at least one.
LEMMA MeanIsInteger ==
    ASSUME NEW f, IsFiniteSet(DOMAIN f), DOMAIN f # {}, \A x \in DOMAIN f : f[x] \in Int
    PROVE  Mean(f) \in Int
<1> DEFINE total == SumFunction(f) n == Cardinality(DOMAIN f)
<1>1. total \in Int
  BY SumIsInteger
<1>2. n \in Nat \ {0}
  BY FS_CardinalityType, FS_EmptySet
<1> HIDE DEF total, n
<1>3. total \div n \in Int
  BY <1>1, <1>2
<1> QED BY <1>3 DEF Mean, total, n

-----------------------------------------------------------------------------
(***************************************************************************)
(* The evidence of an epoch.                                               *)
(***************************************************************************)
\* There are finitely many coalitions, all of clients.
LEMMA CoalitionsAreFinite ==
    /\ Eligible \subseteq SUBSET Clients /\ Eligible \subseteq Coalitions
    /\ \A S \in SUBSET Eligible : IsFiniteSet(S)
<1>1. Eligible \subseteq SUBSET Clients /\ Eligible \subseteq Coalitions
  BY DecisionAssumption DEF Eligible
<1>2. IsFiniteSet(SUBSET Clients)
  BY ParametersAssumption, FS_SUBSET
<1> QED BY <1>1, <1>2, FS_Subset

\* The sums of an epoch are of eligible coalitions, one atom more each.
LEMMA SumsAreTyped ==
    ASSUME NEW s
    PROVE  s \in Sums <=> /\ DOMAIN s \in SUBSET Eligible
                          /\ s \in [DOMAIN s -> [sum : Int, count : Nat]]
<1>1. ASSUME s \in Sums
      PROVE  DOMAIN s \in SUBSET Eligible /\ s \in [DOMAIN s -> [sum : Int, count : Nat]]
  BY <1>1 DEF Sums
<1>2. ASSUME DOMAIN s \in SUBSET Eligible, s \in [DOMAIN s -> [sum : Int, count : Nat]]
      PROVE  s \in Sums
  BY <1>2 DEF Sums
<1> QED BY <1>1, <1>2

\* Before the first epoch there are none.
LEMMA NoSums == <<>> \in Sums
<1>1. <<>> \in [{} -> [sum : Int, count : Nat]] /\ {} \in SUBSET Eligible
  OBVIOUS
<1> QED BY <1>1 DEF Sums

\* The evidence of an epoch is a number, the sums after it and the clients of its materially
\* active coalitions.
LEMMA EvidenceIsTyped ==
    ASSUME NEW atom \in EpochAtoms, NEW sums \in Sums
    PROVE  LET evidence == OperationalEvidence(atom, sums)
           IN  /\ evidence.global \in Int
               /\ evidence.sums \in Sums
               /\ evidence.active \in SUBSET Clients
               /\ evidence.active =
                    UNION {A \in DOMAIN evidence.sums : EvidenceFactor(evidence.sums[A]) >= Material}
<1> DEFINE resolved == {A \in Eligible : atom[A] # Abstained}
           previous(A) == IF A \in DOMAIN sums THEN sums[A] ELSE Zero
           updated == [A \in resolved |-> AdvanceSum(previous(A), atom[A])]
           factor == [A \in resolved |-> EvidenceFactor(updated[A])]
           members(r) == {A \in resolved : Cardinality(A) = r}
           withinOrder(r) == IF members(r) = {} THEN One ELSE Mean(Restrict(factor, members(r)))
           orders == [r \in 1..MaximumOrder |-> withinOrder(r)]
           active == UNION {A \in resolved : factor[A] >= Material}
<1>1. OperationalEvidence(atom, sums) = [global |-> Mean(orders), active |-> active, sums |-> updated]
  BY DEF OperationalEvidence
<1>2. resolved \in SUBSET Eligible /\ \A A \in resolved : atom[A] \in Int
  BY CoalitionsAreFinite, DecisionAssumption DEF EpochAtoms
<1>3. updated \in Sums
  <2>1. \A A \in resolved : previous(A) \in [sum : Int, count : Nat]
    BY SumsAreTyped DEF Zero
  <2> HIDE DEF previous
  <2>2. \A A \in resolved : AdvanceSum(previous(A), atom[A]) \in [sum : Int, count : Nat]
    BY <1>2, <2>1 DEF AdvanceSum
  <2>3. updated \in [resolved -> [sum : Int, count : Nat]]
    BY <2>2
  <2> HIDE DEF updated, resolved
  <2> QED BY <1>2, <2>3 DEF Sums
<1>4. \A A \in resolved : factor[A] \in Int
  <2> HIDE DEF updated
  <2> QED BY DEF EvidenceFactor
<1>5. DOMAIN factor = resolved /\ DOMAIN updated = resolved
  OBVIOUS
<1>6. \A A \in resolved : factor[A] = EvidenceFactor(updated[A])
  OBVIOUS
<1> HIDE DEF factor, updated
<1>7. \A r : withinOrder(r) \in Int
  <2> TAKE r
  <2>1. CASE members(r) = {}
    BY <2>1 DEF One
  <2>2. CASE members(r) # {}
    <3> DEFINE f == Restrict(factor, members(r))
    <3>1. DOMAIN f = members(r) /\ \A A \in members(r) : f[A] \in Int
      BY <1>4 DEF Restrict
    <3>2. IsFiniteSet(members(r))
      BY <1>2, CoalitionsAreFinite
    <3> HIDE DEF f, members
    <3>3. Mean(f) \in Int
      BY <2>2, <3>1, <3>2, MeanIsInteger
    <3> QED BY <2>2, <3>3 DEF f
  <2> QED BY <2>1, <2>2
<1> HIDE DEF withinOrder
<1>8. Mean(orders) \in Int
  <2>1. MaximumOrder \in Nat \ {0}
    BY DecisionAssumption
  <2>2. DOMAIN orders = 1..MaximumOrder /\ 1 \in DOMAIN orders /\ IsFiniteSet(DOMAIN orders)
    BY <2>1, FS_Interval
  <2>3. \A r \in DOMAIN orders : orders[r] \in Int
    BY <1>7
  <2> HIDE DEF orders
  <2> QED BY <2>2, <2>3, MeanIsInteger
<1>9. active \in SUBSET Clients
  BY <1>2, CoalitionsAreFinite
<1>10. active = UNION {A \in DOMAIN updated : EvidenceFactor(updated[A]) >= Material}
  BY <1>5, <1>6
<1> HIDE DEF orders, active
<1> QED BY <1>1, <1>3, <1>8, <1>9, <1>10

-----------------------------------------------------------------------------
(***************************************************************************)
(* The global statistic of a trajectory.                                   *)
(***************************************************************************)
\* One step of the statistic stays a number.
LEMMA NextStateIsInteger ==
    ASSUME NEW state \in Int, NEW factor \in Int
    PROVE  NextGlobalState(state, factor) \in Int
<1>1. (state + 8) * factor \in Int
  OBVIOUS
<1>2. \A x \in Int : x \div 8 \in Int
  OBVIOUS
<1> QED BY <1>1, <1>2 DEF NextGlobalState, One

\* The recursion has a solution: the statistic begins at zero and follows the evidence, and it
\* is a number at every epoch.
LEMMA StatesFollow ==
    ASSUME NEW records \in Seq(EpochRecords)
    PROVE  /\ GlobalStates(records) \in [DOMAIN records -> Int]
           /\ \A t \in DOMAIN records :
                GlobalStates(records)[t] =
                    NextGlobalState(IF t = 1 THEN 0 ELSE GlobalStates(records)[t - 1],
                                    records[t].global)
<1> DEFINE n == Len(records)
           Step(f, t) == NextGlobalState(IF t = 1 THEN 0 ELSE f[t - 1], records[t].global)
           Follows(f, m) == f = [t \in 1..m |-> Step(f, t)]
           Reached == {m \in Nat : \E f : Follows(f, m)}
           states == CHOOSE f : f = [t \in DOMAIN records |-> Step(f, t)]
<1>1. n \in Nat /\ DOMAIN records = 1..n /\ \A t \in 1..n : records[t].global \in Int
  <2>1. n \in Nat /\ DOMAIN records = 1..n
    BY LenProperties
  <2>2. \A t \in 1..n : records[t] \in EpochRecords
    BY ElementOfSeq
  <2> QED BY <2>1, <2>2 DEF EpochRecords
<1>2. GlobalStates(records) = states
  BY DEF GlobalStates
<1>3. Nat \subseteq Reached
  <2>1. 0 \in Reached
    <3>1. Follows([t \in 1..0 |-> 0], 0)
      OBVIOUS
    <3> QED BY <3>1
  <2>2. ASSUME NEW m \in Nat, m \in Reached PROVE m + 1 \in Reached
    <3>1. PICK f : Follows(f, m)
      BY <2>2
    <3> DEFINE g == [t \in 1..(m + 1) |-> IF t = m + 1 THEN Step(f, t) ELSE f[t]]
    <3>2. \A t \in 1..m : f[t] = Step(f, t)
      BY <3>1
    <3>3. \A t \in 1..(m + 1) : t # 1 => g[t - 1] = f[t - 1]
      OBVIOUS
    <3>4. \A t \in 1..(m + 1) : g[t] = Step(f, t)
      BY <3>2
    <3>5. g = [t \in 1..(m + 1) |-> g[t]]
      OBVIOUS
    <3> HIDE DEF g
    <3>6. \A t \in 1..(m + 1) : Step(g, t) = Step(f, t)
      BY <3>3
    <3>7. Follows(g, m + 1)
      BY <3>4, <3>5, <3>6
    <3> HIDE DEF Follows
    <3> QED BY <3>7
  <2> HIDE DEF Reached
  <2> QED BY <2>1, <2>2, AllNumbers
<1>4. states = [t \in 1..n |-> Step(states, t)]
  <2>1. \E f : Follows(f, n)
    BY <1>1, <1>3
  <2>2. \E f : f = [t \in DOMAIN records |-> Step(f, t)]
    BY <1>1, <2>1
  <2> HIDE DEF Step
  <2>3. states = [t \in DOMAIN records |-> Step(states, t)]
    BY <2>2
  <2> QED BY <1>1, <2>3
<1> HIDE DEF states
<1> DEFINE Typed == {m \in Nat : m \in 1..n => states[m] \in Int}
<1>5. Nat \subseteq Typed
  <2>1. 0 \in Typed
    OBVIOUS
  <2>2. ASSUME NEW m \in Nat, m \in Typed PROVE m + 1 \in Typed
    <3> SUFFICES ASSUME m + 1 \in 1..n PROVE states[m + 1] \in Int
      OBVIOUS
    <3> DEFINE before == IF m + 1 = 1 THEN 0 ELSE states[m + 1 - 1]
    <3>1. before \in Int
      BY <1>1, <2>2
    <3>2. records[m + 1].global \in Int
      BY <1>1
    <3>3. states[m + 1] = NextGlobalState(before, records[m + 1].global)
      BY <1>4
    <3> HIDE DEF before
    <3> QED BY <3>1, <3>2, <3>3, NextStateIsInteger
  <2> HIDE DEF Typed
  <2> QED BY <2>1, <2>2, AllNumbers
<1>6. \A t \in 1..n : states[t] \in Int /\ states[t] = Step(states, t)
  <2>1. \A t \in 1..n : t \in Nat
    BY <1>1
  <2>2. \A t \in 1..n : states[t] \in Int
    BY <1>5, <2>1
  <2> HIDE DEF Step
  <2>3. \A t \in 1..n : states[t] = Step(states, t)
    BY <1>4
  <2> QED BY <2>2, <2>3
<1>7. states = [t \in 1..n |-> states[t]]
  BY <1>4
<1> QED BY <1>1, <1>2, <1>6, <1>7

\* What a longer trajectory holds: the shorter one and the record that came.
LEMMA OneRecordMore ==
    ASSUME NEW S, NEW records \in Seq(S), NEW record \in S
    PROVE  /\ Append(records, record) \in Seq(S)
           /\ Len(records) \in Nat /\ Len(Append(records, record)) = Len(records) + 1
           /\ DOMAIN records = 1..Len(records)
           /\ DOMAIN Append(records, record) = 1..(Len(records) + 1)
           /\ \A t \in DOMAIN records : Append(records, record)[t] = records[t]
           /\ Append(records, record)[Len(records) + 1] = record
<1> QED BY AppendProperties, LenProperties

\* A later epoch does not change the statistic of the earlier ones, and its own follows from
\* the last of them.
LEMMA StatesExtend ==
    ASSUME NEW records \in Seq(EpochRecords), NEW record \in EpochRecords
    PROVE  LET longer == GlobalStates(Append(records, record))
           IN  /\ \A t \in DOMAIN records : longer[t] = GlobalStates(records)[t]
               /\ longer[Len(records) + 1] = NextGlobalState(LastState(records), record.global)
<1> DEFINE n == Len(records)
           more == Append(records, record)
           short == GlobalStates(records)
           long == GlobalStates(more)
           Same == {m \in Nat : m \in 1..n => long[m] = short[m]}
<1>1. /\ n \in Nat /\ DOMAIN records = 1..n /\ DOMAIN more = 1..(n + 1)
      /\ \A t \in 1..n : more[t] = records[t]
      /\ more[n + 1] = record /\ more \in Seq(EpochRecords)
  BY OneRecordMore
<1>2. \A t \in 1..n :
        short[t] = NextGlobalState(IF t = 1 THEN 0 ELSE short[t - 1], records[t].global)
  BY <1>1, StatesFollow
<1>3. \A t \in 1..(n + 1) :
        long[t] = NextGlobalState(IF t = 1 THEN 0 ELSE long[t - 1], more[t].global)
  BY <1>1, StatesFollow
<1> HIDE DEF more, short, long
<1>4. Nat \subseteq Same
  <2>1. 0 \in Same
    OBVIOUS
  <2>2. ASSUME NEW m \in Nat, m \in Same PROVE m + 1 \in Same
    <3> SUFFICES ASSUME m + 1 \in 1..n PROVE long[m + 1] = short[m + 1]
      OBVIOUS
    <3>1. (IF m + 1 = 1 THEN 0 ELSE long[m + 1 - 1]) = (IF m + 1 = 1 THEN 0 ELSE short[m + 1 - 1])
      BY <1>1, <2>2
    <3>2. m + 1 \in 1..(n + 1) /\ more[m + 1] = records[m + 1]
      BY <1>1
    <3> QED BY <1>2, <1>3, <3>1, <3>2
  <2> HIDE DEF Same
  <2> QED BY <2>1, <2>2, AllNumbers
<1>5. \A t \in 1..n : long[t] = short[t]
  BY <1>1, <1>4
<1>6. n = 0 <=> records = <<>>
  BY EmptySeq
<1>7. (IF n + 1 = 1 THEN 0 ELSE long[n + 1 - 1]) = LastState(records)
  BY <1>1, <1>5, <1>6 DEF LastState, short
<1>8. long[n + 1] = NextGlobalState(LastState(records), record.global)
  BY <1>1, <1>3, <1>7
<1> QED BY <1>1, <1>5, <1>8 DEF short, long, more

-----------------------------------------------------------------------------
(***************************************************************************)
(* Trailing windows.                                                       *)
(***************************************************************************)
\* Where the last n of a sequence begin.
WindowStart(length, n) == IF length > n THEN length - n + 1 ELSE 1

\* They are the elements from there on, which are those less than n before its end.
LEMMA LastOfIsTheEnd ==
    ASSUME NEW S, NEW seq \in Seq(S), NEW n \in Nat \ {0}
    PROVE  LET length == Len(seq)
               start == WindowStart(length, n)
           IN  /\ start \in Nat \ {0} /\ start <= length + 1
               /\ DOMAIN LastOf(seq, n) = 1..(length - start + 1)
               /\ \A j \in 1..(length - start + 1) : LastOf(seq, n)[j] = seq[start + j - 1]
               /\ \A i \in Nat : i \in start..length <=> i \in 1..length /\ i > length - n
<1> DEFINE length == Len(seq) start == WindowStart(length, n)
<1>1. length \in Nat /\ DOMAIN seq = 1..length /\ \A i \in 1..length : seq[i] \in S
  BY LenProperties, ElementOfSeq
<1>2. /\ start \in Nat \ {0} /\ start <= length + 1
      /\ \A i \in Nat : i \in start..length <=> i \in 1..length /\ i > length - n
  <2> HIDE DEF length
  <2> QED BY <1>1 DEF WindowStart
<1>3. LastOf(seq, n) = SubSeq(seq, start, length)
  BY DEF LastOf, WindowStart
<1> HIDE DEF start, length
<1> DEFINE end == SubSeq(seq, start, length)
<1>4. \A i \in start..length : seq[i] \in S
  BY <1>1, <1>2
<1>5. /\ end \in Seq(S)
      /\ Len(end) = IF start <= length THEN length - start + 1 ELSE 0
      /\ \A j \in 1..(length - start + 1) : end[j] = seq[start + j - 1]
  BY <1>1, <1>2, <1>4, SubSeqProperties
<1> HIDE DEF end
<1>6. Len(end) = length - start + 1
  BY <1>1, <1>2, <1>5
<1>7. DOMAIN end = 1..(length - start + 1)
  BY <1>5, <1>6, LenProperties
<1> QED BY <1>2, <1>3, <1>5, <1>7 DEF start, length, end

\* The clients of a trailing window are those active in one of its epochs.
LEMMA WindowIsOfTheEnd ==
    ASSUME NEW history \in Seq(SUBSET Clients)
    PROVE  \A c : c \in WindowClients(history) <=>
                    \E i \in 1..Len(history) : i > Len(history) - TrailingWindow /\ c \in history[i]
<1> DEFINE n == Len(history) start == WindowStart(n, TrailingWindow)
           last == LastOf(history, TrailingWindow)
<1>1. /\ start \in Nat \ {0} /\ start <= n + 1
      /\ DOMAIN last = 1..(n - start + 1)
      /\ \A j \in 1..(n - start + 1) : last[j] = history[start + j - 1]
      /\ \A i \in Nat : i \in start..n <=> i \in 1..n /\ i > n - TrailingWindow
  BY DecisionAssumption, LastOfIsTheEnd
<1>2. n \in Nat
  BY LenProperties
<1>3. \A c : c \in WindowClients(history) <=> \E j \in DOMAIN last : c \in last[j]
  BY DEF WindowClients, Range
<1> HIDE DEF last, start, n
<1> TAKE c
<1>4. ASSUME NEW j \in DOMAIN last, c \in last[j]
      PROVE  \E i \in 1..n : i > n - TrailingWindow /\ c \in history[i]
  <2>1. start + j - 1 \in start..n /\ start + j - 1 \in Nat
    BY <1>1, <1>2
  <2>2. start + j - 1 \in 1..n /\ start + j - 1 > n - TrailingWindow
    BY <1>1, <2>1
  <2>3. c \in history[start + j - 1]
    BY <1>1, <1>4
  <2> QED BY <2>2, <2>3
<1>5. ASSUME NEW i \in 1..n, i > n - TrailingWindow, c \in history[i]
      PROVE  \E j \in DOMAIN last : c \in last[j]
  <2>1. i \in start..n
    BY <1>1, <1>2, <1>5
  <2>2. i - start + 1 \in DOMAIN last /\ start + (i - start + 1) - 1 = i
    BY <1>1, <1>2, <2>1
  <2>3. last[i - start + 1] = history[i]
    BY <1>1, <2>2
  <2> QED BY <1>5, <2>2, <2>3
<1> QED BY <1>3, <1>4, <1>5 DEF n

\* A policy is triggered when enough of the last epochs of its window exceed.
LEMMA PolicyIsOfTheEnd ==
    ASSUME NEW seen \in Seq(BOOLEAN), NEW policy, policy.window \in Nat \ {0}
    PROVE  PersistenceIsTriggered(seen, policy) <=>
             Cardinality({i \in 1..Len(seen) : i > Len(seen) - policy.window /\ seen[i]})
                >= policy.required
<1> DEFINE n == Len(seen) start == WindowStart(n, policy.window)
           last == LastOf(seen, policy.window)
           There == {j \in DOMAIN last : last[j]}
           Here == {i \in 1..n : i > n - policy.window /\ seen[i]}
<1>1. /\ start \in Nat \ {0} /\ start <= n + 1
      /\ DOMAIN last = 1..(n - start + 1)
      /\ \A j \in 1..(n - start + 1) : last[j] = seen[start + j - 1]
      /\ \A i \in Nat : i \in start..n <=> i \in 1..n /\ i > n - policy.window
  BY LastOfIsTheEnd
<1>2. n \in Nat
  BY LenProperties
<1>3. PersistenceIsTriggered(seen, policy) <=> Cardinality(There) >= policy.required
  BY DEF PersistenceIsTriggered
<1> DEFINE f == [j \in There |-> start + j - 1]
<1> HIDE DEF last, start, n
<1>4. \A j \in There : f[j] \in Here
  <2> TAKE j \in There
  <2>1. start + j - 1 \in start..n /\ start + j - 1 \in Nat
    BY <1>1, <1>2
  <2>2. start + j - 1 \in 1..n /\ start + j - 1 > n - policy.window
    BY <1>1, <2>1
  <2>3. seen[start + j - 1]
    BY <1>1
  <2> QED BY <2>2, <2>3
<1>5. \A j, k \in There : f[j] = f[k] => j = k
  <2>1. \A j \in There : j \in Nat /\ f[j] = start + j - 1
    BY <1>1
  <2> HIDE DEF f
  <2> QED BY <1>1, <2>1
<1>6. \A i \in Here : \E j \in There : f[j] = i
  <2> TAKE i \in Here
  <2>1. i \in Nat /\ i \in start..n
    BY <1>1, <1>2
  <2>2. i - start + 1 \in DOMAIN last /\ start + (i - start + 1) - 1 = i
    BY <1>1, <1>2, <2>1
  <2>3. last[i - start + 1] = seen[i]
    BY <1>1, <2>2
  <2>4. i - start + 1 \in There
    BY <2>2, <2>3
  <2> QED BY <2>2, <2>4
<1>7. IsFiniteSet(There) /\ IsFiniteSet(Here)
  <2>1. IsFiniteSet(1..(n - start + 1)) /\ IsFiniteSet(1..n)
    BY <1>1, <1>2, FS_Interval
  <2> QED BY <1>1, <2>1, FS_Subset
<1>8. Cardinality(There) = Cardinality(Here)
  <2>1. f \in Bijection(There, Here)
    <3> HIDE DEF There, Here
    <3> QED BY <1>4, <1>5, <1>6 DEF Bijection, Injection, Surjection, IsInjective
  <2> HIDE DEF f, There, Here
  <2> QED BY <1>7, <2>1, FS_Bijection DEF ExistsBijection
<1> QED BY <1>3, <1>8 DEF n

-----------------------------------------------------------------------------
(***************************************************************************)
(* Stops.                                                                  *)
(***************************************************************************)
\* What the support of an epoch is read from: the active clients of the epochs up to it.
LEMMA HistoryIsOfTheRecords ==
    ASSUME NEW records \in Seq(EpochRecords), NEW t \in DOMAIN records
    PROVE  /\ Histories(records)[t] = [i \in 1..t |-> records[i].active]
           /\ Histories(records)[t] \in Seq(SUBSET Clients)
           /\ Len(Histories(records)[t]) = t
<1>1. Len(records) \in Nat /\ DOMAIN records = 1..Len(records)
  BY LenProperties
<1>2. \A i \in 1..Len(records) : records[i] \in EpochRecords
  BY ElementOfSeq
<1>3. t \in Nat /\ \A i \in 1..t : records[i].active \in SUBSET Clients
  BY <1>1, <1>2 DEF EpochRecords
<1>4. Histories(records)[t] = [i \in 1..t |-> records[i].active]
  BY DEF Histories
<1> QED BY <1>3, <1>4

\* The epochs that meet the threshold and the support predicate.
Stops(records, h) ==
    {t \in DOMAIN records : GlobalStates(records)[t] >= h /\ SupportPredicate(Histories(records)[t])}

\* The global stop is the first of them.
LEMMA GlobalStopIsFirst ==
    ASSUME NEW records \in Seq(EpochRecords), NEW h
    PROVE  /\ Stops(records, h) \subseteq 1..Len(records)
           /\ GlobalStop(records, h) = FirstOf(Stops(records, h))
           /\ GlobalStop(records, h) = None <=> Stops(records, h) = {}
           /\ GlobalStop(records, h) # None => GlobalStop(records, h) \in Stops(records, h)
<1>1. Stops(records, h) \subseteq 1..Len(records) /\ Len(records) \in Nat
  BY LenProperties DEF Stops
<1>2. GlobalStop(records, h) = FirstOf(Stops(records, h))
  BY DEF GlobalStop, Stops
<1>3. Stops(records, h) \subseteq Nat
  BY <1>1
<1> QED BY <1>1, <1>2, <1>3, FirstIsLeast

\* A later epoch stops only what did not stop before.
LEMMA GlobalStopStays ==
    ASSUME NEW records \in Seq(EpochRecords), NEW record \in EpochRecords, NEW h
    PROVE  GlobalStop(records, h) # None =>
             GlobalStop(Append(records, record), h) = GlobalStop(records, h)
<1> DEFINE more == Append(records, record) n == Len(records)
<1>1. /\ n \in Nat /\ DOMAIN records = 1..n /\ DOMAIN more = 1..(n + 1) /\ Len(more) = n + 1
      /\ \A t \in 1..n : more[t] = records[t]
      /\ more \in Seq(EpochRecords)
  BY OneRecordMore
<1>2. \A t \in 1..n : GlobalStates(more)[t] = GlobalStates(records)[t]
  BY <1>1, StatesExtend
<1>3. ASSUME NEW t \in 1..n PROVE Histories(more)[t] = Histories(records)[t]
  <2>1. \A i \in 1..t : more[i] = records[i]
    BY <1>1
  <2>2. t \in DOMAIN more /\ t \in DOMAIN records
    BY <1>1
  <2> HIDE DEF more
  <2> QED BY <2>1, <2>2 DEF Histories
<1> HIDE DEF more, n
<1>4. \A t \in 1..n : t \in Stops(more, h) <=> t \in Stops(records, h)
  BY <1>1, <1>2, <1>3 DEF Stops
<1>5. Stops(records, h) \subseteq 1..n /\ Stops(more, h) \subseteq 1..(n + 1)
  BY <1>1, GlobalStopIsFirst DEF n
<1>6. Stops(records, h) # {} => FirstOf(Stops(more, h)) = FirstOf(Stops(records, h))
  BY <1>1, <1>4, <1>5, FirstStaysFirst
<1>7. GlobalStop(more, h) = FirstOf(Stops(more, h))
  BY <1>1, GlobalStopIsFirst
<1> QED BY <1>6, <1>7, GlobalStopIsFirst DEF more

\* A higher threshold never stops a trajectory that a lower one does not.
LEMMA HigherStopsLess ==
    ASSUME NEW records \in Seq(EpochRecords), NEW h \in Nat, NEW k \in Nat, h <= k,
           GlobalStop(records, k) # None
    PROVE  GlobalStop(records, h) # None
<1>1. PICK t \in Stops(records, k) : TRUE
  BY GlobalStopIsFirst
<1>2. GlobalStates(records)[t] \in Int
  BY StatesFollow DEF Stops
<1>3. GlobalStates(records)[t] >= h
  BY <1>1, <1>2 DEF Stops
<1>4. t \in Stops(records, h)
  BY <1>1, <1>3 DEF Stops
<1> QED BY <1>4, GlobalStopIsFirst

\* The epochs at which the exceedances so far trigger a policy.
Triggers(seen, policy) ==
    {t \in DOMAIN seen : PersistenceIsTriggered(SubSeq(seen, 1, t), policy)}

\* They are those at whose end enough of the window exceed, and the local stop is the first.
LEMMA LocalStopIsFirst ==
    ASSUME NEW seen \in Seq(BOOLEAN), NEW policy, policy.window \in Nat \ {0}
    PROVE  /\ Triggers(seen, policy) \subseteq 1..Len(seen) /\ Len(seen) \in Nat
           /\ LocalStop(seen, policy) = FirstOf(Triggers(seen, policy))
           /\ LocalStop(seen, policy) = None <=> Triggers(seen, policy) = {}
           /\ LocalStop(seen, policy) # None => LocalStop(seen, policy) \in Triggers(seen, policy)
           /\ \A t \in Triggers(seen, policy) : LocalStop(seen, policy) <= t
           /\ \A t \in 1..Len(seen) :
                t \in Triggers(seen, policy) <=>
                    Cardinality({i \in 1..t : i > t - policy.window /\ seen[i]}) >= policy.required
<1>1. Len(seen) \in Nat /\ DOMAIN seen = 1..Len(seen) /\ \A i \in 1..Len(seen) : seen[i] \in BOOLEAN
  BY LenProperties, ElementOfSeq
<1>2. Triggers(seen, policy) \subseteq 1..Len(seen)
  BY <1>1 DEF Triggers
<1>3. LocalStop(seen, policy) = FirstOf(Triggers(seen, policy))
  BY DEF LocalStop, Triggers
<1>4. Triggers(seen, policy) \subseteq Nat
  BY <1>1, <1>2
<1>5. ASSUME NEW t \in 1..Len(seen)
      PROVE  t \in Triggers(seen, policy) <=>
               Cardinality({i \in 1..t : i > t - policy.window /\ seen[i]}) >= policy.required
  <2> DEFINE front == SubSeq(seen, 1, t)
  <2>1. t \in Nat /\ t \in Int /\ 1 \in Int /\ 1 <= t /\ t - 1 + 1 = t /\ \A i \in 1..t : seen[i] \in BOOLEAN
    BY <1>1
  <2>2. /\ front \in Seq(BOOLEAN)
        /\ Len(front) = IF 1 <= t THEN t - 1 + 1 ELSE 0
        /\ \A i \in 1..(t - 1 + 1) : front[i] = seen[1 + i - 1]
    BY <2>1, SubSeqProperties
  <2> HIDE DEF front
  <2>3. Len(front) = t /\ \A i \in 1..t : front[i] = seen[i]
    BY <2>1, <2>2
  <2>4. {i \in 1..Len(front) : i > Len(front) - policy.window /\ front[i]}
          = {i \in 1..t : i > t - policy.window /\ seen[i]}
    BY <2>3
  <2>5. PersistenceIsTriggered(front, policy) <=>
          Cardinality({i \in 1..t : i > t - policy.window /\ seen[i]}) >= policy.required
    BY <2>2, <2>4, PolicyIsOfTheEnd
  <2> QED BY <1>1, <2>5 DEF Triggers, front
<1> QED BY <1>1, <1>2, <1>3, <1>4, <1>5, FirstIsLeast

\* A later epoch triggers a policy only where it was not triggered before.
LEMMA LocalStopStays ==
    ASSUME NEW seen \in Seq(BOOLEAN), NEW e \in BOOLEAN, NEW policy, policy.window \in Nat \ {0}
    PROVE  /\ LocalStop(seen, policy) # None =>
                LocalStop(Append(seen, e), policy) = LocalStop(seen, policy)
           /\ LocalStop(seen, policy) = None =>
                LocalStop(Append(seen, e), policy) \in {None, Len(seen) + 1}
<1> DEFINE more == Append(seen, e) n == Len(seen)
<1>1. /\ n \in Nat /\ DOMAIN seen = 1..n /\ Len(more) = n + 1
      /\ \A t \in 1..n : more[t] = seen[t]
      /\ more \in Seq(BOOLEAN)
  BY OneRecordMore
<1> HIDE DEF more
<1>2. ASSUME NEW t \in 1..n PROVE t \in Triggers(more, policy) <=> t \in Triggers(seen, policy)
  <2>1. \A i \in 1..t : more[i] = seen[i]
    BY <1>1
  <2>2. {i \in 1..t : i > t - policy.window /\ more[i]} = {i \in 1..t : i > t - policy.window /\ seen[i]}
    BY <2>1
  <2>3. t \in 1..Len(more)
    BY <1>1
  <2> QED BY <1>1, <2>2, <2>3, LocalStopIsFirst
<1>3. Triggers(seen, policy) \subseteq 1..n /\ Triggers(more, policy) \subseteq 1..(n + 1)
  BY <1>1, LocalStopIsFirst
<1> HIDE DEF n
<1>4. /\ Triggers(seen, policy) # {} =>
            FirstOf(Triggers(more, policy)) = FirstOf(Triggers(seen, policy))
      /\ Triggers(seen, policy) = {} => FirstOf(Triggers(more, policy)) \in {None, n + 1}
  BY <1>1, <1>2, <1>3, FirstStaysFirst
<1>5. LocalStop(more, policy) = FirstOf(Triggers(more, policy))
  BY <1>1, LocalStopIsFirst
<1> QED BY <1>4, <1>5, LocalStopIsFirst DEF more, n

-----------------------------------------------------------------------------
(***************************************************************************)
(* The inductive invariant.                                                *)
(***************************************************************************)
\* The record of an epoch that comes after the trajectory.
Scored(atom) ==
    LET evidence == OperationalEvidence(atom, LastSums(trajectory))
    IN  [atom |-> atom, global |-> evidence.global, active |-> evidence.active, sums |-> evidence.sums]

\* It is what an epoch appends, and its active clients are those of its material coalitions.
LEMMA EpochIsScored ==
    ASSUME trajectory \in Seq(EpochRecords), NEW atom \in EpochAtoms
    PROVE  /\ Extended(atom) = Append(trajectory, Scored(atom))
           /\ Scored(atom) \in EpochRecords
           /\ Scored(atom).active =
                UNION {A \in Eligible : /\ A \in DOMAIN Scored(atom).sums
                                        /\ EvidenceFactor(Scored(atom).sums[A]) >= Material}
<1>1. LastSums(trajectory) \in Sums
  <2>1. CASE trajectory = <<>>
    BY <2>1, NoSums DEF LastSums
  <2>2. CASE trajectory # <<>>
    <3>1. Len(trajectory) \in 1..Len(trajectory)
      BY <2>2, EmptySeq, LenProperties
    <3>2. trajectory[Len(trajectory)] \in EpochRecords
      BY <3>1, ElementOfSeq
    <3> QED BY <2>2, <3>2 DEF LastSums, Last, EpochRecords
  <2> QED BY <2>1, <2>2
<1> DEFINE evidence == OperationalEvidence(atom, LastSums(trajectory))
<1>2. Extended(atom) = Append(trajectory, Scored(atom))
  BY DEF Extended, Scored, LastSums
<1>3. /\ evidence.global \in Int /\ evidence.sums \in Sums /\ evidence.active \in SUBSET Clients
      /\ evidence.active =
            UNION {A \in DOMAIN evidence.sums : EvidenceFactor(evidence.sums[A]) >= Material}
  BY <1>1, EvidenceIsTyped
<1>4. Scored(atom) = [atom |-> atom, global |-> evidence.global,
                      active |-> evidence.active, sums |-> evidence.sums]
  BY DEF Scored
<1> HIDE DEF evidence
<1>5. DOMAIN evidence.sums \in SUBSET Eligible
  BY <1>3, SumsAreTyped
<1>6. {A \in DOMAIN evidence.sums : EvidenceFactor(evidence.sums[A]) >= Material}
        = {A \in Eligible : /\ A \in DOMAIN evidence.sums
                            /\ EvidenceFactor(evidence.sums[A]) >= Material}
  BY <1>5
<1>7. Scored(atom) \in EpochRecords
  BY <1>3, <1>4 DEF EpochRecords
<1> QED BY <1>2, <1>3, <1>4, <1>6, <1>7

\* Scoring an epoch keeps the records well formed.
LEMMA ScoringKeepsRecords ==
    ASSUME trajectory \in Seq(EpochRecords), ActiveIsMaterial, NEW atom \in EpochAtoms,
           \A t \in DOMAIN trajectory : trajectory[t].atom \in EpochAtoms,
           trajectory' = Extended(atom)
    PROVE  /\ (trajectory \in Seq(EpochRecords))'
           /\ ActiveIsMaterial'
           /\ Len(trajectory) \in Nat /\ Len(trajectory') = Len(trajectory) + 1
           /\ \A t \in DOMAIN trajectory' : trajectory'[t].atom \in EpochAtoms
<1> DEFINE n == Len(trajectory) record == Scored(atom)
<1>1. /\ trajectory' = Append(trajectory, record) /\ record \in EpochRecords
      /\ record.active = UNION {A \in Eligible : /\ A \in DOMAIN record.sums
                                                 /\ EvidenceFactor(record.sums[A]) >= Material}
  BY EpochIsScored
<1>2. record.atom = atom
  BY DEF Scored
<1> HIDE DEF record
<1>3. /\ trajectory' \in Seq(EpochRecords) /\ n \in Nat /\ Len(trajectory') = n + 1
      /\ DOMAIN trajectory = 1..n /\ DOMAIN trajectory' = 1..(n + 1)
      /\ \A t \in 1..n : trajectory'[t] = trajectory[t]
      /\ trajectory'[n + 1] = record
  BY <1>1, OneRecordMore
<1> HIDE DEF n
<1>4. \A t \in 1..(n + 1) : t \in 1..n \/ t = n + 1
  BY <1>3
<1>5. ASSUME NEW t \in 1..(n + 1)
      PROVE  trajectory'[t].active = UNION {A \in Eligible : MaterialAt(A, t)'}
  <2>1. CASE t \in 1..n
    <3>1. \A A : MaterialAt(A, t)' <=> MaterialAt(A, t)
      BY <1>3, <2>1 DEF MaterialAt
    <3>2. trajectory[t].active = UNION {A \in Eligible : MaterialAt(A, t)}
      BY <1>3, <2>1 DEF ActiveIsMaterial
    <3> QED BY <1>3, <2>1, <3>1, <3>2
  <2>2. CASE t = n + 1
    <3>1. \A A : MaterialAt(A, t)' <=> /\ A \in DOMAIN record.sums
                                       /\ EvidenceFactor(record.sums[A]) >= Material
      BY <1>3, <2>2 DEF MaterialAt
    <3> QED BY <1>1, <1>3, <2>2, <3>1
  <2> QED BY <1>4, <2>1, <2>2
<1>6. ActiveIsMaterial'
  BY <1>3, <1>5 DEF ActiveIsMaterial
<1>7. \A t \in 1..(n + 1) : trajectory'[t].atom \in EpochAtoms
  BY <1>2, <1>3, <1>4
<1> QED BY <1>3, <1>6, <1>7 DEF n

\* It holds initially.
LEMMA DecisionInit == Init => DecisionInduction
<1> SUFFICES ASSUME Init PROVE DecisionInduction
  OBVIOUS
<1> USE DEF Init
<1>1. HorizonCount \in Nat \ {0} /\ Horizon \in Nat \ {0}
  BY DecisionAssumption, ParametersAssumption
<1>2. <<>> \in Sums
  BY NoSums
<1>3. TypeOK
  BY <1>1 DEF TypeOK, OnlineStart
<1>4. StateIsTyped
  BY <1>2 DEF StateIsTyped, OnlineStart
<1>5. ActiveIsMaterial
  BY DEF ActiveIsMaterial
<1>6. CalibrationComesFirst /\ ThresholdIsSelected /\ OnlineFollows
  BY DEF CalibrationComesFirst, ThresholdIsSelected, OnlineFollows
<1>7. FalseStopsFall
  BY DEF FalseStopsFall
<1> QED BY <1>3, <1>4, <1>5, <1>6, <1>7 DEF DecisionInduction

\* An epoch of a benign horizon changes the trajectory only.
LEMMA ScoreBenignStep ==
    ASSUME DecisionInduction, NEW atom \in EpochAtoms, ScoreBenignEpoch(atom)
    PROVE  DecisionInduction'
<1>1. /\ TypeOK /\ StateIsTyped /\ ActiveIsMaterial /\ CalibrationComesFirst
      /\ FalseStopsFall /\ ThresholdIsSelected /\ OnlineFollows
  BY DEF DecisionInduction
<1>2. /\ phase = "calibrating" /\ horizons < HorizonCount /\ Len(trajectory) < Horizon
      /\ trajectory' = Extended(atom)
      /\ UNCHANGED <<phase, falseStops, horizons, threshold, exceedances, online>>
  BY DEF ScoreBenignEpoch
<1>3. /\ trajectory' \in Seq(EpochRecords)
      /\ ActiveIsMaterial'
      /\ Len(trajectory) \in Nat /\ Len(trajectory') = Len(trajectory) + 1
      /\ \A t \in DOMAIN trajectory' : trajectory'[t].atom \in EpochAtoms
  BY <1>1, <1>2, ScoringKeepsRecords DEF StateIsTyped, TypeOK
<1>4. threshold = None
  BY <1>1, <1>2 DEF CalibrationComesFirst
<1>5. Horizon \in Nat /\ HorizonCount \in Nat /\ horizons \in Nat
  BY <1>1, DecisionAssumption, ParametersAssumption DEF TypeOK
<1>6. Len(trajectory') <= Horizon /\ horizons # HorizonCount
  BY <1>2, <1>3, <1>5
<1>7. TypeOK'
  BY <1>1, <1>2, <1>3, <1>4, <1>6 DEF TypeOK
<1>8. StateIsTyped'
  BY <1>1, <1>2, <1>3 DEF StateIsTyped
<1>9. CalibrationComesFirst' /\ ThresholdIsSelected' /\ OnlineFollows'
  BY <1>1, <1>2, <1>4, <1>6 DEF CalibrationComesFirst, ThresholdIsSelected, OnlineFollows
<1>10. FalseStopsFall'
  BY <1>1, <1>2 DEF FalseStopsFall
<1> QED BY <1>3, <1>7, <1>8, <1>9, <1>10 DEF DecisionInduction

\* Counting a horizon keeps the counts of the candidates in order.
LEMMA CountFalseStopsStep ==
    ASSUME DecisionInduction, CountFalseStops
    PROVE  DecisionInduction'
<1>1. /\ TypeOK /\ StateIsTyped /\ ActiveIsMaterial /\ CalibrationComesFirst
      /\ FalseStopsFall /\ ThresholdIsSelected /\ OnlineFollows
  BY DEF DecisionInduction
<1> DEFINE stops(h) == IF GlobalStop(trajectory, h) = None THEN 0 ELSE 1
<1>2. /\ phase = "calibrating" /\ Len(trajectory) = Horizon
      /\ falseStops' = [h \in Candidates |-> falseStops[h] + stops(h)]
      /\ horizons' = horizons + 1 /\ trajectory' = <<>>
      /\ UNCHANGED <<phase, threshold, exceedances, online>>
  BY DEF CountFalseStops
<1>3. threshold = None
  BY <1>1, <1>2 DEF CalibrationComesFirst
<1>4. /\ Horizon \in Nat \ {0} /\ HorizonCount \in Nat /\ Candidates \subseteq Nat
      /\ horizons \in 0..HorizonCount /\ falseStops \in [Candidates -> 0..horizons]
  BY <1>1, DecisionAssumption, ParametersAssumption DEF TypeOK
<1>5. horizons # HorizonCount
  <2>1. trajectory # <<>>
    BY <1>2, <1>4, EmptySeq
  <2> QED BY <1>1, <1>2, <2>1 DEF CalibrationComesFirst
<1>6. horizons' \in 0..HorizonCount
  BY <1>2, <1>4, <1>5
<1>7. \A h \in Candidates : stops(h) \in {0, 1}
  OBVIOUS
<1>8. \A h, k \in Candidates : h <= k => stops(k) <= stops(h)
  <2> SUFFICES ASSUME NEW h \in Candidates, NEW k \in Candidates, h <= k, stops(k) = 1
               PROVE  stops(h) = 1
    BY <1>7
  <2>1. GlobalStop(trajectory, k) # None
    OBVIOUS
  <2>2. trajectory \in Seq(EpochRecords)
    BY <1>1 DEF StateIsTyped
  <2>3. GlobalStop(trajectory, h) # None
    BY <1>4, <2>1, <2>2, HigherStopsLess
  <2> QED BY <2>3
<1> HIDE DEF stops
<1>9. falseStops' \in [Candidates -> 0..horizons']
  BY <1>2, <1>4, <1>7
<1>10. FalseStopsFall'
  <2> SUFFICES ASSUME NEW h \in Candidates, NEW k \in Candidates, h <= k
               PROVE  falseStops'[k] <= falseStops'[h]
    BY DEF FalseStopsFall
  <2>1. falseStops[k] <= falseStops[h] /\ stops(k) <= stops(h)
    BY <1>1, <1>8 DEF FalseStopsFall
  <2>2. falseStops[k] \in Nat /\ falseStops[h] \in Nat
    BY <1>4
  <2>3. falseStops'[k] = falseStops[k] + stops(k) /\ falseStops'[h] = falseStops[h] + stops(h)
    BY <1>2
  <2> QED BY <1>7, <2>1, <2>2, <2>3
<1>11. Len(trajectory') <= Horizon /\ DOMAIN trajectory' = {}
  BY <1>2, <1>4
<1>12. TypeOK'
  BY <1>1, <1>2, <1>3, <1>6, <1>9, <1>11 DEF TypeOK
<1>13. StateIsTyped'
  BY <1>1, <1>2 DEF StateIsTyped
<1>14. ActiveIsMaterial'
  BY <1>11 DEF ActiveIsMaterial
<1>15. CalibrationComesFirst' /\ ThresholdIsSelected' /\ OnlineFollows'
  BY <1>1, <1>2, <1>3 DEF CalibrationComesFirst, ThresholdIsSelected, OnlineFollows
<1> QED BY <1>10, <1>12, <1>13, <1>14, <1>15 DEF DecisionInduction

\* The operating point is fixed when no epoch is under way: the replay begins with an empty
\* trajectory and a loop that has not begun.
LEMMA FixOperatingPointStep ==
    ASSUME DecisionInduction, FixOperatingPoint
    PROVE  DecisionInduction'
<1>1. /\ TypeOK /\ StateIsTyped /\ ActiveIsMaterial /\ CalibrationComesFirst
      /\ FalseStopsFall /\ ThresholdIsSelected /\ OnlineFollows
  BY DEF DecisionInduction
<1>2. /\ phase = "calibrating" /\ horizons = HorizonCount
      /\ threshold' = SelectCalibratedThreshold
      /\ phase' = "replaying"
      /\ UNCHANGED <<trajectory, falseStops, horizons, exceedances, online>>
  BY DEF FixOperatingPoint
<1>3. threshold = None /\ trajectory = <<>>
  BY <1>1, <1>2 DEF CalibrationComesFirst
<1>4. Len(trajectory) = 0 /\ DOMAIN trajectory = {}
  BY <1>3
<1>5. threshold' \in Candidates \cup {None}
  <2>1. {h \in Candidates : falseStops[h] <= AllowedFalseStops} \subseteq Nat
    BY DecisionAssumption
  <2> QED BY <1>2, <2>1, FirstIsLeast DEF SelectCalibratedThreshold
<1>6. online = OnlineStart
  BY <1>1, <1>3 DEF OnlineFollows
<1>7. TypeOK'
  <2>1. \A c \in DOMAIN Policies : Len(exceedances[c]) = 0
    BY <1>1, <1>2 DEF TypeOK
  <2>2. Len(online.history) = 0
    BY <1>1, <1>3 DEF TypeOK
  <2> QED BY <1>1, <1>2, <1>4, <1>5, <2>1, <2>2 DEF TypeOK
<1>8. StateIsTyped'
  BY <1>1, <1>2 DEF StateIsTyped
<1>9. ActiveIsMaterial' /\ FalseStopsFall'
  BY <1>1, <1>2, <1>4 DEF ActiveIsMaterial, FalseStopsFall
<1>10. ThresholdIsSelected' /\ CalibrationComesFirst'
  BY <1>2 DEF ThresholdIsSelected, CalibrationComesFirst, SelectCalibratedThreshold
<1>11. OnlineFollows'
  <2>1. [t \in DOMAIN trajectory |-> trajectory[t].active] = <<>>
    BY <1>4
  <2>2. trajectory' = <<>> /\ online' = OnlineStart /\ DOMAIN trajectory' = {}
    BY <1>2, <1>3, <1>4, <1>6
  <2> QED BY <2>1, <2>2 DEF OnlineFollows, OnlineStart, LastSums, LastState
<1> QED BY <1>7, <1>8, <1>9, <1>10, <1>11 DEF DecisionInduction

\* The loop advances as the trajectory does.
LEMMA OnlineAdvances ==
    ASSUME DecisionInduction, NEW atom \in EpochAtoms, threshold # None,
           trajectory' = Extended(atom), threshold' = threshold,
           online' = AdvanceOperationalEpoch(atom)
    PROVE  /\ online' \in [sums : Sums, state : Int,
                           history : Seq(SUBSET Clients), stopped : Seq(BOOLEAN)]
           /\ OnlineFollows'
           /\ Len(online'.history) = Len(trajectory')
           /\ Len(online'.stopped) = Len(trajectory')
<1> DEFINE n == Len(trajectory) record == Scored(atom)
           evidence == OperationalEvidence(atom, LastSums(trajectory))
           state == NextGlobalState(online.state, record.global)
           history == Append(online.history, record.active)
           stops == state >= threshold /\ SupportPredicate(history)
           stopped == Append(online.stopped, stops)
<1>1. /\ trajectory \in Seq(EpochRecords)
      /\ online \in [sums : Sums, state : Int, history : Seq(SUBSET Clients), stopped : Seq(BOOLEAN)]
      /\ Len(online.history) = n /\ Len(online.stopped) = n
  BY DEF DecisionInduction, StateIsTyped, TypeOK
<1>2. /\ online.sums = LastSums(trajectory)
      /\ online.state = LastState(trajectory)
      /\ online.history = [t \in DOMAIN trajectory |-> trajectory[t].active]
      /\ \A t \in DOMAIN trajectory :
           online.stopped[t] <=> /\ GlobalStates(trajectory)[t] >= threshold
                                 /\ SupportPredicate(Histories(trajectory)[t])
  BY DEF DecisionInduction, OnlineFollows
<1>3. trajectory' = Append(trajectory, record) /\ record \in EpochRecords
  BY <1>1, EpochIsScored
<1>4. record.global = evidence.global /\ record.active = evidence.active /\ record.sums = evidence.sums
  BY DEF Scored
<1>5. online' = [sums |-> record.sums, state |-> state, history |-> history, stopped |-> stopped]
  <2>1. online' = [sums |-> evidence.sums,
                   state |-> NextGlobalState(online.state, evidence.global),
                   history |-> Append(online.history, evidence.active),
                   stopped |-> Append(online.stopped,
                        /\ NextGlobalState(online.state, evidence.global) >= threshold
                        /\ SupportPredicate(Append(online.history, evidence.active)))]
    BY <1>2 DEF AdvanceOperationalEpoch
  <2> HIDE DEF evidence, record
  <2> QED BY <1>4, <2>1
<1>6. /\ trajectory' \in Seq(EpochRecords) /\ n \in Nat /\ Len(trajectory') = n + 1
      /\ DOMAIN trajectory = 1..n /\ DOMAIN trajectory' = 1..(n + 1)
      /\ \A t \in 1..n : trajectory'[t] = trajectory[t]
      /\ trajectory'[n + 1] = record
  BY <1>1, <1>3, OneRecordMore
<1>7. /\ \A t \in 1..n : GlobalStates(trajectory')[t] = GlobalStates(trajectory)[t]
      /\ GlobalStates(trajectory')[n + 1] = state
  <2>1. trajectory \in Seq(EpochRecords) /\ record \in EpochRecords
    BY <1>1, <1>3
  <2> HIDE DEF record
  <2> QED BY <1>2, <1>3, <1>6, <2>1, StatesExtend
<1>8. record.global \in Int /\ record.active \in SUBSET Clients /\ record.sums \in Sums
  BY <1>3 DEF EpochRecords
<1>9. state \in Int
  BY <1>1, <1>8, NextStateIsInteger
<1>10. stops \in BOOLEAN
  BY DEF SupportPredicate
<1> HIDE DEF n, record, state, stops
<1>11. /\ history \in Seq(SUBSET Clients) /\ Len(history) = n + 1
       /\ \A t \in 1..n : history[t] = online.history[t]
       /\ history[n + 1] = record.active
  BY <1>1, <1>8, OneRecordMore
<1>12. /\ stopped \in Seq(BOOLEAN) /\ Len(stopped) = n + 1
       /\ \A t \in 1..n : stopped[t] = online.stopped[t]
       /\ stopped[n + 1] = stops
  BY <1>1, <1>10, OneRecordMore
<1>13. history = [t \in 1..(n + 1) |-> trajectory'[t].active]
  <2>1. history = [t \in 1..(n + 1) |-> history[t]]
    BY <1>11
  <2>2. ASSUME NEW t \in 1..(n + 1) PROVE history[t] = trajectory'[t].active
    <3>1. CASE t \in 1..n
      BY <1>2, <1>6, <1>11, <3>1
    <3>2. CASE t = n + 1
      BY <1>6, <1>11, <3>2
    <3> HIDE DEF history
    <3> QED BY <1>6, <3>1, <3>2
  <2> HIDE DEF history
  <2> QED BY <2>1, <2>2
<1>14. ASSUME NEW t \in 1..n PROVE Histories(trajectory')[t] = Histories(trajectory)[t]
  <2>1. t \in DOMAIN trajectory /\ t \in DOMAIN trajectory' /\ \A i \in 1..t : i \in 1..n
    BY <1>6
  <2>2. /\ Histories(trajectory')[t] = [i \in 1..t |-> trajectory'[i].active]
        /\ Histories(trajectory)[t] = [i \in 1..t |-> trajectory[i].active]
    BY <1>1, <1>6, <2>1, HistoryIsOfTheRecords
  <2> QED BY <1>6, <2>1, <2>2
<1>15. Histories(trajectory')[n + 1] = history
  <2>1. n + 1 \in DOMAIN trajectory'
    BY <1>6
  <2>2. Histories(trajectory')[n + 1] = [i \in 1..(n + 1) |-> trajectory'[i].active]
    BY <1>6, <2>1, HistoryIsOfTheRecords
  <2> HIDE DEF history
  <2> QED BY <1>13, <2>2
<1>16. ASSUME NEW t \in 1..(n + 1)
       PROVE  stopped[t] <=> /\ GlobalStates(trajectory')[t] >= threshold
                             /\ SupportPredicate(Histories(trajectory')[t])
  <2>1. CASE t \in 1..n
    BY <1>2, <1>6, <1>7, <1>12, <1>14, <2>1
  <2>2. CASE t = n + 1
    BY <1>7, <1>12, <1>15, <2>2 DEF stops
  <2> HIDE DEF stopped
  <2> QED BY <1>6, <2>1, <2>2
<1> HIDE DEF history, stopped
<1>17. trajectory' # <<>>
  BY <1>6, EmptySeq
<1>18. LastSums(trajectory') = record.sums /\ LastState(trajectory') = state
  BY <1>6, <1>7, <1>17 DEF LastSums, LastState, Last
<1>19. OnlineFollows'
  <2>1. /\ online'.sums = LastSums(trajectory')
        /\ online'.state = LastState(trajectory')
        /\ online'.history = [t \in DOMAIN trajectory' |-> trajectory'[t].active]
    BY <1>5, <1>6, <1>13, <1>18
  <2>2. \A t \in DOMAIN trajectory' :
           online'.stopped[t] <=> /\ GlobalStates(trajectory')[t] >= threshold
                                  /\ SupportPredicate(Histories(trajectory')[t])
    BY <1>5, <1>6, <1>16
  <2> QED BY <2>1, <2>2 DEF OnlineFollows
<1>20. online' \in [sums : Sums, state : Int, history : Seq(SUBSET Clients), stopped : Seq(BOOLEAN)]
  BY <1>5, <1>8, <1>9, <1>11, <1>12
<1> QED BY <1>5, <1>6, <1>11, <1>12, <1>19, <1>20

\* An epoch of a replay, of the trajectory, the exceedances and the loop.
LEMMA ReplayStep ==
    ASSUME DecisionInduction, NEW atom \in EpochAtoms,
           NEW exceeds \in [DOMAIN Policies -> BOOLEAN], ReplayEpoch(atom, exceeds)
    PROVE  DecisionInduction'
<1>1. /\ TypeOK /\ StateIsTyped /\ ActiveIsMaterial /\ CalibrationComesFirst
      /\ FalseStopsFall /\ ThresholdIsSelected /\ OnlineFollows
  BY DEF DecisionInduction
<1>2. /\ phase = "replaying" /\ Len(trajectory) < Horizon
      /\ trajectory' = Extended(atom)
      /\ exceedances' = [c \in DOMAIN Policies |-> Append(exceedances[c], exceeds[c])]
      /\ online' = IF threshold = None THEN online ELSE AdvanceOperationalEpoch(atom)
      /\ UNCHANGED <<phase, falseStops, horizons, threshold>>
  BY DEF ReplayEpoch
<1>3. /\ trajectory' \in Seq(EpochRecords)
      /\ ActiveIsMaterial'
      /\ Len(trajectory) \in Nat /\ Len(trajectory') = Len(trajectory) + 1
      /\ \A t \in DOMAIN trajectory' : trajectory'[t].atom \in EpochAtoms
  BY <1>1, <1>2, ScoringKeepsRecords DEF StateIsTyped, TypeOK
<1>4. Len(trajectory') <= Horizon
  BY <1>2, <1>3, DecisionAssumption, ParametersAssumption
<1>5. /\ exceedances' \in [DOMAIN Policies -> Seq(BOOLEAN)]
      /\ \A c \in DOMAIN Policies : Len(exceedances'[c]) = Len(trajectory')
  <2>1. ASSUME NEW c \in DOMAIN Policies
        PROVE  /\ Append(exceedances[c], exceeds[c]) \in Seq(BOOLEAN)
               /\ Len(Append(exceedances[c], exceeds[c])) = Len(trajectory')
    <3>1. exceedances[c] \in Seq(BOOLEAN) /\ exceeds[c] \in BOOLEAN
      BY <1>1 DEF StateIsTyped
    <3>2. Len(exceedances[c]) = Len(trajectory)
      BY <1>1, <1>2 DEF TypeOK
    <3> QED BY <1>3, <3>1, <3>2, OneRecordMore
  <2> QED BY <1>2, <2>1
<1>6. /\ online' \in [sums : Sums, state : Int, history : Seq(SUBSET Clients), stopped : Seq(BOOLEAN)]
      /\ OnlineFollows'
      /\ Len(online'.history) = IF threshold = None THEN 0 ELSE Len(trajectory')
      /\ Len(online'.stopped) = Len(online'.history)
  <2>1. CASE threshold = None
    <3>1. online' = online /\ threshold' = None
      BY <1>2, <2>1
    <3> QED BY <1>1, <2>1, <3>1 DEF StateIsTyped, TypeOK, OnlineFollows
  <2>2. CASE threshold # None
    BY <1>2, <2>2, OnlineAdvances
  <2> QED BY <2>1, <2>2
<1>7. DOMAIN online'.sums \subseteq Eligible
  <2>1. online'.sums \in Sums
    BY <1>6
  <2> QED BY <2>1, SumsAreTyped
<1>8. TypeOK'
  BY <1>1, <1>2, <1>3, <1>4, <1>5, <1>6, <1>7 DEF TypeOK
<1>9. StateIsTyped'
  BY <1>3, <1>5, <1>6 DEF StateIsTyped
<1>10. CalibrationComesFirst' /\ ThresholdIsSelected' /\ FalseStopsFall'
  BY <1>1, <1>2 DEF CalibrationComesFirst, ThresholdIsSelected, FalseStopsFall, SelectCalibratedThreshold
<1> QED BY <1>3, <1>6, <1>8, <1>9, <1>10 DEF DecisionInduction

\* Every step keeps it.
LEMMA DecisionStep == DecisionInduction /\ [Next]_vars => DecisionInduction'
<1> SUFFICES ASSUME DecisionInduction, [Next]_vars PROVE DecisionInduction'
  OBVIOUS
<1>1. ASSUME NEW atom \in EpochAtoms, ScoreBenignEpoch(atom) PROVE DecisionInduction'
  BY <1>1, ScoreBenignStep
<1>2. CASE CountFalseStops
  BY <1>2, CountFalseStopsStep
<1>3. CASE FixOperatingPoint
  BY <1>3, FixOperatingPointStep
<1>4. ASSUME NEW atom \in EpochAtoms, NEW exceeds \in [DOMAIN Policies -> BOOLEAN],
             ReplayEpoch(atom, exceeds)
      PROVE  DecisionInduction'
  BY <1>4, ReplayStep
<1>5. CASE UNCHANGED vars
  BY <1>5 DEF vars, DecisionInduction, TypeOK, StateIsTyped, ActiveIsMaterial, MaterialAt,
              CalibrationComesFirst, FalseStopsFall, ThresholdIsSelected, OnlineFollows,
              SelectCalibratedThreshold
<1> QED BY <1>1, <1>2, <1>3, <1>4, <1>5 DEF Next

-----------------------------------------------------------------------------
(***************************************************************************)
(* What follows from it.                                                   *)
(***************************************************************************)
\* What the invariant says of the values the properties compare: a threshold is there only in
\* a replay, and then each policy has seen as many epochs as the trajectory has.
LEMMA ReplayIsTyped ==
    ASSUME DecisionInduction
    PROVE  /\ trajectory \in Seq(EpochRecords)
           /\ Len(trajectory) \in Nat /\ DOMAIN trajectory = 1..Len(trajectory)
           /\ threshold # None => phase = "replaying"
           /\ \A c \in DOMAIN Policies :
                /\ exceedances[c] \in Seq(BOOLEAN)
                /\ Policies[c].window \in Nat \ {0}
                /\ phase = "replaying" => Len(exceedances[c]) = Len(trajectory)
<1>1. trajectory \in Seq(EpochRecords) /\ \A c \in DOMAIN Policies : exceedances[c] \in Seq(BOOLEAN)
  BY DEF DecisionInduction, StateIsTyped
<1>2. Len(trajectory) \in Nat /\ DOMAIN trajectory = 1..Len(trajectory)
  BY <1>1, LenProperties
<1>3. threshold # None => phase = "replaying"
  BY DEF DecisionInduction, CalibrationComesFirst, TypeOK
<1>4. \A c \in DOMAIN Policies : phase = "replaying" => Len(exceedances[c]) = Len(trajectory)
  BY DEF DecisionInduction, TypeOK
<1> QED BY <1>1, <1>2, <1>3, <1>4, DecisionAssumption

\* The campaign's stop is one of its epochs.
LEMMA CampaignStopIsAnEpoch ==
    ASSUME DecisionInduction, CampaignStop # None
    PROVE  /\ threshold # None
           /\ CampaignStop = GlobalStop(trajectory, threshold)
           /\ CampaignStop \in Stops(trajectory, threshold)
           /\ CampaignStop \in 1..Len(trajectory)
<1>1. threshold # None /\ CampaignStop = GlobalStop(trajectory, threshold)
  BY DEF CampaignStop
<1>2. trajectory \in Seq(EpochRecords)
  BY ReplayIsTyped
<1> QED BY <1>1, <1>2, GlobalStopIsFirst

\* The clients behind a stop are those the support predicate counts.
LEMMA StopsAreSupported == DecisionInduction => StopIsSupported
<1> SUFFICES ASSUME DecisionInduction, CampaignStop # None
             PROVE  LET window == {t \in 1..CampaignStop : t > CampaignStop - TrailingWindow}
                        behind == {c \in Clients : \E A \in Eligible, t \in window :
                                                      c \in A /\ MaterialAt(A, t)}
                    IN  Cardinality(behind) >= MinimumClients
  BY DEF StopIsSupported
<1> DEFINE s == CampaignStop
           window == {t \in 1..s : t > s - TrailingWindow}
           behind == {c \in Clients : \E A \in Eligible, t \in window : c \in A /\ MaterialAt(A, t)}
           history == Histories(trajectory)[s]
<1>1. /\ trajectory \in Seq(EpochRecords) /\ Len(trajectory) \in Nat
      /\ DOMAIN trajectory = 1..Len(trajectory)
  BY ReplayIsTyped
<1>2. s \in Stops(trajectory, threshold) /\ s \in 1..Len(trajectory)
  BY CampaignStopIsAnEpoch
<1>3. SupportPredicate(history)
  BY <1>2 DEF Stops
<1> HIDE DEF s
<1>4. /\ history = [i \in 1..s |-> trajectory[i].active]
      /\ history \in Seq(SUBSET Clients) /\ Len(history) = s
  BY <1>1, <1>2, HistoryIsOfTheRecords
<1>5. \A i \in 1..s : trajectory[i].active = UNION {A \in Eligible : MaterialAt(A, i)}
  BY <1>1, <1>2 DEF DecisionInduction, ActiveIsMaterial
<1>6. \A c : c \in WindowClients(history) <=>
               \E i \in 1..s : i > s - TrailingWindow /\ c \in trajectory[i].active
  <2>1. \A c : c \in WindowClients(history) <=>
               \E i \in 1..Len(history) : i > Len(history) - TrailingWindow /\ c \in history[i]
    BY <1>4, WindowIsOfTheEnd
  <2>2. \A i \in 1..s : history[i] = trajectory[i].active
    BY <1>4
  <2> HIDE DEF history
  <2> QED BY <1>4, <2>1, <2>2
<1>7. \A A \in Eligible : A \subseteq Clients
  BY CoalitionsAreFinite
<1>8. WindowClients(history) = behind
  <2> HIDE DEF history
  <2>1. ASSUME NEW c \in WindowClients(history) PROVE c \in behind
    <3>1. PICK i \in 1..s : i > s - TrailingWindow /\ c \in trajectory[i].active
      BY <1>6
    <3>2. PICK A \in Eligible : MaterialAt(A, i) /\ c \in A
      BY <1>5, <3>1
    <3> QED BY <1>7, <3>1, <3>2
  <2>2. ASSUME NEW c \in behind PROVE c \in WindowClients(history)
    <3>1. PICK A \in Eligible, t \in window : c \in A /\ MaterialAt(A, t)
      OBVIOUS
    <3>2. c \in trajectory[t].active
      BY <1>5, <3>1
    <3> QED BY <1>6, <3>1, <3>2
  <2> QED BY <2>1, <2>2
<1> HIDE DEF history
<1> QED BY <1>3, <1>8 DEF SupportPredicate, s

\* The stops of the policies that have one, of which the earliest is compared.
LocalStops == {LocalStop(exceedances[c], Policies[c]) : c \in DOMAIN Policies} \ {None}

\* They are numbers, and the earliest is the first of them.
LEMMA LocalStopsAreNumbers ==
    ASSUME DecisionInduction
    PROVE  /\ LocalStops \subseteq Nat
           /\ EarliestLocalStop = FirstOf(LocalStops)
<1>1. ASSUME NEW c \in DOMAIN Policies, LocalStop(exceedances[c], Policies[c]) # None
      PROVE  LocalStop(exceedances[c], Policies[c]) \in Nat
  <2>1. exceedances[c] \in Seq(BOOLEAN) /\ Policies[c].window \in Nat \ {0}
    BY ReplayIsTyped
  <2> QED BY <1>1, <2>1, LocalStopIsFirst
<1> QED BY <1>1 DEF LocalStops, EarliestLocalStop

\* A policy that is met at or before the stop has a local stop no later than that.
LEMMA LeadsAreStrict == DecisionInduction => StrictOdiIsStrict
<1> SUFFICES ASSUME DecisionInduction, CampaignOdi = 1
             PROVE  /\ CampaignStop # None
                    /\ \A c \in DOMAIN Policies, t \in 1..CampaignStop : ~Burst(c, t)
  BY DEF StrictOdiIsStrict
<1>1. /\ CampaignStop # None
      /\ EarliestLocalStop # None => CampaignStop < EarliestLocalStop
  BY DEF CampaignOdi, StrictOdi
<1>2. CampaignStop \in 1..Len(trajectory) /\ threshold # None /\ Len(trajectory) \in Nat
  BY <1>1, CampaignStopIsAnEpoch, ReplayIsTyped
<1>3. ASSUME NEW c \in DOMAIN Policies, NEW t \in 1..CampaignStop, Burst(c, t) PROVE FALSE
  <2> DEFINE seen == exceedances[c] policy == Policies[c] stop == LocalStop(seen, policy)
  <2>1. seen \in Seq(BOOLEAN) /\ policy.window \in Nat \ {0} /\ Len(seen) = Len(trajectory)
    BY <1>2, ReplayIsTyped
  <2>2. t \in 1..Len(seen) /\ t \in Nat /\ t <= CampaignStop
    BY <1>2, <2>1
  <2>3. Cardinality({i \in 1..t : i > t - policy.window /\ seen[i]}) >= policy.required
    BY <1>3 DEF Burst
  <2> HIDE DEF seen, policy
  <2>4. t \in Triggers(seen, policy)
    BY <2>1, <2>2, <2>3, LocalStopIsFirst
  <2>5. stop # None /\ stop <= t
    BY <2>1, <2>4, LocalStopIsFirst
  <2>6. stop \in LocalStops
    BY <2>5 DEF LocalStops, seen, policy
  <2>7. /\ EarliestLocalStop # None /\ EarliestLocalStop <= stop
        /\ EarliestLocalStop \in Nat /\ stop \in Nat
    <3> HIDE DEF stop
    <3> QED BY <2>6, LocalStopsAreNumbers, FirstIsLeast
  <2> HIDE DEF stop
  <2> QED BY <1>1, <1>2, <2>2, <2>5, <2>7
<1> QED BY <1>1, <1>3

\* The loop's stops are those of the trajectory.
LEMMA LoopAgrees == DecisionInduction => OnlineAgreesWithTrajectory
<1> SUFFICES ASSUME DecisionInduction, threshold # None
             PROVE  FirstOf({t \in DOMAIN online.stopped : online.stopped[t]}) = CampaignStop
  BY DEF OnlineAgreesWithTrajectory
<1>1. trajectory \in Seq(EpochRecords) /\ DOMAIN trajectory = 1..Len(trajectory)
  BY ReplayIsTyped
<1>2. DOMAIN online.stopped = 1..Len(trajectory)
  <2>1. online.stopped \in Seq(BOOLEAN) /\ Len(online.stopped) = Len(trajectory)
    BY DEF DecisionInduction, StateIsTyped, TypeOK
  <2> QED BY <2>1, LenProperties
<1>3. \A t \in DOMAIN trajectory :
        online.stopped[t] <=> /\ GlobalStates(trajectory)[t] >= threshold
                              /\ SupportPredicate(Histories(trajectory)[t])
  BY DEF DecisionInduction, OnlineFollows
<1>4. {t \in DOMAIN online.stopped : online.stopped[t]} = Stops(trajectory, threshold)
  BY <1>1, <1>2, <1>3 DEF Stops
<1>5. CampaignStop = GlobalStop(trajectory, threshold)
  BY DEF CampaignStop
<1> QED BY <1>1, <1>4, <1>5, GlobalStopIsFirst

\* The smallest candidate that passes separates them, as false stops fall.
LEMMA ThresholdSeparates == DecisionInduction => CalibratedThresholdIsSharp
<1> SUFFICES ASSUME DecisionInduction, phase = "replaying", NEW h \in Candidates
             PROVE  falseStops[h] <= AllowedFalseStops <=> threshold # None /\ h >= threshold
  BY DEF CalibratedThresholdIsSharp
<1> DEFINE Passing == {k \in Candidates : falseStops[k] <= AllowedFalseStops}
<1>1. threshold = FirstOf(Passing)
  BY DEF DecisionInduction, ThresholdIsSelected, SelectCalibratedThreshold
<1>2. Candidates \subseteq Nat /\ Passing \subseteq Nat /\ AllowedFalseStops \in Nat
  BY DecisionAssumption
<1>3. \A k \in Candidates : falseStops[k] \in Nat
  BY DEF DecisionInduction, TypeOK
<1>4. h \in Passing <=> falseStops[h] <= AllowedFalseStops
  OBVIOUS
<1>5. ASSUME h \in Passing PROVE threshold # None /\ h >= threshold
  <2> HIDE DEF Passing
  <2>1. threshold \in Passing /\ threshold # None /\ threshold <= h
    BY <1>1, <1>2, <1>5, FirstIsLeast
  <2> QED BY <1>2, <2>1
<1>6. ASSUME threshold # None, h >= threshold PROVE h \in Passing
  <2>1. threshold \in Passing
    <3> HIDE DEF Passing
    <3> QED BY <1>1, <1>2, <1>6, FirstIsLeast
  <2>2. threshold \in Candidates /\ falseStops[threshold] <= AllowedFalseStops
    BY <2>1
  <2>3. threshold <= h
    BY <1>2, <1>6, <2>2
  <2>4. falseStops[h] <= falseStops[threshold]
    BY <2>2, <2>3 DEF DecisionInduction, FalseStopsFall
  <2> QED BY <1>2, <1>3, <2>2, <2>4
<1> HIDE DEF Passing
<1> QED BY <1>4, <1>5, <1>6

\* Only an epoch of the replay changes a replay, and it only adds to it: a later stop, or the
\* local stop of a later epoch, comes after the stop that was made.
LEMMA VerdictsStep == DecisionInduction /\ [Next]_vars => [VerdictsStay]_vars
<1> SUFFICES ASSUME DecisionInduction, Next, phase = "replaying" PROVE VerdictsStay
  BY DEF VerdictsStay
<1>1. PICK atom \in EpochAtoms, exceeds \in [DOMAIN Policies -> BOOLEAN] : ReplayEpoch(atom, exceeds)
  BY DEF Next, ScoreBenignEpoch, CountFalseStops, FixOperatingPoint
<1>2. /\ trajectory' = Extended(atom) /\ threshold' = threshold
      /\ exceedances' = [c \in DOMAIN Policies |-> Append(exceedances[c], exceeds[c])]
  BY <1>1 DEF ReplayEpoch
<1>3. trajectory' = Append(trajectory, Scored(atom)) /\ Scored(atom) \in EpochRecords
  BY <1>2, ReplayIsTyped, EpochIsScored
<1>4. CampaignStop # None => CampaignStop' = CampaignStop
  <2> SUFFICES ASSUME CampaignStop # None PROVE CampaignStop' = CampaignStop
    OBVIOUS
  <2>1. threshold # None /\ CampaignStop = GlobalStop(trajectory, threshold)
    BY CampaignStopIsAnEpoch
  <2>2. CampaignStop' = GlobalStop(trajectory', threshold)
    BY <1>2, <2>1 DEF CampaignStop
  <2>3. GlobalStop(Append(trajectory, Scored(atom)), threshold) = GlobalStop(trajectory, threshold)
    BY <1>3, <2>1, ReplayIsTyped, GlobalStopStays
  <2> QED BY <1>3, <2>1, <2>2, <2>3
<1>5. ASSUME NEW c \in DOMAIN Policies
      PROVE  /\ LocalStop(exceedances[c], Policies[c]) # None =>
                  LocalStop(exceedances'[c], Policies[c]) = LocalStop(exceedances[c], Policies[c])
             /\ LocalStop(exceedances[c], Policies[c]) = None =>
                  LocalStop(exceedances'[c], Policies[c]) \in {None, Len(trajectory) + 1}
  <2> DEFINE seen == exceedances[c] policy == Policies[c] e == exceeds[c]
  <2>1. /\ seen \in Seq(BOOLEAN) /\ policy.window \in Nat \ {0} /\ e \in BOOLEAN
        /\ Len(seen) = Len(trajectory) /\ exceedances'[c] = Append(seen, e)
    BY <1>2, ReplayIsTyped
  <2> HIDE DEF seen, policy, e
  <2>2. /\ LocalStop(seen, policy) # None =>
              LocalStop(Append(seen, e), policy) = LocalStop(seen, policy)
        /\ LocalStop(seen, policy) = None =>
              LocalStop(Append(seen, e), policy) \in {None, Len(seen) + 1}
    BY <2>1, LocalStopStays
  <2> QED BY <2>1, <2>2 DEF seen, policy
<1>6. CampaignOdi = 1 => CampaignOdi' = 1
  <2> SUFFICES ASSUME CampaignOdi = 1 PROVE CampaignOdi' = 1
    OBVIOUS
  <2> DEFINE s == CampaignStop
  <2>1. s # None /\ (EarliestLocalStop # None => s < EarliestLocalStop)
    BY DEF CampaignOdi, StrictOdi
  <2>2. s \in 1..Len(trajectory) /\ Len(trajectory) \in Nat
    BY <2>1, CampaignStopIsAnEpoch, ReplayIsTyped
  <2>3. CampaignStop' = s
    BY <1>4, <2>1
  <2> HIDE DEF s
  <2>4. \A x \in LocalStops' : x \in LocalStops \/ x = Len(trajectory) + 1
    <3> TAKE x \in LocalStops'
    <3>1. PICK c \in DOMAIN Policies : x = LocalStop(exceedances'[c], Policies[c])
      BY DEF LocalStops
    <3>2. x # None
      BY DEF LocalStops
    <3>3. CASE LocalStop(exceedances[c], Policies[c]) = None
      BY <1>5, <3>1, <3>2, <3>3
    <3>4. CASE LocalStop(exceedances[c], Policies[c]) # None
      BY <1>5, <3>1, <3>4 DEF LocalStops
    <3> QED BY <3>3, <3>4
  <2>5. \A x \in LocalStops' : x \in Nat /\ s < x
    <3> TAKE x \in LocalStops'
    <3>1. CASE x \in LocalStops
      <4>1. /\ EarliestLocalStop \in LocalStops /\ EarliestLocalStop # None
            /\ EarliestLocalStop <= x /\ LocalStops \subseteq Nat
        BY <3>1, LocalStopsAreNumbers, FirstIsLeast
      <4>2. EarliestLocalStop \in Nat /\ x \in Nat /\ s \in Nat /\ s < EarliestLocalStop
        BY <2>1, <2>2, <3>1, <4>1
      <4> QED BY <4>1, <4>2
    <3>2. CASE x = Len(trajectory) + 1
      BY <2>2, <3>2
    <3> QED BY <2>4, <3>1, <3>2
  <2>6. EarliestLocalStop' = FirstOf(LocalStops')
    BY DEF EarliestLocalStop, LocalStops
  <2>7. EarliestLocalStop' # None => s < EarliestLocalStop'
    <3>1. LocalStops' \subseteq Nat
      BY <2>5
    <3>2. EarliestLocalStop' # None => EarliestLocalStop' \in LocalStops'
      BY <2>6, <3>1, FirstIsLeast
    <3> QED BY <2>5, <3>2
  <2> QED BY <2>1, <2>3, <2>7 DEF CampaignOdi, StrictOdi
<1> QED BY <1>4, <1>5, <1>6 DEF VerdictsStay

-----------------------------------------------------------------------------
(***************************************************************************)
(* The theorems.                                                           *)
(***************************************************************************)
\* The inductive invariant holds in every reachable state: the counts of false stops fall with
\* the candidates, and the loop carries the end of the trajectory.
THEOREM DecisionInductionHolds == Spec => []DecisionInduction
<1> QED BY DecisionInit, DecisionStep, PTL DEF Spec

\* Whenever a campaign has stopped, enough clients are in coalitions that were materially
\* active in the trailing window; whenever it leads, no local policy is met up to the stop.
THEOREM DecisionInvariantHolds == Spec => []DecisionInvariant
<1>1. DecisionInduction => DecisionInvariant
  BY StopsAreSupported, LeadsAreStrict DEF DecisionInduction, DecisionInvariant
<1> QED BY <1>1, DecisionInductionHolds, PTL

\* The epoch-by-epoch loop, whose latency is reported, stops where the trajectory of the whole
\* window does.
THEOREM OnlineAgreesWithTrajectoryHolds == Spec => []OnlineAgreesWithTrajectory
<1> QED BY LoopAgrees, DecisionInductionHolds, PTL

\* The calibrated threshold separates the candidates with few false stops from the others.
THEOREM CalibratedThresholdIsSharpHolds == Spec => []CalibratedThresholdIsSharp
<1> QED BY ThresholdSeparates, DecisionInductionHolds, PTL

\* A stop that was made and a lead that was won are never revised by a later epoch.
THEOREM VerdictsAreFinalHolds == Spec => VerdictsAreFinal
<1> QED BY VerdictsStep, DecisionInductionHolds, PTL DEF Spec, VerdictsAreFinal

-----------------------------------------------------------------------------
(***************************************************************************)
(* Epochs.                                                                 *)
(***************************************************************************)
\* Of finitely many integers one is least: the one with the fewest of them before it.
LEMMA LeastOfFinite ==
    ASSUME NEW S, S \subseteq Int, IsFiniteSet(S), S # {}
    PROVE  \E m \in S : \A x \in S : m <= x
<1> DEFINE Before(x) == {y \in S : y < x}
           Ranks == {Cardinality(Before(x)) : x \in S}
<1>1. \A x \in S : IsFiniteSet(Before(x)) /\ Cardinality(Before(x)) \in Nat
  <2> TAKE x \in S
  <2>1. Before(x) \subseteq S
    OBVIOUS
  <2> QED BY <2>1, FS_Subset, FS_CardinalityType
<1>2. PICK m \in S : \A x \in S : Cardinality(Before(m)) <= Cardinality(Before(x))
  <2> HIDE DEF Before
  <2>1. Ranks \subseteq Nat /\ Ranks # {}
    BY <1>1
  <2>2. PICK r \in Ranks : \A q \in Ranks : r <= q
    <3> HIDE DEF Ranks
    <3> QED BY <2>1, LeastNumber
  <2> QED BY <2>2
<1>3. ASSUME NEW x \in S, x < m PROVE FALSE
  <2>1. x \in Int /\ m \in Int /\ \A y \in S : y \in Int
    OBVIOUS
  <2>2. ~(x < x) /\ \A y \in S : y < x => y < m
    BY <1>3, <2>1
  <2>3. Before(x) \subseteq Before(m) /\ x \in Before(m) /\ x \notin Before(x)
    BY <1>3, <2>2
  <2> HIDE DEF Before
  <2>4. Cardinality(Before(x)) \in Nat /\ Cardinality(Before(m)) \in Nat /\ IsFiniteSet(Before(m))
    BY <1>1
  <2>5. Cardinality(Before(x)) <= Cardinality(Before(m))
    BY <2>3, <2>4, FS_Subset
  <2>6. Cardinality(Before(x)) # Cardinality(Before(m))
    BY <2>3, <2>4, FS_Subset
  <2>7. Cardinality(Before(m)) <= Cardinality(Before(x))
    BY <1>2
  <2> QED BY <2>4, <2>5, <2>6, <2>7
<1>4. \A x \in S : x \in Int /\ m \in Int /\ ~(x < m)
  BY <1>3
<1>5. \A x \in S : m <= x
  BY <1>4
<1> QED BY <1>5

\* The values of a function of finitely many arguments are finitely many.
LEMMA FiniteImage ==
    ASSUME NEW f, IsFiniteSet(DOMAIN f)
    PROVE  IsFiniteSet({f[x] : x \in DOMAIN f})
<1> DEFINE T == {f[x] : x \in DOMAIN f} g == [x \in DOMAIN f |-> f[x]]
<1>1. g \in Surjection(DOMAIN f, T)
  BY DEF Surjection
<1> HIDE DEF g, T
<1>2. IsFiniteSet(T)
  BY <1>1, FS_Surjection
<1> QED BY <1>2 DEF T

\* They have a first and a last one.
LEMMA FirstAndLast ==
    ASSUME NEW S, S \subseteq Int, IsFiniteSet(S), S # {}
    PROVE  /\ Min(S) \in S /\ \A x \in S : Min(S) <= x
           /\ Max(S) \in S /\ \A x \in S : x <= Max(S)
<1>1. Min(S) \in S /\ \A x \in S : Min(S) <= x
  BY LeastOfFinite DEF Min
<1>2. \E m \in S : \A x \in S : m >= x
  <2> DEFINE negated == {-x : x \in S}
  <2>1. IsFiniteSet(negated) /\ negated # {}
    <3> DEFINE f == [x \in S |-> -x]
    <3>1. DOMAIN f = S /\ {f[x] : x \in DOMAIN f} = negated
      OBVIOUS
    <3> HIDE DEF f, negated
    <3>2. IsFiniteSet(negated)
      BY <3>1, FiniteImage
    <3> QED BY <3>2 DEF negated
  <2>2. negated \subseteq Int
    OBVIOUS
  <2>3. PICK n \in negated : \A y \in negated : n <= y
    <3> HIDE DEF negated
    <3> QED BY <2>1, <2>2, LeastOfFinite
  <2>4. PICK m \in S : n = -m
    OBVIOUS
  <2>5. \A x \in S : x \in Int /\ m \in Int /\ -m <= -x
    BY <2>3, <2>4
  <2>6. \A x \in S : m >= x
    BY <2>5
  <2> QED BY <2>6
<1>3. Max(S) \in S /\ \A x \in S : Max(S) >= x
  BY <1>2 DEF Max
<1>4. \A x \in S : x \in Int /\ Max(S) \in Int
  BY <1>3
<1> QED BY <1>1, <1>3, <1>4

\* The epochs between the first and the last that a record may fall in.
LEMMA EpochsAreBounded ==
    /\ Min(RecordEpochs) \in Int /\ Max(RecordEpochs) \in Int
    /\ Min(RecordEpochs) <= Max(RecordEpochs)
    /\ Epochs = Min(RecordEpochs)..Max(RecordEpochs)
    /\ RecordEpochs \subseteq Epochs /\ Epochs \subseteq Int
    /\ \A S \in SUBSET Epochs : IsFiniteSet(S) /\ Cardinality(S) \in Nat
<1>1. /\ Min(RecordEpochs) \in RecordEpochs /\ \A x \in RecordEpochs : Min(RecordEpochs) <= x
      /\ Max(RecordEpochs) \in RecordEpochs /\ \A x \in RecordEpochs : x <= Max(RecordEpochs)
      /\ RecordEpochs \subseteq Int
  BY TimelineAssumption, FirstAndLast
<1>2. IsFiniteSet(Epochs)
  BY <1>1, FS_Interval DEF Epochs
<1>3. \A S \in SUBSET Epochs : IsFiniteSet(S) /\ Cardinality(S) \in Nat
  BY <1>2, FS_Subset, FS_CardinalityType
<1>4. RecordEpochs \subseteq Epochs
  BY <1>1 DEF Epochs
<1>5. Min(RecordEpochs) \in Int /\ Max(RecordEpochs) \in Int
  BY <1>1
<1>6. Min(RecordEpochs) <= Max(RecordEpochs)
  BY <1>1
<1>7. Epochs \subseteq Int
  BY <1>5 DEF Epochs
<1> QED BY <1>3, <1>4, <1>5, <1>6, <1>7 DEF Epochs

\* The rows of a client: its first and last, and the first that is not benign.
LEMMA RowsAreBounded ==
    ASSUME RowsOK, NEW c \in Clients
    PROVE  /\ DOMAIN rows[c] \subseteq Epochs
           /\ NonBenign(c) \subseteq DOMAIN rows[c]
           /\ Malicious(c) \subseteq NonBenign(c)
           /\ \A e : e \in Benign(c) <=> e \in DOMAIN rows[c] /\ e \notin NonBenign(c)
           /\ \A S \in SUBSET DOMAIN rows[c] : S # {} =>
                /\ Min(S) \in S /\ \A x \in S : Min(S) <= x
                /\ Max(S) \in S /\ \A x \in S : x <= Max(S)
<1>1. DOMAIN rows[c] \subseteq Epochs
  BY DEF RowsOK
<1>2. ASSUME NEW S \in SUBSET DOMAIN rows[c], S # {}
      PROVE  /\ Min(S) \in S /\ \A x \in S : Min(S) <= x
             /\ Max(S) \in S /\ \A x \in S : x <= Max(S)
  <2>1. S \subseteq Epochs
    BY <1>1
  <2>2. S \subseteq Int /\ IsFiniteSet(S)
    BY <2>1, EpochsAreBounded
  <2> QED BY <1>2, <2>2, FirstAndLast
<1> QED BY <1>1, <1>2 DEF NonBenign, Malicious, Benign
-----------------------------------------------------------------------------
(***************************************************************************)
(* The inductive invariant of the timeline.                                *)
(***************************************************************************)
\* It holds before the first record.
LEMMA TimelineStart == TimelineInit => TimelineInduction
<1> SUFFICES ASSUME TimelineInit PROVE TimelineInduction
  OBVIOUS
<1>1. \A c \in Clients : DOMAIN rows[c] = {}
  BY DEF TimelineInit
<1> QED BY <1>1 DEF TimelineInit, TimelineInduction, RowsOK, RowsAreDense

\* A record fills the gap between the rows of its client and its own epoch.
LEMMA ReadRecordStep ==
    ASSUME TimelineInduction, NEW c \in Clients, NEW epoch \in RecordEpochs, NEW class \in Classes,
           ReadRecord(c, epoch, class)
    PROVE  TimelineInduction'
<1> DEFINE observed == DOMAIN rows[c] \cup {epoch}
           dense == DensePreparedEpochs(c, epoch, class)
<1>1. RowsOK /\ RowsAreDense
  BY DEF TimelineInduction
<1>2. rows' = [rows EXCEPT ![c] = dense] /\ outcome' = outcome
  BY DEF ReadRecord
<1>3. observed \subseteq Epochs /\ observed # {}
  BY <1>1, EpochsAreBounded DEF RowsOK
<1>4. observed \subseteq Int /\ IsFiniteSet(observed)
  BY <1>3, EpochsAreBounded
<1>5. Min(observed) \in Epochs /\ Max(observed) \in Epochs
  <2> HIDE DEF observed
  <2> QED BY <1>3, <1>4, FirstAndLast
<1> DEFINE first == Min(observed) last == Max(observed)
<1>6. DOMAIN dense = first..last /\ first \in Epochs /\ last \in Epochs
  BY <1>5 DEF DensePreparedEpochs
<1>7. \A e \in DOMAIN dense : dense[e] \in Classes
  <2>1. \A e : ClassAt(c, e) \in Classes
    BY <1>1 DEF ClassAt, RowsOK, Classes
  <2>2. \A a, b : Worst(a, b) \in Classes
    BY DEF Worst, Classes
  <2> QED BY <2>1, <2>2 DEF DensePreparedEpochs
<1> HIDE DEF dense, first, last
<1>8. DOMAIN dense \subseteq Epochs /\ \A e, f \in DOMAIN dense : e..f \subseteq DOMAIN dense
  <2>1. first \in Int /\ last \in Int
    BY <1>6, EpochsAreBounded
  <2>2. \A e \in first..last : e \in Epochs
    BY <1>6, <2>1, EpochsAreBounded
  <2>3. \A e, f \in first..last : \A g \in e..f : g \in first..last
    BY <2>1
  <2> QED BY <1>6, <2>2, <2>3
<1>9. DOMAIN rows' = Clients /\ rows'[c] = dense /\ \A d \in Clients : d # c => rows'[d] = rows[d]
  BY <1>1, <1>2 DEF RowsOK
<1>10. RowsOK'
  BY <1>1, <1>2, <1>7, <1>8, <1>9 DEF RowsOK
<1>11. RowsAreDense'
  BY <1>1, <1>8, <1>9 DEF RowsAreDense
<1> QED BY <1>10, <1>11 DEF TimelineInduction

\* Every step keeps it.
LEMMA TimelineStep == TimelineInduction /\ [TimelineNext]_timelineVars => TimelineInduction'
<1> SUFFICES ASSUME TimelineInduction, [TimelineNext]_timelineVars PROVE TimelineInduction'
  OBVIOUS
<1>1. ASSUME NEW c \in Clients, NEW e \in RecordEpochs, NEW class \in Classes, ReadRecord(c, e, class)
      PROVE  TimelineInduction'
  BY <1>1, ReadRecordStep
<1>2. ASSUME NEW policies \in SUBSET Clients, EvaluateCampaigns(policies)
      PROVE  TimelineInduction'
  BY <1>2 DEF EvaluateCampaigns, TimelineInduction, RowsOK, RowsAreDense
<1>3. CASE UNCHANGED timelineVars
  BY <1>3 DEF timelineVars, TimelineInduction, RowsOK, RowsAreDense
<1> QED BY <1>1, <1>2, <1>3 DEF TimelineNext

-----------------------------------------------------------------------------
(***************************************************************************)
(* The benign split.                                                       *)
(***************************************************************************)
\* Where the rows of a client are benign: from its first row to its BenignEnd.
LEMMA BenignUntilTheEnd ==
    ASSUME TimelineInduction, NEW c \in Clients, DOMAIN rows[c] # {}
    PROVE  /\ Min(DOMAIN rows[c]) \in Int /\ BenignEnd(c) \in Int
           /\ Min(DOMAIN rows[c])..BenignEnd(c) \subseteq Benign(c)
           /\ \A e \in NonBenign(c) : e \in Int /\ BenignEnd(c) < e
<1>1. RowsOK /\ RowsAreDense
  BY DEF TimelineInduction
<1> DEFINE D == DOMAIN rows[c] first == Min(D) last == Max(D) end == BenignEnd(c)
           N == NonBenign(c)
<1>2. /\ D \subseteq Int /\ N \subseteq D
      /\ \A e : e \in Benign(c) <=> e \in D /\ e \notin N
      /\ first \in D /\ last \in D
      /\ N # {} => Min(N) \in N /\ \A x \in N : Min(N) <= x
      /\ \A e \in D : first <= e /\ e <= last
  BY <1>1, RowsAreBounded, EpochsAreBounded
<1>3. \A e, f \in D : e..f \subseteq D
  BY <1>1 DEF RowsAreDense
<1>4. CASE N = {}
  <2>1. end = last
    BY <1>4 DEF BenignEnd
  <2> HIDE DEF D, N, first, last, end
  <2>2. first..end \subseteq D
    BY <1>2, <1>3, <2>1
  <2> QED BY <1>2, <1>4, <2>1, <2>2 DEF D, N, first, end
<1>5. CASE N # {}
  <2> DEFINE n == Min(N)
  <2>1. end = n - 1
    BY <1>5 DEF BenignEnd
  <2>2. n \in D /\ \A e \in N : n <= e
    BY <1>2, <1>5
  <2> HIDE DEF D, N, first, last, end, n
  <2>3. n \in Int /\ first \in Int /\ end \in Int
    BY <1>2, <2>1, <2>2
  <2>4. \A e \in first..end : e \in first..n /\ e < n
    BY <2>1, <2>3
  <2>5. first..end \subseteq D
    BY <1>2, <1>3, <2>2, <2>4
  <2>6. \A e \in N : e \in Int /\ end < e
    BY <1>2, <2>1, <2>2, <2>3
  <2>7. \A e \in first..end : e \notin N
    BY <2>2, <2>3, <2>4, <2>6
  <2> QED BY <1>2, <2>3, <2>5, <2>6, <2>7 DEF D, N, first, end
<1> QED BY <1>4, <1>5

\* The common interval is one, of benign rows of every client, and ends before each row that
\* is not benign.
LEMMA CommonIsBenign ==
    ASSUME TimelineInduction
    PROVE  /\ \A c \in Clients : CommonEpochs \subseteq Benign(c)
           /\ \E first, last \in Int : CommonEpochs = first..last
           /\ \A c \in Clients : \A n \in NonBenign(c), e \in CommonEpochs : e < n
<1>1. CASE ~EveryClientHasRows
  <2>1. CommonEpochs = {}
    BY <1>1 DEF CommonEpochs
  <2>2. CommonEpochs = 1..0
    BY <2>1
  <2> QED BY <2>1, <2>2
<1>2. CASE EveryClientHasRows
  <2> DEFINE starts == [c \in Clients |-> Min(DOMAIN rows[c])]
             ends == [c \in Clients |-> BenignEnd(c)]
             Starts == {starts[c] : c \in DOMAIN starts}
             Ends == {ends[c] : c \in DOMAIN ends}
             first == Max(Starts) last == Min(Ends)
  <2>1. ASSUME NEW c \in Clients
        PROVE  /\ starts[c] \in Int /\ ends[c] \in Int
               /\ starts[c]..ends[c] \subseteq Benign(c)
               /\ \A e \in NonBenign(c) : e \in Int /\ ends[c] < e
    <3>1. DOMAIN rows[c] # {}
      BY <1>2 DEF EveryClientHasRows
    <3> QED BY <3>1, BenignUntilTheEnd
  <2>2. CommonEpochs = first..last
    <3>1. Starts = {Min(DOMAIN rows[c]) : c \in Clients} /\ Ends = {BenignEnd(c) : c \in Clients}
      OBVIOUS
    <3> HIDE DEF Starts, Ends
    <3> QED BY <1>2, <3>1 DEF CommonEpochs
  <2>3. /\ DOMAIN starts = Clients /\ DOMAIN ends = Clients
        /\ Starts = {starts[c] : c \in Clients} /\ Ends = {ends[c] : c \in Clients}
    OBVIOUS
  <2>4. IsFiniteSet(Starts) /\ IsFiniteSet(Ends)
    <3>1. IsFiniteSet(DOMAIN starts) /\ IsFiniteSet(DOMAIN ends)
      BY <2>3, ParametersAssumption
    <3> HIDE DEF starts, ends
    <3> QED BY <3>1, FiniteImage
  <2> HIDE DEF starts, ends
  <2>5. Starts \subseteq Int /\ Ends \subseteq Int /\ Starts # {} /\ Ends # {}
    BY <2>1, <2>3, ParametersAssumption
  <2>6. /\ first \in Starts /\ \A x \in Starts : x <= first
        /\ last \in Ends /\ \A x \in Ends : last <= x
    <3> HIDE DEF Starts, Ends
    <3> QED BY <2>4, <2>5, FirstAndLast
  <2> HIDE DEF first, last
  <2>7. first \in Int /\ last \in Int
    BY <2>5, <2>6
  <2>8. ASSUME NEW c \in Clients, NEW e \in first..last
        PROVE  e \in starts[c]..ends[c] /\ \A n \in NonBenign(c) : e < n
    <3>1. starts[c] \in Int /\ ends[c] \in Int /\ starts[c] <= first /\ last <= ends[c]
      BY <2>1, <2>3, <2>6
    <3>2. e \in Int /\ starts[c] <= e /\ e <= ends[c]
      BY <2>7, <3>1
    <3>3. \A n \in NonBenign(c) : e < n
      BY <2>1, <3>1, <3>2
    <3> QED BY <3>1, <3>2, <3>3
  <2>9. \A c \in Clients : first..last \subseteq Benign(c)
    BY <2>1, <2>8
  <2> QED BY <2>2, <2>7, <2>8, <2>9
<1> QED BY <1>1, <1>2

\* A product decides an order as its factors do.
LEMMA FactorsOrdered ==
    ASSUME NEW a \in Int, NEW b \in Int, NEW m \in Nat \ {0}
    PROVE  /\ a * m \in Int /\ b * m \in Int
           /\ a <= b <=> a * m <= b * m
<1>1. a * m \in Int /\ b * m \in Int
  OBVIOUS
<1>2. ASSUME a <= b PROVE a * m <= b * m
  <2>1. PICK k \in Nat : b = a + k
    <3>1. b - a \in Nat /\ b = a + (b - a)
      BY <1>2
    <3> QED BY <3>1
  <2>2. b * m = a * m + k * m /\ k * m \in Nat
    BY <2>1
  <2> QED BY <1>1, <2>2
<1>3. ASSUME b < a PROVE b * m < a * m
  <2>1. PICK k \in Nat : a = b + 1 + k
    <3>1. a - b - 1 \in Nat /\ a = b + 1 + (a - b - 1)
      BY <1>3
    <3> QED BY <3>1
  <2>2. a * m = b * m + m + k * m /\ k * m \in Nat
    BY <2>1
  <2> QED BY <1>1, <2>2
<1> QED BY <1>1, <1>2, <1>3

\* A quotient fits as often as it says, and no more often.
LEMMA QuotientFits ==
    ASSUME NEW x \in Nat, NEW m \in Nat \ {0}
    PROVE  x \div m \in Nat /\ (x \div m) * m <= x
<1>1. x = m * (x \div m) + (x % m) /\ x \div m \in Int /\ 0 <= x % m /\ x % m < m
  OBVIOUS
<1> DEFINE q == x \div m r == x % m
<1> HIDE DEF q, r
<1>2. q \in Int /\ r \in Int /\ x = m * q + r /\ r < m /\ 0 <= r /\ m * q = q * m
  BY <1>1 DEF q, r
<1>3. q * m <= x
  BY <1>2
<1>4. ASSUME q < 0 PROVE FALSE
  <2>1. q <= -1 /\ -1 \in Int
    BY <1>2, <1>4
  <2>2. q * m <= (-1) * m
    BY <1>2, <2>1, FactorsOrdered
  <2>3. q * m <= -m
    BY <2>2
  <2> QED BY <1>2, <2>3
<1> QED BY <1>2, <1>3, <1>4 DEF q

\* The portions of the common interval are no more than the interval.
LEMMA PortionsFit ==
    ASSUME NEW n \in Nat, Cardinality(CommonEpochs) = n
    PROVE  /\ {Portion(DetectorShare), Portion(NuisanceShare), Portion(CalibrationShare)} \subseteq Nat
           /\ Portion(DetectorShare) + Portion(NuisanceShare) + Portion(CalibrationShare) <= n
<1> DEFINE d == DetectorShare u == NuisanceShare k == CalibrationShare
           a == Portion(d) b == Portion(u) c == Portion(k)
<1>1. d \in Nat /\ u \in Nat /\ k \in Nat /\ Shares \in Nat \ {0} /\ d + u + k <= Shares
  BY TimelineAssumption
<1>2. \A s \in Nat : Portion(s) \in Nat /\ Portion(s) * Shares <= s * n
  <2> TAKE s \in Nat
  <2>1. s * n \in Nat
    OBVIOUS
  <2> QED BY <1>1, <2>1, QuotientFits DEF Portion
<1> HIDE DEF d, u, k, a, b, c
<1>3. /\ a \in Nat /\ b \in Nat /\ c \in Nat
      /\ a * Shares <= d * n /\ b * Shares <= u * n /\ c * Shares <= k * n
  BY <1>1, <1>2 DEF a, b, c
<1>4. (d + u + k) * n <= Shares * n
  <2>1. CASE n = 0
    BY <1>1, <2>1
  <2>2. CASE n # 0
    <3>1. d + u + k \in Int /\ Shares \in Int /\ n \in Nat \ {0}
      BY <1>1, <2>2
    <3> QED BY <1>1, <3>1, FactorsOrdered
  <2> QED BY <2>1, <2>2
<1>5. (d + u + k) * n = d * n + u * n + k * n /\ (a + b + c) * Shares = a * Shares + b * Shares + c * Shares
  BY <1>1, <1>3
<1>6. (a + b + c) * Shares <= n * Shares
  <2> DEFINE p == a * Shares q == b * Shares r == c * Shares
             dn == d * n un == u * n kn == k * n
  <2>1. /\ p \in Int /\ q \in Int /\ r \in Int /\ dn \in Int /\ un \in Int /\ kn \in Int
        /\ n * Shares = Shares * n /\ n * Shares \in Int
    BY <1>1, <1>3
  <2> HIDE DEF p, q, r, dn, un, kn
  <2>2. p <= dn /\ q <= un /\ r <= kn
    BY <1>3 DEF p, q, r, dn, un, kn
  <2>3. p + q + r <= dn + un + kn
    BY <2>1, <2>2
  <2>4. dn + un + kn <= n * Shares
    BY <1>4, <1>5, <2>1 DEF dn, un, kn
  <2>5. p + q + r <= n * Shares
    BY <2>1, <2>3, <2>4
  <2> QED BY <1>5, <2>5 DEF p, q, r
<1>7. a + b + c \in Int /\ n \in Int
  BY <1>3
<1>8. a + b + c <= n
  BY <1>1, <1>6, <1>7, FactorsOrdered
<1> QED BY <1>3, <1>8 DEF a, b, c, d, u, k

\* The split cuts the common interval at three points.
LEMMA SplitCuts ==
    ASSUME TimelineInduction
    PROVE  \E from, a, b, c, end \in Int :
             /\ from <= a /\ a <= b /\ b <= c /\ c <= end
             /\ CommonEpochs = from..(end - 1)
             /\ Split = [detector_fit |-> from..(a - 1), nuisance_fit |-> a..(b - 1),
                         calibration |-> b..(c - 1), heldout |-> c..(end - 1)]
<1> DEFINE n == Cardinality(CommonEpochs)
           from == IF n = 0 THEN 0 ELSE Min(CommonEpochs)
           detectorEnd == Portion(DetectorShare)
           nuisanceEnd == detectorEnd + Portion(NuisanceShare)
           thresholdEnd == nuisanceEnd + Portion(CalibrationShare)
<1>1. PICK first, last \in Int : CommonEpochs = first..last
  BY CommonIsBenign
<1>2. IsFiniteSet(CommonEpochs) /\ n \in Nat
      /\ n = (IF first > last THEN 0 ELSE last - first + 1)
  BY <1>1, FS_Interval
<1>3. from \in Int /\ CommonEpochs = from..(from + n - 1)
  <2>1. CASE first > last
    <3>1. n = 0 /\ from = 0 /\ CommonEpochs = {}
      BY <1>1, <1>2, <2>1
    <3>2. 0..(0 + 0 - 1) = {}
      OBVIOUS
    <3> QED BY <3>1, <3>2
  <2>2. CASE first <= last
    <3> DEFINE least == Min(CommonEpochs)
    <3>1. CommonEpochs # {} /\ CommonEpochs \subseteq Int /\ first \in CommonEpochs
      <4>1. first \in first..last /\ first..last \subseteq Int
        BY ONLY <1>1, <2>2
      <4> QED BY ONLY <1>1, <4>1, Zenon
    <3>2. least \in CommonEpochs /\ \A x \in CommonEpochs : least <= x
      BY <1>2, <3>1, FirstAndLast
    <3> HIDE DEF least, n
    <3>3. least \in Int /\ first <= least /\ least <= first
      BY <1>1, <3>1, <3>2
    <3>4. least = first /\ n # 0 /\ first + n - 1 = last
      BY <1>2, <2>2, <3>3
    <3> QED BY <1>1, <3>3, <3>4 DEF least
  <2> QED BY <2>1, <2>2
<1>4. /\ detectorEnd \in Nat /\ nuisanceEnd \in Nat /\ thresholdEnd \in Nat
      /\ detectorEnd <= nuisanceEnd /\ nuisanceEnd <= thresholdEnd /\ thresholdEnd <= n
  <2> HIDE DEF n
  <2>1. /\ {Portion(DetectorShare), Portion(NuisanceShare), Portion(CalibrationShare)} \subseteq Nat
        /\ Portion(DetectorShare) + Portion(NuisanceShare) + Portion(CalibrationShare) <= n
    BY <1>2, PortionsFit DEF n
  <2> QED BY <2>1
<1>5. Split = [detector_fit |-> (from + 0)..(from + detectorEnd - 1),
               nuisance_fit |-> (from + detectorEnd)..(from + nuisanceEnd - 1),
               calibration |-> (from + nuisanceEnd)..(from + thresholdEnd - 1),
               heldout |-> (from + thresholdEnd)..(from + n - 1)]
  BY DEF Split
<1> HIDE DEF n, from, detectorEnd, nuisanceEnd, thresholdEnd
<1>6. /\ from + 0 = from /\ from + detectorEnd \in Int /\ from + nuisanceEnd \in Int
      /\ from + thresholdEnd \in Int /\ from + n \in Int
      /\ from <= from + detectorEnd /\ from + detectorEnd <= from + nuisanceEnd
      /\ from + nuisanceEnd <= from + thresholdEnd /\ from + thresholdEnd <= from + n
  BY <1>2, <1>3, <1>4
<1>7. CommonEpochs = from..(from + n - 1)
  BY <1>3
<1>8. Split = [detector_fit |-> from..(from + detectorEnd - 1),
               nuisance_fit |-> (from + detectorEnd)..(from + nuisanceEnd - 1),
               calibration |-> (from + nuisanceEnd)..(from + thresholdEnd - 1),
               heldout |-> (from + thresholdEnd)..(from + n - 1)]
  BY <1>5, <1>6
<1>9. PICK a, b, c, end \in Int :
        a = from + detectorEnd /\ b = from + nuisanceEnd /\ c = from + thresholdEnd /\ end = from + n
  BY <1>6
<1>10. /\ from <= a /\ a <= b /\ b <= c /\ c <= end
       /\ CommonEpochs = from..(end - 1)
  BY <1>2, <1>3, <1>4, <1>6, <1>7, <1>9
<1>11. Split = [detector_fit |-> from..(a - 1), nuisance_fit |-> a..(b - 1),
                calibration |-> b..(c - 1), heldout |-> c..(end - 1)]
  BY <1>2, <1>3, <1>4, <1>8, <1>9
<1> QED BY <1>3, <1>10, <1>11

\* SplitIsBenignAndOrdered holds wherever the inductive invariant does.
LEMMA SplitIsSound == TimelineInduction => SplitIsBenignAndOrdered
<1> SUFFICES ASSUME TimelineInduction PROVE SplitIsBenignAndOrdered
  OBVIOUS
<1>1. PICK from, a, b, c, end \in Int :
        /\ from <= a /\ a <= b /\ b <= c /\ c <= end
        /\ CommonEpochs = from..(end - 1)
        /\ Split = [detector_fit |-> from..(a - 1), nuisance_fit |-> a..(b - 1),
                    calibration |-> b..(c - 1), heldout |-> c..(end - 1)]
  BY SplitCuts
<1> DEFINE blocks == Blocks
<1>2. blocks = <<from..(a - 1), a..(b - 1), b..(c - 1), c..(end - 1)>>
  BY <1>1 DEF Blocks
<1>3. \A e : e \in UNION Range(blocks) <=> e \in CommonEpochs
  <2>1. UNION Range(blocks) = (from..(a - 1)) \cup (a..(b - 1)) \cup (b..(c - 1)) \cup (c..(end - 1))
    <3>1. Range(blocks) = {from..(a - 1), a..(b - 1), b..(c - 1), c..(end - 1)}
      BY <1>2 DEF Range
    <3> QED BY <3>1
  <2>2. (from..(a - 1)) \cup (a..(b - 1)) \cup (b..(c - 1)) \cup (c..(end - 1)) = from..(end - 1)
    BY <1>1
  <2> QED BY <1>1, <2>1, <2>2
<1>4. ASSUME NEW i \in 1..4, NEW j \in 1..4, i < j, NEW e \in blocks[i], NEW f \in blocks[j]
      PROVE  e < f
  <2> HIDE DEF blocks
  <2>1. /\ blocks[1] = from..(a - 1) /\ blocks[2] = a..(b - 1)
        /\ blocks[3] = b..(c - 1) /\ blocks[4] = c..(end - 1)
    BY <1>2
  <2>2. CASE i = 1 /\ j = 2 BY <1>1, <1>4, <2>1, <2>2
  <2>3. CASE i = 1 /\ j = 3 BY <1>1, <1>4, <2>1, <2>3
  <2>4. CASE i = 1 /\ j = 4 BY <1>1, <1>4, <2>1, <2>4
  <2>5. CASE i = 2 /\ j = 3 BY <1>1, <1>4, <2>1, <2>5
  <2>6. CASE i = 2 /\ j = 4 BY <1>1, <1>4, <2>1, <2>6
  <2>7. CASE i = 3 /\ j = 4 BY <1>1, <1>4, <2>1, <2>7
  <2>8. \/ i = 1 /\ j \in {2, 3, 4}
        \/ i = 2 /\ j \in {3, 4}
        \/ i = 3 /\ j = 4
    BY <1>4
  <2> QED BY <2>2, <2>3, <2>4, <2>5, <2>6, <2>7, <2>8
<1>5. \A d \in Clients : CommonEpochs \subseteq Benign(d)
  BY CommonIsBenign
<1> HIDE DEF blocks
<1>6. UNION Range(blocks) = CommonEpochs
  BY <1>3
<1> QED BY <1>4, <1>5, <1>6 DEF SplitIsBenignAndOrdered, blocks

\* The complete horizons of a block follow one another inside it.
LEMMA HorizonsOfABlock ==
    ASSUME NEW lo \in Int, NEW hi \in Int, NEW block, block = lo..hi,
           NEW i \in DOMAIN CompleteHorizons(block)
    PROVE  /\ Cardinality(CompleteHorizons(block)[i]) = Horizon
           /\ CompleteHorizons(block)[i] \subseteq block
           /\ \A j \in 1..(i - 1) : CompleteHorizons(block)[i] \cap CompleteHorizons(block)[j] = {}
<1> DEFINE n == Cardinality(block) count == n \div Horizon least == Min(block)
           Start(k) == least + (k - 1) * Horizon
<1>1. Horizon \in Nat \ {0}
  BY ParametersAssumption
<1>2. /\ DOMAIN CompleteHorizons(block) = 1..count
      /\ \A k \in 1..count : CompleteHorizons(block)[k] = Start(k)..(Start(k) + Horizon - 1)
  BY DEF CompleteHorizons
<1>3. IsFiniteSet(block) /\ n \in Nat /\ n = (IF lo > hi THEN 0 ELSE hi - lo + 1)
  BY FS_Interval
<1>4. count \in Nat /\ count * Horizon <= n
  <2> HIDE DEF n
  <2> QED BY <1>1, <1>3, QuotientFits
<1> HIDE DEF n, count
<1>5. i \in 1..count /\ count # 0
  BY <1>2, <1>4
<1>6. i * Horizon <= count * Horizon /\ 1 * Horizon <= i * Horizon /\ i * Horizon \in Int /\ count * Horizon \in Int
  BY <1>1, <1>4, <1>5, FactorsOrdered
<1>7. Horizon <= i * Horizon /\ i * Horizon <= n
  BY <1>1, <1>3, <1>4, <1>6
<1>8. lo <= hi /\ n = hi - lo + 1
  BY <1>1, <1>3, <1>6, <1>7
<1>9. least = lo
  <2>1. block \subseteq Int /\ block # {} /\ lo \in block
    BY <1>8
  <2>2. least \in block /\ \A x \in block : least <= x
    <3> HIDE DEF least
    <3> QED BY <1>3, <2>1, FirstAndLast DEF least
  <2> HIDE DEF least
  <2>3. least \in Int /\ lo <= least /\ least <= lo
    BY <2>1, <2>2
  <2> QED BY <2>3
<1> HIDE DEF least
<1>10. \A k \in 1..count : (k - 1) * Horizon = k * Horizon - Horizon /\ k * Horizon \in Int
  BY <1>1
<1>11. \A k \in 1..count :
         CompleteHorizons(block)[k] = (lo + k * Horizon - Horizon)..(lo + k * Horizon - 1)
  <2> TAKE k \in 1..count
  <2>1. (k - 1) * Horizon = k * Horizon - Horizon /\ k * Horizon \in Int
    BY <1>10
  <2>2. Start(k) = lo + k * Horizon - Horizon /\ Start(k) + Horizon - 1 = lo + k * Horizon - 1
    BY <1>1, <1>9, <2>1
  <2> QED BY <1>2, <2>2
<1> DEFINE p == i * Horizon
<1>12. p \in Int /\ Horizon <= p /\ p <= hi - lo + 1
  BY <1>6, <1>7, <1>8
<1>13. CompleteHorizons(block)[i] = (lo + p - Horizon)..(lo + p - 1)
  BY <1>5, <1>11
<1> HIDE DEF p
<1>14. CompleteHorizons(block)[i] \subseteq block
  BY <1>1, <1>12, <1>13
<1>15. Cardinality(CompleteHorizons(block)[i]) = Horizon
  <2>1. lo + p - Horizon \in Int /\ lo + p - 1 \in Int
    BY <1>1, <1>12
  <2>2. Cardinality((lo + p - Horizon)..(lo + p - 1))
          = (IF lo + p - Horizon > lo + p - 1 THEN 0 ELSE (lo + p - 1) - (lo + p - Horizon) + 1)
    BY <2>1, FS_Interval
  <2>3. ~(lo + p - Horizon > lo + p - 1) /\ (lo + p - 1) - (lo + p - Horizon) + 1 = Horizon
    BY <1>1, <1>12
  <2> QED BY <1>13, <2>2, <2>3
<1>16. ASSUME NEW j \in 1..(i - 1)
       PROVE  CompleteHorizons(block)[i] \cap CompleteHorizons(block)[j] = {}
  <2>1. j \in 1..count /\ j <= i - 1 /\ i - 1 \in Int /\ j \in Int
    BY <1>4, <1>5
  <2>2. j * Horizon <= (i - 1) * Horizon /\ j * Horizon \in Int
    BY <1>1, <2>1, FactorsOrdered
  <2>3. (i - 1) * Horizon = p - Horizon
    BY <1>5, <1>10 DEF p
  <2> DEFINE q == j * Horizon
  <2>4. q \in Int /\ q <= p - Horizon
    BY <2>2, <2>3
  <2>5. CompleteHorizons(block)[j] = (lo + q - Horizon)..(lo + q - 1)
    BY <1>11, <2>1
  <2> HIDE DEF q
  <2>6. \A e \in (lo + q - Horizon)..(lo + q - 1) : e \notin (lo + p - Horizon)..(lo + p - 1)
    BY <1>1, <1>12, <2>4
  <2> QED BY <1>13, <2>5, <2>6
<1> QED BY <1>14, <1>15, <1>16

\* HorizonsAreDisjoint holds wherever the inductive invariant does.
LEMMA HorizonsAreSound == TimelineInduction => HorizonsAreDisjoint
<1> SUFFICES ASSUME TimelineInduction, NEW block \in {Split.calibration, Split.heldout},
                    NEW i \in DOMAIN CompleteHorizons(block)
             PROVE  /\ Cardinality(CompleteHorizons(block)[i]) = Horizon
                    /\ CompleteHorizons(block)[i] \subseteq block
                    /\ \A j \in 1..(i - 1) :
                         CompleteHorizons(block)[i] \cap CompleteHorizons(block)[j] = {}
  BY DEF HorizonsAreDisjoint
<1>1. PICK from, a, b, c, end \in Int :
        Split = [detector_fit |-> from..(a - 1), nuisance_fit |-> a..(b - 1),
                 calibration |-> b..(c - 1), heldout |-> c..(end - 1)]
  BY SplitCuts
<1>2. Split.calibration = b..(c - 1) /\ Split.heldout = c..(end - 1)
  BY <1>1
<1>3. \E lo, hi \in Int : block = lo..hi
  <2>1. c - 1 \in Int /\ end - 1 \in Int
    OBVIOUS
  <2> QED BY <1>2, <2>1
<1> QED BY <1>3, HorizonsOfABlock

-----------------------------------------------------------------------------
(***************************************************************************)
(* The runs of malicious epochs.                                           *)
(***************************************************************************)
\* The malicious epochs lie where records may fall.
LEMMA MaliciousInEpochs == RowsOK => MaliciousEpochs \subseteq Epochs /\ MaliciousEpochs \subseteq Int
<1> SUFFICES ASSUME RowsOK PROVE MaliciousEpochs \subseteq Epochs /\ MaliciousEpochs \subseteq Int
  OBVIOUS
<1>1. \A c \in Clients : Malicious(c) \subseteq Epochs
  BY RowsAreBounded
<1> QED BY <1>1, EpochsAreBounded DEF MaliciousEpochs

\* RunsUpto is the function its recursion describes.
LEMMA RunsFollow ==
    /\ RunsUpto[Min(RecordEpochs) - 1] = <<>>
    /\ \A e \in Epochs :
         RunsUpto[e] = IF e \in MaliciousEpochs THEN WithEpoch(RunsUpto[e - 1], e) ELSE RunsUpto[e - 1]
<1> DEFINE lo == Min(RecordEpochs) hi == Max(RecordEpochs)
           Step(f, e) == IF e < lo THEN <<>>
                         ELSE IF e \in MaliciousEpochs THEN WithEpoch(f[e - 1], e) ELSE f[e - 1]
           Follows(f, m) == f = [e \in (lo - 1)..(lo - 1 + m) |-> Step(f, e)]
           Reached == {m \in Nat : \E f : Follows(f, m)}
           runs == CHOOSE f : f = [e \in (lo - 1)..hi |-> Step(f, e)]
<1>1. lo \in Int /\ hi \in Int /\ lo <= hi /\ Epochs = lo..hi
  BY EpochsAreBounded
<1>2. RunsUpto = runs
  BY DEF RunsUpto
<1> HIDE DEF lo, hi
<1>3. Nat \subseteq Reached
  <2>1. 0 \in Reached
    <3> DEFINE f == [e \in (lo - 1)..(lo - 1 + 0) |-> <<>>]
    <3>1. \A e \in (lo - 1)..(lo - 1 + 0) : e < lo
      BY <1>1
    <3>2. Follows(f, 0)
      BY <3>1
    <3> HIDE DEF Follows
    <3> QED BY <3>2
  <2>2. ASSUME NEW m \in Nat, m \in Reached PROVE m + 1 \in Reached
    <3>1. PICK f : Follows(f, m)
      BY <2>2
    <3> DEFINE before == (lo - 1)..(lo - 1 + m)
               upto == (lo - 1)..(lo - 1 + (m + 1))
               end == lo - 1 + (m + 1)
               g == [e \in upto |-> IF e = end THEN Step(f, e) ELSE f[e]]
    <3>2. \A e \in upto : e # end => e \in before
      BY <1>1
    <3>3. \A e \in upto : ~(e < lo) => e - 1 \in before /\ e - 1 \in upto /\ e - 1 # end
      BY <1>1
    <3> HIDE DEF before, upto, end
    <3>4. \A e \in before : f[e] = Step(f, e)
      BY <3>1 DEF before
    <3>5. \A e \in upto : ~(e < lo) => g[e - 1] = f[e - 1]
      BY <3>3
    <3>6. \A e \in upto : g[e] = Step(f, e)
      BY <3>2, <3>4
    <3>7. g = [e \in upto |-> g[e]]
      OBVIOUS
    <3> HIDE DEF g
    <3>8. \A e \in upto : Step(g, e) = Step(f, e)
      BY <3>5
    <3>9. g = [e \in upto |-> Step(g, e)]
      BY <3>6, <3>7, <3>8
    <3>10. Follows(g, m + 1)
      BY <3>9 DEF upto
    <3> HIDE DEF Follows
    <3> QED BY <3>10
  <2> HIDE DEF Reached
  <2> QED BY <2>1, <2>2, AllNumbers
<1>4. runs = [e \in (lo - 1)..hi |-> Step(runs, e)]
  <2>1. hi - lo + 1 \in Nat /\ lo - 1 + (hi - lo + 1) = hi
    BY <1>1
  <2>2. \E f : Follows(f, hi - lo + 1)
    BY <1>3, <2>1
  <2>3. \E f : f = [e \in (lo - 1)..hi |-> Step(f, e)]
    BY <2>1, <2>2
  <2> HIDE DEF Step
  <2> QED BY <2>3
<1> HIDE DEF runs
<1>5. lo - 1 \in (lo - 1)..hi /\ lo - 1 < lo /\ \A e \in lo..hi : e \in (lo - 1)..hi /\ ~(e < lo)
  BY <1>1
<1>6. runs[lo - 1] = <<>>
  BY <1>4, <1>5
<1>7. \A e \in lo..hi : runs[e] = IF e \in MaliciousEpochs THEN WithEpoch(runs[e - 1], e) ELSE runs[e - 1]
  BY <1>4, <1>5
<1> QED BY <1>1, <1>2, <1>6, <1>7 DEF lo

\* A run of epochs.
Runs == [start : Int, end : Int]

\* The gap between two malicious epochs is short and benign for every client.
Bridged(m, n) == Cardinality(Gap(m, n)) <= MergeGap /\ Gap(m, n) \subseteq FullyBenign

\* What the runs up to an epoch are: ordered, apart, begun and ended by a malicious epoch, one for
\* every malicious epoch, and two neighbours in one of them exactly when their gap is bridged.
MergesUpto(runs, e) ==
    /\ runs \in Seq(Runs)
    /\ \A i \in DOMAIN runs :
         /\ {runs[i].start, runs[i].end} \subseteq MaliciousEpochs
         /\ runs[i].start <= runs[i].end
         /\ runs[i].end <= e
    /\ \A i, j \in DOMAIN runs : i < j => runs[i].end < runs[j].start
    /\ \A m \in MaliciousEpochs :
         m <= e => \E i \in DOMAIN runs : runs[i].start <= m /\ m <= runs[i].end
    /\ \A m, n \in MaliciousEpochs :
         m < n /\ n <= e /\ Gap(m, n) \cap MaliciousEpochs = {} =>
             ((\E i \in DOMAIN runs : runs[i].start <= m /\ n <= runs[i].end) <=> Bridged(m, n))

\* A malicious epoch is added to the runs before it.
LEMMA OneEpochMore ==
    ASSUME RowsOK, NEW e \in MaliciousEpochs, NEW runs, MergesUpto(runs, e - 1)
    PROVE  MergesUpto(WithEpoch(runs, e), e)
<1> DEFINE M == MaliciousEpochs  new == WithEpoch(runs, e)
           Covers(r, m) == r.start <= m /\ m <= r.end
<1>1. M \subseteq Epochs /\ M \subseteq Int /\ e \in M /\ e \in Int
  BY MaliciousInEpochs
<1>2. /\ runs \in Seq(Runs) /\ Len(runs) \in Nat /\ DOMAIN runs = 1..Len(runs)
      /\ \A i \in DOMAIN runs :
           runs[i] \in Runs /\ runs[i].start \in Int /\ runs[i].end \in Int
  <2>1. runs \in Seq(Runs) /\ Len(runs) \in Nat /\ DOMAIN runs = 1..Len(runs)
    BY LenProperties DEF MergesUpto
  <2>2. \A i \in 1..Len(runs) : runs[i] \in Runs
    BY <2>1, ElementOfSeq
  <2> QED BY <2>1, <2>2 DEF Runs
<1>3. /\ \A i \in DOMAIN runs :
           /\ runs[i].start \in M /\ runs[i].end \in M
           /\ runs[i].start <= runs[i].end /\ runs[i].end <= e - 1
      /\ \A i, j \in DOMAIN runs : i < j => runs[i].end < runs[j].start
      /\ \A m \in M : m <= e - 1 => \E i \in DOMAIN runs : Covers(runs[i], m)
      /\ \A m, n \in M :
           m < n /\ n <= e - 1 /\ Gap(m, n) \cap M = {} =>
             ((\E i \in DOMAIN runs : runs[i].start <= m /\ n <= runs[i].end) <=> Bridged(m, n))
  BY DEF MergesUpto
<1>4. \A m \in M : m <= e => m = e \/ m <= e - 1
  BY <1>1
<1> HIDE DEF M
<1>5. CASE runs = <<>>
  <2>1. new = <<[start |-> e, end |-> e]>>
    BY <1>5 DEF WithEpoch
  <2>2. \A m \in M : m <= e => m = e
    BY <1>3, <1>4, <1>5
  <2>3. new \in Seq(Runs) /\ DOMAIN new = {1} /\ new[1].start = e /\ new[1].end = e
    BY <1>1, <2>1 DEF Runs
  <2> HIDE DEF new
  <2>4. \A m, n \in M : m < n /\ n <= e => FALSE
    <3> TAKE m, n \in M
    <3>1. m \in Int /\ n \in Int
      BY <1>1
    <3>2. m < n /\ n <= e => m <= e /\ m # e
      BY <1>1, <3>1
    <3> QED BY <1>1, <2>2, <3>1, <3>2
  <2>5. \A i, j \in DOMAIN new : i < j => new[i].end < new[j].start
    BY <2>3
  <2>6. e <= e
    BY <1>1
  <2> QED BY <1>1, <2>2, <2>3, <2>4, <2>5, <2>6 DEF MergesUpto, M, new
<1>6. CASE runs # <<>>
  <2> DEFINE k == Len(runs) last == runs[k]
             gap == (last.end + 1)..(e - 1)
  <2>1. k \in DOMAIN runs /\ k \in Nat \ {0} /\ DOMAIN runs = 1..k
    BY <1>2, <1>6, EmptySeq
  <2>2. last.start \in M /\ last.end \in M /\ last.start <= last.end /\ last.end <= e - 1
        /\ last \in Runs /\ last.end \in Int /\ last.start \in Int
    BY <1>2, <1>3, <2>1
  <2>3. gap = Gap(last.end, e)
    <3>1. last.end \in Epochs /\ e \in Epochs
      BY <1>1, <2>2
    <3>2. \A x \in gap : x \in Epochs /\ last.end < x /\ x < e
      BY <1>1, <2>2, <3>1, EpochsAreBounded
    <3>3. \A x \in Epochs : last.end < x /\ x < e => x \in gap
      BY <1>1, <2>2, EpochsAreBounded
    <3> QED BY <3>2, <3>3 DEF Gap
  <2> HIDE DEF k, gap
  \* the last run ends with the last malicious epoch before this one
  <2>4. \A m \in M : m <= e - 1 => m <= last.end
    <3> SUFFICES ASSUME NEW m \in M, m <= e - 1 PROVE m <= last.end
      OBVIOUS
    <3>1. PICK i \in DOMAIN runs : Covers(runs[i], m)
      BY <1>3
    <3>2. i = k \/ i < k
      BY <2>1
    <3>3. m \in Int /\ runs[i].end \in Int
      BY <1>1, <1>2
    <3>4. CASE i = k BY <3>1, <3>4
    <3>5. CASE i < k
      <4>1. runs[i].end < last.start
        BY <1>3, <2>1, <3>5
      <4> QED BY <2>2, <3>1, <3>3, <4>1
    <3> QED BY <3>2, <3>4, <3>5
  <2> HIDE DEF last
  \* so it is the neighbour of this one
  <2>5. ASSUME NEW m \in M, m < e, Gap(m, e) \cap M = {} PROVE m = last.end
    <3>1. m \in Int /\ m <= last.end
      BY <1>1, <2>4, <2>5
    <3>2. last.end \in Epochs /\ last.end < e
      BY <1>1, <2>2
    <3>3. ~(m < last.end)
      BY <2>2, <2>5, <3>2 DEF Gap
    <3> QED BY <2>2, <3>1, <3>3
  <2>6. CASE Bridged(last.end, e)
    <3>1. new = [runs EXCEPT ![k].end = e]
      BY <1>6, <2>3, <2>6 DEF WithEpoch, Bridged, gap, last, k
    <3>2. /\ DOMAIN new = DOMAIN runs
          /\ new[k].start = last.start /\ new[k].end = e
          /\ \A i \in DOMAIN runs : i # k => new[i] = runs[i]
          /\ \A i \in DOMAIN runs : new[i] \in Runs
      <4>1. runs[k] \in Runs
        BY <1>2, <2>1
      <4> QED BY <1>1, <1>2, <2>1, <3>1, <4>1 DEF Runs, last
    <3>3. new \in Seq(Runs)
      <4>1. new = [i \in 1..k |-> new[i]]
        BY <1>2, <2>1, <3>1
      <4> HIDE DEF new
      <4>2. new \in [1..k -> Runs]
        BY <2>1, <3>2, <4>1
      <4> QED BY <2>1, <4>2, SeqDef
    <3> HIDE DEF new
    <3>4. \A i \in DOMAIN runs : new[i].start = runs[i].start
      BY <3>2 DEF last
    <3>5. \A i \in DOMAIN runs : i < k => new[i].end = runs[i].end
      BY <2>1, <3>2
    <3>6. \A i \in DOMAIN new :
            /\ {new[i].start, new[i].end} \subseteq M
            /\ new[i].start <= new[i].end /\ new[i].end <= e
      <4> TAKE i \in DOMAIN new
      <4>1. CASE i = k BY <1>1, <2>2, <3>2, <4>1
      <4>2. CASE i # k BY <1>1, <1>2, <1>3, <3>2, <4>2
      <4> QED BY <4>1, <4>2
    <3>7. \A i, j \in DOMAIN new : i < j => new[i].end < new[j].start
      <4> SUFFICES ASSUME NEW i \in DOMAIN new, NEW j \in DOMAIN new, i < j
                   PROVE  new[i].end < new[j].start
        OBVIOUS
      <4>1. i < k
        BY <2>1, <3>2
      <4> QED BY <1>3, <3>2, <3>4, <3>5, <4>1
    <3>8. \A m \in M : m <= e => \E i \in DOMAIN new : Covers(new[i], m)
      <4> SUFFICES ASSUME NEW m \in M, m <= e PROVE \E i \in DOMAIN new : Covers(new[i], m)
        OBVIOUS
      <4>1. CASE m = e
        BY <1>1, <2>1, <2>2, <3>2, <4>1
      <4>2. CASE m <= e - 1
        <5>1. PICK i \in DOMAIN runs : Covers(runs[i], m)
          BY <1>3, <4>2
        <5>2. CASE i = k BY <1>1, <2>1, <3>2, <3>4, <5>1, <5>2
        <5>3. CASE i # k BY <3>2, <5>1, <5>3
        <5> QED BY <5>2, <5>3
      <4> QED BY <1>4, <4>1, <4>2
    <3>9. ASSUME NEW m \in M, NEW n \in M, m < n, n <= e, Gap(m, n) \cap M = {}
          PROVE  (\E i \in DOMAIN new : new[i].start <= m /\ n <= new[i].end) <=> Bridged(m, n)
      <4>1. CASE n = e
        <5>1. m = last.end
          BY <2>5, <3>9, <4>1
        <5>2. new[k].start <= m /\ n <= new[k].end
          BY <1>1, <2>2, <3>2, <4>1, <5>1
        <5> QED BY <2>1, <2>6, <3>2, <4>1, <5>1, <5>2
      <4>2. CASE n <= e - 1
        <5>1. n \in Int /\ n <= last.end
          BY <1>1, <2>4, <4>2
        <5>2. \A i \in DOMAIN runs : n <= new[i].end <=> n <= runs[i].end
          <6> TAKE i \in DOMAIN runs
          <6>1. CASE i = k
            BY <1>1, <3>2, <4>2, <5>1, <6>1 DEF last
          <6>2. CASE i # k
            BY <3>2, <6>2
          <6> QED BY <6>1, <6>2
        <5>3. (\E i \in DOMAIN new : new[i].start <= m /\ n <= new[i].end)
                <=> (\E i \in DOMAIN runs : runs[i].start <= m /\ n <= runs[i].end)
          BY <3>2, <3>4, <5>2
        <5> QED BY <1>3, <3>9, <4>2, <5>3
      <4> QED BY <1>4, <3>9, <4>1, <4>2
    <3> QED BY <3>3, <3>6, <3>7, <3>8, <3>9 DEF MergesUpto, M, new
  <2>7. CASE ~Bridged(last.end, e)
    <3> DEFINE fresh == [start |-> e, end |-> e]
    <3>1. new = Append(runs, fresh)
      BY <1>6, <2>3, <2>7 DEF WithEpoch, Bridged, gap, last, k
    <3>2. fresh \in Runs /\ fresh.start = e /\ fresh.end = e
      BY <1>1 DEF Runs
    <3> HIDE DEF fresh
    <3>3. /\ new \in Seq(Runs) /\ DOMAIN new = 1..(k + 1)
          /\ new[k + 1] = fresh /\ \A i \in DOMAIN runs : new[i] = runs[i]
      <4>1. /\ new \in Seq(Runs) /\ Len(new) = k + 1
            /\ \A i \in 1..k : new[i] = runs[i] /\ new[k + 1] = fresh
        BY <1>2, <3>1, <3>2, AppendProperties DEF k
      <4>2. DOMAIN new = 1..Len(new)
        BY <4>1, LenProperties
      <4> QED BY <2>1, <4>1, <4>2
    <3> HIDE DEF new
    <3>4. \A i \in DOMAIN new : i = k + 1 \/ i \in DOMAIN runs
      BY <2>1, <3>3
    <3>5. k + 1 \in DOMAIN new /\ \A i \in DOMAIN runs : i \in DOMAIN new
      BY <2>1, <3>3
    <3>6. \A i \in DOMAIN new :
            /\ {new[i].start, new[i].end} \subseteq M
            /\ new[i].start <= new[i].end /\ new[i].end <= e
      <4> TAKE i \in DOMAIN new
      <4>1. CASE i = k + 1 BY <1>1, <3>2, <3>3, <4>1
      <4>2. CASE i \in DOMAIN runs BY <1>1, <1>2, <1>3, <3>3, <4>2
      <4> QED BY <3>4, <4>1, <4>2
    <3>7. \A i, j \in DOMAIN new : i < j => new[i].end < new[j].start
      <4> SUFFICES ASSUME NEW i \in DOMAIN new, NEW j \in DOMAIN new, i < j
                   PROVE  new[i].end < new[j].start
        OBVIOUS
      <4>1. i \in DOMAIN runs
        BY <2>1, <3>3
      <4>2. CASE j = k + 1
        BY <1>1, <1>2, <1>3, <3>2, <3>3, <4>1, <4>2
      <4>3. CASE j \in DOMAIN runs
        BY <1>3, <3>3, <4>1, <4>3
      <4> QED BY <3>4, <4>2, <4>3
    <3>8. \A m \in M : m <= e => \E i \in DOMAIN new : Covers(new[i], m)
      <4> SUFFICES ASSUME NEW m \in M, m <= e PROVE \E i \in DOMAIN new : Covers(new[i], m)
        OBVIOUS
      <4>1. CASE m = e
        BY <1>1, <3>2, <3>3, <3>5, <4>1
      <4>2. CASE m <= e - 1
        BY <1>3, <3>3, <3>5, <4>2
      <4> QED BY <1>4, <4>1, <4>2
    <3>9. ASSUME NEW m \in M, NEW n \in M, m < n, n <= e, Gap(m, n) \cap M = {}
          PROVE  (\E i \in DOMAIN new : new[i].start <= m /\ n <= new[i].end) <=> Bridged(m, n)
      <4>0. m \in Int /\ n \in Int
        BY <1>1
      <4>1. CASE n = e
        <5>1. m = last.end
          BY <2>5, <3>9, <4>1
        <5>2. ASSUME NEW i \in DOMAIN new, new[i].start <= m, n <= new[i].end PROVE FALSE
          <6>1. CASE i = k + 1
            BY <1>1, <3>2, <3>3, <3>9, <4>0, <4>1, <5>2, <6>1
          <6>2. CASE i \in DOMAIN runs
            BY <1>1, <1>2, <1>3, <3>3, <4>1, <5>2, <6>2
          <6> QED BY <3>4, <6>1, <6>2
        <5> QED BY <2>7, <4>1, <5>1, <5>2
      <4>2. CASE n <= e - 1
        <5>1. ~(new[k + 1].start <= m)
          BY <1>1, <3>2, <3>3, <3>9, <4>0, <4>2
        <5>2. (\E i \in DOMAIN new : new[i].start <= m /\ n <= new[i].end)
                <=> (\E i \in DOMAIN runs : runs[i].start <= m /\ n <= runs[i].end)
          BY <3>3, <3>4, <3>5, <5>1
        <5> QED BY <1>3, <3>9, <4>2, <5>2
      <4> QED BY <1>4, <3>9, <4>1, <4>2
    <3> QED BY <3>3, <3>6, <3>7, <3>8, <3>9 DEF MergesUpto, M, new
  <2> QED BY <2>6, <2>7
<1> QED BY <1>5, <1>6

\* An epoch without malicious rows leaves the runs as they are.
LEMMA NoEpochMore ==
    ASSUME RowsOK, NEW e \in Int, e \notin MaliciousEpochs, NEW runs, MergesUpto(runs, e - 1)
    PROVE  MergesUpto(runs, e)
<1>1. \A m \in MaliciousEpochs : m \in Int /\ (m <= e => m <= e - 1)
  <2> TAKE m \in MaliciousEpochs
  <2>1. m \in Int /\ m # e
    BY MaliciousInEpochs
  <2> QED BY <2>1
<1>2. \A i \in DOMAIN runs : runs[i].end <= e
  <2> TAKE i \in DOMAIN runs
  <2>1. runs[i].end \in MaliciousEpochs /\ runs[i].end <= e - 1
    BY DEF MergesUpto
  <2> QED BY <1>1, <2>1
<1> QED BY <1>1, <1>2 DEF MergesUpto

\* What the merged runs of the whole release are.
LEMMA RunsAreMerges == RowsOK => MergesUpto(MergedRuns, Max(RecordEpochs))
<1> SUFFICES ASSUME RowsOK PROVE MergesUpto(MergedRuns, Max(RecordEpochs))
  OBVIOUS
<1> DEFINE lo == Min(RecordEpochs) hi == Max(RecordEpochs)
           Good == {m \in Nat : m <= hi - lo + 1 => MergesUpto(RunsUpto[lo - 1 + m], lo - 1 + m)}
<1>1. lo \in Int /\ hi \in Int /\ lo <= hi /\ Epochs = lo..hi
  BY EpochsAreBounded
<1>2. /\ RunsUpto[lo - 1] = <<>>
      /\ \A e \in Epochs :
           RunsUpto[e] = IF e \in MaliciousEpochs THEN WithEpoch(RunsUpto[e - 1], e)
                         ELSE RunsUpto[e - 1]
  BY RunsFollow
<1> HIDE DEF lo, hi
<1>3. 0 \in Good
  <2>1. \A m \in MaliciousEpochs : m \in Int /\ lo <= m
    BY <1>1, MaliciousInEpochs
  <2>2. \A m \in MaliciousEpochs : ~(m <= lo - 1)
    BY <1>1, <2>1
  <2>3. \A m, n \in MaliciousEpochs : ~(n <= lo - 1)
    BY <2>2
  <2>4. MergesUpto(<<>>, lo - 1)
    BY <2>2, <2>3 DEF MergesUpto
  <2>5. lo - 1 + 0 = lo - 1
    BY <1>1
  <2> QED BY <1>2, <2>4, <2>5
<1>4. ASSUME NEW m \in Nat, m \in Good PROVE m + 1 \in Good
  <2> SUFFICES ASSUME m + 1 <= hi - lo + 1
               PROVE  MergesUpto(RunsUpto[lo - 1 + (m + 1)], lo - 1 + (m + 1))
    OBVIOUS
  <2> DEFINE e == lo - 1 + (m + 1)
  <2>1. e \in Epochs /\ e \in Int /\ e - 1 = lo - 1 + m /\ m <= hi - lo + 1
    BY <1>1
  <2>2. MergesUpto(RunsUpto[e - 1], e - 1)
    BY <1>4, <2>1
  <2> SUFFICES MergesUpto(RunsUpto[e], e)
    OBVIOUS
  <2> HIDE DEF e
  <2>3. CASE e \in MaliciousEpochs
    BY <1>2, <2>1, <2>2, <2>3, OneEpochMore
  <2>4. CASE e \notin MaliciousEpochs
    BY <1>2, <2>1, <2>2, <2>4, NoEpochMore
  <2> QED BY <2>3, <2>4
<1>5. Nat \subseteq Good
  <2> HIDE DEF Good
  <2> QED BY <1>3, <1>4, AllNumbers
<1>6. hi - lo + 1 \in Nat /\ lo - 1 + (hi - lo + 1) = hi /\ hi - lo + 1 <= hi - lo + 1
  BY <1>1
<1>7. MergesUpto(RunsUpto[hi], hi)
  BY <1>5, <1>6
<1> QED BY <1>7 DEF MergedRuns, hi

\* EpisodesAreMaximalMerges holds of all well-typed rows.
LEMMA EpisodesAreSound == RowsOK => EpisodesAreMaximalMerges
<1> SUFFICES ASSUME RowsOK PROVE EpisodesAreMaximalMerges
  OBVIOUS
<1> DEFINE merged == MergedRuns runs == Range(merged) M == MaliciousEpochs hi == Max(RecordEpochs)
           Together(m, n) == \E run \in runs : {m, n} \subseteq run.start..run.end
           At(m) == {run \in runs : m \in run.start..run.end}
<1>1. MergesUpto(merged, hi)
  BY RunsAreMerges
<1>2. M \subseteq Int /\ hi \in Int /\ \A m \in M : m \in Int /\ m <= hi
  BY MaliciousInEpochs, EpochsAreBounded
<1>3. \A run : run \in runs <=> \E i \in DOMAIN merged : run = merged[i]
  BY DEF Range
<1> HIDE DEF merged, runs, M, hi
<1>4. /\ merged \in Seq(Runs)
      /\ \A i \in DOMAIN merged :
           /\ merged[i].start \in M /\ merged[i].end \in M
           /\ merged[i].start <= merged[i].end
      /\ \A i, j \in DOMAIN merged : i < j => merged[i].end < merged[j].start
      /\ \A m \in M :
           m <= hi => \E i \in DOMAIN merged : merged[i].start <= m /\ m <= merged[i].end
      /\ \A m, n \in M :
           m < n /\ n <= hi /\ Gap(m, n) \cap M = {} =>
             ((\E i \in DOMAIN merged : merged[i].start <= m /\ n <= merged[i].end) <=> Bridged(m, n))
  BY <1>1 DEF MergesUpto, M
<1>5. \A i \in DOMAIN merged : i \in Nat /\ merged[i].start \in Int /\ merged[i].end \in Int
  <2>1. DOMAIN merged = 1..Len(merged) /\ Len(merged) \in Nat
    BY <1>4, LenProperties
  <2>2. \A i \in 1..Len(merged) : i \in Nat
    BY <2>1
  <2>3. \A i \in DOMAIN merged : merged[i].start \in Int /\ merged[i].end \in Int
    BY <1>2, <1>4
  <2> QED BY <2>1, <2>2, <2>3
<1>6. ASSUME NEW m \in M PROVE Cardinality(At(m)) = 1
  <2>1. PICK i \in DOMAIN merged : merged[i].start <= m /\ m <= merged[i].end
    BY <1>2, <1>4
  <2>2. m \in Int
    BY <1>2
  <2>3. merged[i] \in At(m)
    BY <1>3, <1>5, <2>1, <2>2
  <2>4. ASSUME NEW run \in At(m) PROVE run = merged[i]
    <3>1. PICK j \in DOMAIN merged : run = merged[j]
      BY <1>3
    <3>2. merged[j].start <= m /\ m <= merged[j].end
      BY <1>5, <2>2, <3>1
    <3>3. ~(i < j)
      <4>1. ASSUME i < j PROVE FALSE
        <5>1. merged[i].end < merged[j].start
          BY <1>4, <4>1
        <5> QED BY <1>5, <2>1, <2>2, <3>2, <5>1
      <4> QED BY <4>1
    <3>4. ~(j < i)
      <4>1. ASSUME j < i PROVE FALSE
        <5>1. merged[j].end < merged[i].start
          BY <1>4, <4>1
        <5> QED BY <1>5, <2>1, <2>2, <3>2, <5>1
      <4> QED BY <4>1
    <3>5. i = j
      BY <1>5, <3>3, <3>4
    <3> QED BY <3>1, <3>5
  <2>5. At(m) = {merged[i]}
    BY <2>3, <2>4
  <2> QED BY <2>5, FS_Singleton
<1>7. ASSUME NEW run \in runs PROVE {run.start, run.end} \subseteq M
  BY <1>3, <1>4
<1>8. ASSUME NEW m \in M, NEW n \in M, m < n, Gap(m, n) \cap M = {}
      PROVE  Together(m, n) <=> Bridged(m, n)
  <2>1. m \in Int /\ n \in Int /\ n <= hi
    BY <1>2
  <2>2. Together(m, n) <=> \E i \in DOMAIN merged : merged[i].start <= m /\ n <= merged[i].end
    <3>1. ASSUME Together(m, n)
          PROVE  \E i \in DOMAIN merged : merged[i].start <= m /\ n <= merged[i].end
      <4>1. PICK run \in runs : {m, n} \subseteq run.start..run.end
        BY <3>1
      <4>2. PICK i \in DOMAIN merged : run = merged[i]
        BY <1>3
      <4> QED BY <1>5, <2>1, <4>1, <4>2
    <3>2. ASSUME NEW i \in DOMAIN merged, merged[i].start <= m, n <= merged[i].end
          PROVE  Together(m, n)
      <4>1. merged[i] \in runs
        BY <1>3
      <4>2. m \in merged[i].start..merged[i].end /\ n \in merged[i].start..merged[i].end
        BY <1>5, <1>8, <2>1, <3>2
      <4> QED BY <4>1, <4>2
    <3> QED BY <3>1, <3>2
  <2> QED BY <1>4, <1>8, <2>1, <2>2
<1>9. \A m, n : Bridged(m, n) <=>
        /\ Cardinality(Gap(m, n)) <= MergeGap
        /\ \A e \in Gap(m, n), c \in Clients : e \in Benign(c)
  BY DEF Bridged, FullyBenign, Gap
<1> QED BY <1>6, <1>7, <1>8, <1>9 DEF EpisodesAreMaximalMerges, runs, merged, M

-----------------------------------------------------------------------------
(***************************************************************************)
(* The replays.                                                            *)
(***************************************************************************)
\* A campaign is one of the merged runs, and begins and ends with a malicious epoch.
LEMMA CampaignsAreRuns ==
    ASSUME RowsOK, NEW run \in Campaigns
    PROVE  /\ EligibleRun(run)
           /\ \E i \in DOMAIN MergedRuns : run = MergedRuns[i]
           /\ run.start \in MaliciousEpochs /\ run.end \in MaliciousEpochs
           /\ run.start \in Int /\ run.end \in Int /\ run.start <= run.end
<1>1. run \in Range(MergedRuns) /\ EligibleRun(run)
  BY DEF Campaigns
<1>2. PICK i \in DOMAIN MergedRuns : run = MergedRuns[i]
  BY <1>1 DEF Range
<1>3. run.start \in MaliciousEpochs /\ run.end \in MaliciousEpochs /\ run.start <= run.end
  BY <1>2, RunsAreMerges DEF MergesUpto
<1> QED BY <1>1, <1>2, <1>3, MaliciousInEpochs

\* A replay begins with a malicious epoch, and the benign split ends before any.
LEMMA ReplaysAvoidTheSplit == TimelineInduction => ReplayAvoidsTheSplit
<1> SUFFICES ASSUME TimelineInduction, NEW run \in Campaigns,
                    NEW e \in CampaignEpochs(run), e \in CommonEpochs
             PROVE  FALSE
  BY DEF ReplayAvoidsTheSplit
<1>1. RowsOK
  BY DEF TimelineInduction
<1>2. run.start \in MaliciousEpochs /\ run.start \in Int
  BY <1>1, CampaignsAreRuns
<1>3. PICK c \in Clients : run.start \in Malicious(c)
  BY <1>2 DEF MaliciousEpochs
<1>4. run.start \in NonBenign(c)
  BY <1>1, <1>3, RowsAreBounded
<1>5. e < run.start
  BY <1>4, CommonIsBenign
<1>6. e \in Int /\ run.start <= e
  BY <1>2, ParametersAssumption DEF CampaignEpochs
<1> QED BY <1>2, <1>5, <1>6

\* The warm-up before a campaign holds no attack, so the campaign before it began, and was replayed,
\* before that warm-up.
LEMMA EarlierReplaysEnd ==
    ASSUME RowsOK, NEW one \in Campaigns, NEW other \in Campaigns, one.end < other.start
    PROVE  CampaignEpochs(one) \cap CampaignEpochs(other) = {}
<1>1. /\ one.end \in MaliciousEpochs /\ one.start \in Int /\ one.end \in Int /\ one.start <= one.end
      /\ other.start \in Int /\ EligibleRun(other)
  BY CampaignsAreRuns
<1>2. PICK c \in Clients : one.end \in Malicious(c)
  BY <1>1 DEF MaliciousEpochs
<1>3. Malicious(c) \cap (other.start - Warmup)..(other.start - 1) = {}
  BY <1>1 DEF EligibleRun, WarmupClean
<1>4. Warmup \in Nat /\ Horizon \in Nat /\ Horizon <= Warmup + 1
  BY TimelineAssumption, ParametersAssumption
<1>5. one.end < other.start - Warmup
  <2>1. one.end \notin (other.start - Warmup)..(other.start - 1)
    BY <1>2, <1>3
  <2> QED BY <1>1, <1>4, <2>1
<1>6. one.start + Horizon - 1 < other.start
  BY <1>1, <1>4, <1>5
<1>7. \A e \in CampaignEpochs(one) : e \notin CampaignEpochs(other)
  BY <1>1, <1>4, <1>6 DEF CampaignEpochs
<1> QED BY <1>7

\* ReplaysAreDisjoint holds of all well-typed rows.
LEMMA ReplaysAreApart == RowsOK => ReplaysAreDisjoint
<1> SUFFICES ASSUME RowsOK, NEW one \in Campaigns, NEW other \in Campaigns, one # other
             PROVE  CampaignEpochs(one) \cap CampaignEpochs(other) = {}
  BY DEF ReplaysAreDisjoint
<1>1. PICK i \in DOMAIN MergedRuns : one = MergedRuns[i]
  BY CampaignsAreRuns
<1>2. PICK j \in DOMAIN MergedRuns : other = MergedRuns[j]
  BY CampaignsAreRuns
<1>3. /\ \A k, l \in DOMAIN MergedRuns : k < l => MergedRuns[k].end < MergedRuns[l].start
      /\ MergedRuns \in Seq(Runs)
  BY RunsAreMerges DEF MergesUpto
<1>4. i \in Nat /\ j \in Nat /\ i # j
  BY <1>1, <1>2, <1>3, LenProperties
<1>5. CASE i < j
  BY <1>1, <1>2, <1>3, <1>5, EarlierReplaysEnd
<1>6. CASE j < i
  BY <1>1, <1>2, <1>3, <1>6, EarlierReplaysEnd
<1> QED BY <1>4, <1>5, <1>6

-----------------------------------------------------------------------------
(* The theorems about the timeline. *)

\* Whatever records are read, in whatever order, the rows of a client have no gaps.
THEOREM TimelineInductionHolds == TimelineSpec => []TimelineInduction
<1> QED BY TimelineStart, TimelineStep, PTL DEF TimelineSpec

\* The benign split is benign and in order, its horizons lie apart inside their blocks, and what
\* is replayed is neither in it nor replayed twice.
THEOREM TimelineInvariantHolds == TimelineSpec => []TimelineInvariant
<1>1. TimelineInduction => TimelineInvariant
  BY SplitIsSound, HorizonsAreSound, ReplaysAvoidTheSplit, ReplaysAreApart
     DEF TimelineInduction, TimelineInvariant
<1> QED BY <1>1, TimelineInductionHolds, PTL

\* Neighbouring malicious epochs are merged exactly when their gap is short and benign.
THEOREM EpisodesAreMaximalMergesHolds == TimelineSpec => []EpisodesAreMaximalMerges
<1>1. TimelineInduction => EpisodesAreMaximalMerges
  BY EpisodesAreSound DEF TimelineInduction
<1> QED BY <1>1, TimelineInductionHolds, PTL
=============================================================================

------------------------------ MODULE ReuseProofs ------------------------------
(***************************************************************************)
(* Proofs about the two commands that keep what an earlier command left    *)
(* when a record beside it says that it would come out the same: the       *)
(* layers of Preprocessing, for every set of passes, every set of          *)
(* definitions and every bound, and the seeds of Scalability, for every    *)
(* number of client counts and seeds, every set of machines,               *)
(* configurations and timings, and every bound.                            *)
(***************************************************************************)
EXTENDS Preprocessing, Scalability, SequenceTheorems, TLAPS

-----------------------------------------------------------------------------
(***************************************************************************)
(* Preprocessing: facts about fingerprints and contents.                   *)
(***************************************************************************)

\* Two inputs with the same fingerprint at layer l give, up to scaling, the same
\* content of layer l, and have the same raw data: the chain of
\* _expected_fingerprints declares everything the layers are computed from,
\* except the split behind the scaling of the prepared epochs.
LEMMA FingerprintPinsContent ==
    ASSUME NEW l \in Layers, NEW r1, NEW r2, NEW d1, NEW d2,
           ExpectedFingerprint(l, r1, d1) = ExpectedFingerprint(l, r2, d2)
    PROVE  /\ r1 = r2
           /\ AgreeUpToScaling(l, Rebuilt(l, r1, d1), Rebuilt(l, r2, d2))
<1> USE DEF MaterialFingerprint, InventoryFingerprint, Rebuilt, AgreeUpToScaling,
            InventoryOf, PreparedOf, SplitOf, PartitionsOf, CampaignsOf
<1>1. /\ Inventory = 1 /\ Prepared = 2 /\ Splits = 3 /\ Partitions = 4 /\ Campaigns = 5
      /\ l \in {1, 2, 3, 4, 5}
  BY DEF Layers, Inventory, Prepared, Splits, Partitions, Campaigns
<1>2. CASE l = 1
  BY <1>1, <1>2 DEF ExpectedFingerprint
<1>3. PreparedFingerprint(r1, d1) = PreparedFingerprint(r2, d2)
        => r1 = r2 /\ d1.prepared = d2.prepared
  BY DEF PreparedFingerprint
<1>4. SplitFingerprint(r1, d1) = SplitFingerprint(r2, d2)
        => r1 = r2 /\ d1.prepared = d2.prepared /\ d1.splits = d2.splits
  BY <1>3 DEF SplitFingerprint
<1>5. PartitionFingerprint(r1, d1) = PartitionFingerprint(r2, d2)
        => /\ r1 = r2 /\ d1.prepared = d2.prepared
           /\ d1.splits = d2.splits /\ d1.partitions = d2.partitions
  BY <1>4 DEF PartitionFingerprint
<1>6. CampaignFingerprint(r1, d1) = CampaignFingerprint(r2, d2)
        => /\ r1 = r2 /\ d1.prepared = d2.prepared /\ d1.campaign = d2.campaign
  BY <1>3 DEF CampaignFingerprint
<1>7. CASE l = 2
  BY <1>1, <1>3, <1>7 DEF ExpectedFingerprint
<1>8. CASE l = 3
  BY <1>1, <1>4, <1>8 DEF ExpectedFingerprint
<1>9. CASE l = 4
  BY <1>1, <1>5, <1>9 DEF ExpectedFingerprint
<1>10. CASE l = 5
  BY <1>1, <1>6, <1>10 DEF ExpectedFingerprint
<1> QED
  BY <1>1, <1>2, <1>7, <1>8, <1>9, <1>10

\* Agreement up to scaling is symmetric and transitive.
LEMMA AgreementIsTransitive ==
    ASSUME NEW l, NEW c, NEW e, NEW f,
           AgreeUpToScaling(l, c, e), AgreeUpToScaling(l, e, f)
    PROVE  AgreeUpToScaling(l, c, f)
BY DEF AgreeUpToScaling

LEMMA AgreementIsSymmetric ==
    ASSUME NEW l, NEW c, NEW e, AgreeUpToScaling(l, c, e)
    PROVE  AgreeUpToScaling(l, e, c)
BY DEF AgreeUpToScaling

\* What the operators defined by cases give at each layer.
LEMMA LayerNumbers ==
    /\ Inventory = 1 /\ Prepared = 2 /\ Splits = 3 /\ Partitions = 4 /\ Campaigns = 5
    /\ Layers = {1, 2, 3, 4, 5}
BY DEF Layers, Inventory, Prepared, Splits, Partitions, Campaigns

LEMMA ContentOfEachLayer ==
    /\ Content(1) = InventoryContent
    /\ Content(2) = PreparedContent
    /\ Content(3) = SplitLineage
    /\ Content(4) = PartitionContent
    /\ Content(5) = CampaignContent
BY LayerNumbers DEF Content

LEMMA RebuiltOfEachLayer ==
    ASSUME NEW r, NEW d
    PROVE  /\ Rebuilt(1, r, d) = InventoryOf(r)
           /\ Rebuilt(2, r, d) = PreparedOf(r, d)
           /\ Rebuilt(3, r, d) = SplitOf(PreparedOf(r, d), d)
           /\ Rebuilt(4, r, d) = PartitionsOf(SplitOf(PreparedOf(r, d), d), d)
           /\ Rebuilt(5, r, d) =
                CampaignsOf(PreparedOf(r, d), SplitOf(PreparedOf(r, d), d), d)
BY LayerNumbers DEF Rebuilt

\* The records a pass holds after resolving: their types, and what they stand
\* for when the products it read stand for its inputs.
LEMMA MaterializationHasItsTypes ==
    ASSUME TypeOK, NEW start \in Layers, NEW me,
           me.raw \in RawVersions, me.definition \in Definitions,
           \A l \in {Prepared, Splits, Partitions} : l < start => Readable(l)
    PROVE  /\ IsFunctionOn(Materialization(start, me), Layers)
           /\ \A l \in Layers : Materialization(start, me)[l] \in Content(l)
<1> DEFINE prepared == IF start <= 2 THEN PreparedOf(raw, me.definition) ELSE product[2]
           split == IF start <= 3 THEN SplitOf(prepared, me.definition) ELSE product[3]
           partitions == IF start <= 4 THEN PartitionsOf(split, me.definition) ELSE product[4]
           M == Materialization(start, me)
<1>1. start \in 1 .. 5 /\ start \in Nat
  BY DEF Layers
<1>2. /\ IsFunctionOn(M, Layers)
      /\ M[1] = InventoryOf(me.raw)
      /\ M[2] = prepared
      /\ M[3] = split
      /\ M[4] = partitions
      /\ M[5] = CampaignsOf(prepared, split, me.definition)
  BY LayerNumbers DEF Materialization, IsFunctionOn
<1>3. me.definition \in DefinitionRecord
  BY DefinitionsAssumption
<1>4. \A l \in {2, 3, 4} : l < start => product[l] \in Content(l)
  BY LayerNumbers DEF TypeOK, Readable
<1>5. prepared \in PreparedContent
  <2>1. PreparedOf(raw, me.definition) \in PreparedContent
    <3>1. [raw |-> raw, definition |-> me.definition.prepared] \in EpochLineage
      BY <1>3 DEF EpochLineage, DefinitionRecord, TypeOK
    <3> QED BY <3>1 DEF PreparedOf, PreparedContent
  <2> QED BY <1>1, <1>4, <2>1, ContentOfEachLayer
<1>6. split \in SplitLineage
  <2>1. prepared.epochs \in EpochLineage
    <3> HIDE DEF prepared
    <3> QED BY <1>5 DEF PreparedContent
  <2>2. SplitOf(prepared, me.definition) \in SplitLineage
    <3> HIDE DEF prepared
    <3> QED BY <1>3, <2>1 DEF SplitOf, SplitLineage, DefinitionRecord
  <2> QED BY <1>1, <1>4, <2>2, ContentOfEachLayer
<1> HIDE DEF prepared, split
<1>7. partitions \in PartitionContent
  <2>1. PartitionsOf(split, me.definition) \in PartitionContent
    BY <1>3, <1>6 DEF PartitionsOf, PartitionContent, DefinitionRecord
  <2> QED BY <1>1, <1>4, <2>1, ContentOfEachLayer
<1>8. CampaignsOf(prepared, split, me.definition) \in CampaignContent
  <2>1. prepared.epochs \in EpochLineage /\ split.epochs \in EpochLineage
    BY <1>5, <1>6 DEF PreparedContent, SplitLineage
  <2> QED BY <1>3, <2>1 DEF CampaignsOf, CampaignContent, DefinitionRecord
<1>9. InventoryOf(me.raw) \in InventoryContent
  BY DEF InventoryOf, InventoryContent
<1> QED
  BY <1>2, <1>5, <1>6, <1>7, <1>8, <1>9, LayerNumbers, ContentOfEachLayer

LEMMA MaterializationStandsForInputs ==
    ASSUME TypeOK, NEW start \in Layers, NEW me,
           me.raw \in RawVersions, me.definition \in Definitions,
           \A l \in {Prepared, Splits, Partitions} : l < start => Readable(l),
           \A l \in Layers : l < start /\ Readable(l) =>
               StandsFor(l, product[l], me.raw, me.definition)
    PROVE  \A l \in Layers : l >= start =>
               StandsFor(l, Materialization(start, me)[l], me.raw, me.definition)
<1> DEFINE d == me.definition
           prepared == IF start <= 2 THEN PreparedOf(raw, d) ELSE product[2]
           split == IF start <= 3 THEN SplitOf(prepared, d) ELSE product[3]
           partitions == IF start <= 4 THEN PartitionsOf(split, d) ELSE product[4]
           M == Materialization(start, me)
<1>1. start \in 1 .. 5 /\ start \in Nat
  BY DEF Layers
<1>2. /\ M[1] = InventoryOf(me.raw)
      /\ M[2] = prepared
      /\ M[3] = split
      /\ M[4] = partitions
      /\ M[5] = CampaignsOf(prepared, split, d)
  BY LayerNumbers DEF Materialization
<1>3. SUFFICES ASSUME me.raw = raw
               PROVE  \A l \in Layers : l >= start =>
                          AgreeUpToScaling(l, M[l], Rebuilt(l, me.raw, d))
  BY DEF StandsFor
<1>4. \A l \in {2, 3, 4} : l < start =>
          AgreeUpToScaling(l, product[l], Rebuilt(l, me.raw, d))
  BY <1>3, LayerNumbers DEF StandsFor
<1>5. prepared.epochs = PreparedOf(me.raw, d).epochs
  <2>1. CASE start <= 2
    BY <1>3, <2>1
  <2>2. CASE start > 2
    BY <1>1, <1>4, <2>2, RebuiltOfEachLayer, LayerNumbers DEF AgreeUpToScaling
  <2> QED BY <1>1, <2>1, <2>2
<1>6. split = SplitOf(PreparedOf(me.raw, d), d)
  <2>1. CASE start <= 3
    BY <1>5, <2>1 DEF SplitOf
  <2>2. CASE start > 3
    BY <1>1, <1>4, <2>2, RebuiltOfEachLayer, LayerNumbers DEF AgreeUpToScaling
  <2> QED BY <1>1, <2>1, <2>2
<1> HIDE DEF prepared, split, M
<1>7. start <= 4 => partitions = PartitionsOf(SplitOf(PreparedOf(me.raw, d), d), d)
  BY <1>6
<1> HIDE DEF partitions
<1>8. CampaignsOf(prepared, split, d)
        = CampaignsOf(PreparedOf(me.raw, d), SplitOf(PreparedOf(me.raw, d), d), d)
  BY <1>5, <1>6 DEF CampaignsOf
<1>9. start <= 2 => prepared = PreparedOf(me.raw, d)
  BY <1>3 DEF prepared
<1> QED
  BY <1>1, <1>2, <1>6, <1>7, <1>8, <1>9, RebuiltOfEachLayer, LayerNumbers
     DEF AgreeUpToScaling

-----------------------------------------------------------------------------
(***************************************************************************)
(* Type correctness.                                                       *)
(***************************************************************************)

\* The manifest a writing pass publishes has the type of its layer.
LEMMA ManifestHasItsType ==
    ASSUME NEW w, IsWritingPass(w)
    PROVE  [fingerprint |-> ExpectedFingerprint(w.layer, w.raw, w.definition),
            digest |-> w.records[w.layer]]
             \in [fingerprint: Fingerprint(w.layer), digest: Content(w.layer)]
<1>1. ExpectedFingerprint(w.layer, w.raw, w.definition) \in Fingerprint(w.layer)
  BY DEF Fingerprint, IsWritingPass
<1>2. w.records[w.layer] \in Content(w.layer)
  BY DEF IsWritingPass
<1> QED BY <1>1, <1>2

\* The states of one pass, told apart by its program counter.
LEMMA PassStates ==
    ASSUME TypeOK, NEW p \in Passes
    PROVE  /\ pass[p].pc \in {"checking", "resolving"} => pass[p] \in CheckingPass
           /\ pass[p].pc \in {"product", "manifest"} => IsWritingPass(pass[p])
           /\ pass[p].pc \in {"idle", "checking", "resolving", "product", "manifest"}
           /\ Active(p) => /\ pass[p].raw \in RawVersions
                           /\ pass[p].definition \in Definitions
                           /\ pass[p].layer \in Layers
<1>1. CASE pass[p] = Idle
  BY <1>1 DEF Idle, Active
<1>2. CASE pass[p] \in CheckingPass
  BY <1>2 DEF CheckingPass, Active
<1>3. CASE IsWritingPass(pass[p])
  BY <1>3 DEF IsWritingPass, Active
<1> QED BY <1>1, <1>2, <1>3 DEF TypeOK

\* Replacing the state of one pass by a well-typed one keeps all passes typed.
LEMMA PassUpdate ==
    ASSUME TypeOK, NEW p \in Passes, NEW w,
           w = Idle \/ w \in CheckingPass \/ IsWritingPass(w),
           pass' = [pass EXCEPT ![p] = w]
    PROVE  /\ IsFunctionOn(pass', Passes)
           /\ \A q \in Passes : pass'[q] = IF q = p THEN w ELSE pass[q]
           /\ \A q \in Passes :
                pass'[q] = Idle \/ pass'[q] \in CheckingPass \/ IsWritingPass(pass'[q])
<1>1. pass = [q \in Passes |-> pass[q]]
  BY DEF TypeOK, IsFunctionOn
<1>2. pass' = [q \in Passes |-> IF q = p THEN w ELSE pass[q]]
  BY <1>1
<1>3. \A q \in Passes : pass'[q] = IF q = p THEN w ELSE pass[q]
  BY <1>2
<1> QED BY <1>2, <1>3 DEF TypeOK, IsFunctionOn

\* Every step keeps the types.
LEMMA TypeStep ==
    ASSUME TypeOK, [Next]_vars
    PROVE  TypeOK'
<1>1. ASSUME NEW p \in Passes, NEW overwrite \in BOOLEAN, StartPass(p, overwrite)
      PROVE  TypeOK'
  <2> DEFINE w == [pc |-> "checking", overwrite |-> overwrite, raw |-> raw,
                   definition |-> definition, layer |-> Inventory]
  <2>1. w \in CheckingPass
    BY LayerNumbers DEF CheckingPass, TypeOK
  <2>2. pass' = [pass EXCEPT ![p] = w]
    BY <1>1 DEF StartPass
  <2> HIDE DEF w
  <2> QED BY <1>1, <2>1, <2>2, PassUpdate DEF StartPass, TypeOK
<1>2. ASSUME NEW p \in Passes, CheckLayer(p)
      PROVE  TypeOK'
  <2>1. PICK w : /\ w = Idle \/ w \in CheckingPass
                 /\ pass' = [pass EXCEPT ![p] = w]
    <3>1. pass[p] \in CheckingPass
      BY <1>2, PassStates DEF CheckLayer
    <3>2. CASE pass' = [pass EXCEPT ![p].pc = "resolving"]
      <4>1. [pass[p] EXCEPT !.pc = "resolving"] \in CheckingPass
        BY <3>1 DEF CheckingPass
      <4> QED BY <3>2, <4>1
    <3>3. CASE /\ pass[p].layer # Campaigns
               /\ pass' = [pass EXCEPT ![p].layer = pass[p].layer + 1]
      <4>1. [pass[p] EXCEPT !.layer = pass[p].layer + 1] \in CheckingPass
        BY <3>1, <3>3, LayerNumbers DEF CheckingPass
      <4> QED BY <3>3, <4>1
    <3> QED BY <1>2, <3>2, <3>3 DEF CheckLayer
  <2> QED BY <1>2, <2>1, PassUpdate DEF CheckLayer, TypeOK
<1>3. ASSUME NEW p \in Passes, Resolve(p)
      PROVE  TypeOK'
  <2>1. pass[p] \in CheckingPass
    BY <1>3, PassStates DEF Resolve
  <2>2. PICK w : /\ w = Idle \/ IsWritingPass(w)
                 /\ pass' = [pass EXCEPT ![p] = w]
    <3> DEFINE M == Materialization(pass[p].layer, pass[p])
               v == [pc |-> "product", raw |-> pass[p].raw,
                     definition |-> pass[p].definition,
                     layer |-> pass[p].layer, records |-> M]
               sources == {l \in {Prepared, Splits, Partitions} : l < pass[p].layer}
    <3>1. CASE \A l \in sources : Readable(l)
      <4>1. /\ pass[p].layer \in Layers
            /\ pass[p].raw \in RawVersions
            /\ pass[p].definition \in Definitions
        BY <2>1 DEF CheckingPass
      <4>2. /\ IsFunctionOn(M, Layers)
            /\ \A l \in Layers : M[l] \in Content(l)
        BY <3>1, <4>1, MaterializationHasItsTypes
      <4>3. pass' = [pass EXCEPT ![p] = v]
        BY <1>3, <3>1 DEF Resolve
      <4> HIDE DEF M
      <4>4. IsWritingPass(v)
        BY <4>1, <4>2 DEF IsWritingPass
      <4> QED BY <4>3, <4>4
    <3>2. CASE ~(\A l \in sources : Readable(l))
      BY <1>3, <3>2 DEF Resolve
    <3> QED BY <3>1, <3>2
  <2> QED BY <1>3, <2>2, PassUpdate DEF Resolve, TypeOK
<1>4. ASSUME NEW p \in Passes, WriteProduct(p)
      PROVE  TypeOK'
  <2> DEFINE w == [pass[p] EXCEPT !.pc = "manifest"]
  <2>1. IsWritingPass(pass[p])
    BY <1>4, PassStates DEF WriteProduct
  <2>2. IsWritingPass(w)
    BY <2>1 DEF IsWritingPass
  <2>3. pass' = [pass EXCEPT ![p] = w]
    BY <1>4 DEF WriteProduct
  <2>4. /\ IsFunctionOn(product', Layers)
        /\ \A l \in Layers : product'[l] \in Content(l) \cup {NoFile, Garbage}
    BY <1>4, <2>1 DEF WriteProduct, TypeOK, IsFunctionOn, IsWritingPass
  <2> HIDE DEF w
  <2> QED BY <1>4, <2>2, <2>3, <2>4, PassUpdate DEF WriteProduct, TypeOK
<1>5. ASSUME NEW p \in Passes, WriteManifest(p)
      PROVE  TypeOK'
  <2> DEFINE w == IF pass[p].layer = Campaigns THEN Idle
                  ELSE [pc |-> "product", raw |-> pass[p].raw,
                        definition |-> pass[p].definition,
                        layer |-> pass[p].layer + 1, records |-> pass[p].records]
  <2>1. IsWritingPass(pass[p])
    BY <1>5, PassStates DEF WriteManifest
  <2>2. w = Idle \/ IsWritingPass(w)
    <3>1. CASE pass[p].layer # Campaigns
      <4>1. pass[p].layer + 1 \in Layers
        BY <2>1, <3>1, LayerNumbers DEF IsWritingPass
      <4> QED BY <2>1, <3>1, <4>1 DEF IsWritingPass
    <3> QED BY <3>1
  <2>3. pass' = [pass EXCEPT ![p] = w]
    BY <1>5 DEF WriteManifest
  <2>4. /\ IsFunctionOn(manifest', Layers)
        /\ \A l \in Layers :
             manifest'[l] \in [fingerprint: Fingerprint(l), digest: Content(l)] \cup {NoFile}
    <3> DEFINE m == [fingerprint |-> ExpectedFingerprint(pass[p].layer, pass[p].raw,
                                                         pass[p].definition),
                     digest |-> pass[p].records[pass[p].layer]]
    <3>1. /\ m \in [fingerprint: Fingerprint(pass[p].layer), digest: Content(pass[p].layer)]
          /\ pass[p].layer \in Layers
      BY <2>1, ManifestHasItsType DEF IsWritingPass
    <3>2. manifest' = [manifest EXCEPT ![pass[p].layer] = m]
      BY <1>5 DEF WriteManifest
    <3> HIDE DEF m
    <3> QED BY <3>1, <3>2 DEF TypeOK, IsFunctionOn
  <2> HIDE DEF w
  <2> QED BY <1>5, <2>2, <2>3, <2>4, PassUpdate DEF WriteManifest, TypeOK
<1>6. CASE ReplaceRaw
  <2>1. raw' \in RawVersions
    BY <1>6, BoundsAssumption DEF ReplaceRaw, TypeOK, RawVersions
  <2> QED BY <1>6, <2>1 DEF ReplaceRaw, TypeOK
<1>7. CASE EditDefinition
  BY <1>7, BoundsAssumption DEF EditDefinition, Disturb, TypeOK
<1>8. ASSUME NEW l \in Layers, DamageProduct(l)
      PROVE  TypeOK'
  BY <1>8, BoundsAssumption DEF DamageProduct, Disturb, TypeOK, IsFunctionOn
<1>9. ASSUME NEW l \in Layers, LoseManifest(l)
      PROVE  TypeOK'
  BY <1>9, BoundsAssumption DEF LoseManifest, Disturb, TypeOK, IsFunctionOn
<1>10. ASSUME NEW p \in Passes, Kill(p)
       PROVE  TypeOK'
  <2>1. disturbances' \in 0 .. MaxDisturbances
    BY <1>10, BoundsAssumption DEF Kill, Disturb, TypeOK
  <2> QED BY <1>10, <2>1, PassUpdate DEF Kill, TypeOK
<1>11. CASE UNCHANGED vars
  BY <1>11 DEF vars, TypeOK
<1> QED
  BY <1>1, <1>2, <1>3, <1>4, <1>5, <1>6, <1>7, <1>8, <1>9, <1>10, <1>11
     DEF Next, Step, Environment

\* The empty directory has its types.
LEMMA TypeInit == Init => TypeOK
<1> SUFFICES ASSUME Init PROVE TypeOK
  OBVIOUS
<1>1. crossed \in BOOLEAN
  BY Zenon DEF Init
<1>2. /\ raw \in RawVersions
      /\ disturbances \in 0 .. MaxDisturbances
  BY BoundsAssumption DEF Init, RawVersions
<1>3. /\ IsFunctionOn(product, Layers) /\ \A l \in Layers : product[l] = NoFile
      /\ IsFunctionOn(manifest, Layers) /\ \A l \in Layers : manifest[l] = NoFile
      /\ IsFunctionOn(pass, Passes) /\ \A p \in Passes : pass[p] = Idle
      /\ definition \in Definitions
  BY DEF Init, IsFunctionOn
<1> QED BY <1>1, <1>2, <1>3 DEF TypeOK

\* The files and the passes have their types in every reachable state.
THEOREM TypeCorrect == Spec => []TypeOK
BY TypeInit, TypeStep, PTL DEF Spec

-----------------------------------------------------------------------------
(***************************************************************************)
(* Soundness of reuse.                                                     *)
(***************************************************************************)

\* A layer that _layer_is_reusable accepts for some inputs stands for them: its
\* manifest stands for inputs with the same fingerprint, and the fingerprint
\* pins the content.
LEMMA ReusableLayerStandsForInputs ==
    ASSUME ManifestsStandForTheirFingerprint, NEW l \in Layers, NEW r, NEW d,
           LayerIsReusable(l, r, d)
    PROVE  StandsFor(l, product[l], r, d)
<1>1. PICK s \in 0 .. raw, e \in Definitions :
          /\ manifest[l].fingerprint = ExpectedFingerprint(l, s, e)
          /\ StandsFor(l, manifest[l].digest, s, e)
  BY DEF ManifestsStandForTheirFingerprint, LayerIsReusable
<1>2. /\ manifest[l].fingerprint = ExpectedFingerprint(l, r, d)
      /\ product[l] = manifest[l].digest
  BY DEF LayerIsReusable
<1>3. s = r /\ AgreeUpToScaling(l, Rebuilt(l, s, e), Rebuilt(l, r, d))
  BY <1>1, <1>2, FingerprintPinsContent
<1> QED BY <1>1, <1>2, <1>3, AgreementIsTransitive DEF StandsFor

\* The invariant holds of the empty directory.
LEMMA ReuseInit == Init => ReuseInvariant
<1> SUFFICES ASSUME Init PROVE ReuseInvariant
  OBVIOUS
<1>1. TypeOK
  BY TypeInit
<1>2. \A p \in Passes : pass[p].pc = "idle"
  BY DEF Init, Idle
<1>3. \A l \in Layers : manifest[l] = NoFile
  BY DEF Init
<1> QED
  BY <1>1, <1>2, <1>3 DEF ReuseInvariant, ManifestsStandForTheirFingerprint, Active,
     KeptLayersStandForTheInputs, RecordsStandForTheInputs, OverlappingPassesAgree

\* The history variable is never reset, and a pass that starts without setting it
\* has the inputs of those that run.
LEMMA CrossingIsForEver ==
    ASSUME TypeOK, [Next]_vars, ~crossed'
    PROVE  ~crossed
<1>1. ASSUME NEW p \in Passes, NEW overwrite \in BOOLEAN, StartPass(p, overwrite)
      PROVE  ~crossed
  BY <1>1 DEF StartPass
<1>2. ASSUME NEW p \in Passes, Step(p)
      PROVE  crossed' = crossed
  BY <1>2 DEF Step, CheckLayer, Resolve, WriteProduct, WriteManifest
<1>3. Environment => crossed' = crossed
  BY DEF Environment, ReplaceRaw, EditDefinition, DamageProduct, LoseManifest, Kill
<1> QED BY <1>1, <1>2, <1>3 DEF Next, vars

\* Every step that does not make passes of different inputs overlap keeps what
\* the invariant says of the files and the passes.
LEMMA UncrossedStep ==
    ASSUME TypeOK, ManifestsStandForTheirFingerprint, KeptLayersStandForTheInputs,
           RecordsStandForTheInputs, OverlappingPassesAgree, [Next]_vars, ~crossed'
    PROVE  /\ ManifestsStandForTheirFingerprint'
           /\ KeptLayersStandForTheInputs'
           /\ RecordsStandForTheInputs'
           /\ OverlappingPassesAgree'
<1> DEFINE Manifests == ManifestsStandForTheirFingerprint
           Kept == KeptLayersStandForTheInputs
           Recorded == RecordsStandForTheInputs
           Overlap == OverlappingPassesAgree
<1>1. ASSUME NEW p \in Passes, NEW overwrite \in BOOLEAN, StartPass(p, overwrite)
      PROVE  Manifests' /\ Kept' /\ Recorded' /\ Overlap'
  <2> DEFINE w == [pc |-> "checking", overwrite |-> overwrite, raw |-> raw,
                   definition |-> definition, layer |-> Inventory]
  <2>1. \A q \in Passes : pass'[q] = IF q = p THEN w ELSE pass[q]
    BY <1>1 DEF StartPass, TypeOK, IsFunctionOn
  <2>2. UNCHANGED <<raw, definition, product, manifest>>
    BY <1>1 DEF StartPass
  <2>3. Manifests'
    BY <2>2 DEF ManifestsStandForTheirFingerprint, StandsFor
  <2>4. Kept'
    BY <2>1, <2>2, LayerNumbers DEF KeptLayersStandForTheInputs, StandsFor, Readable
  <2>5. Recorded'
    BY <2>1, <2>2 DEF RecordsStandForTheInputs, StandsFor
  <2>6. Overlap'
    <3>1. raw <= raw
      BY DEF TypeOK, RawVersions
    <3>2. SameInputs(p)
      BY <1>1 DEF StartPass
    <3> QED
      BY <2>1, <2>2, <3>1, <3>2 DEF OverlappingPassesAgree, SameInputs, Active
  <2> QED BY <2>3, <2>4, <2>5, <2>6
<1>2. ASSUME NEW p \in Passes, CheckLayer(p)
      PROVE  Manifests' /\ Kept' /\ Recorded' /\ Overlap'
  <2> DEFINE me == pass[p]
             keep == ~me.overwrite /\ LayerIsReusable(me.layer, me.raw, me.definition)
  <2>1. UNCHANGED <<raw, definition, product, manifest>>
    BY <1>2 DEF CheckLayer
  <2>2. me \in CheckingPass
    BY <1>2, PassStates DEF CheckLayer
  <2>3. PICK w :
          /\ \A q \in Passes : pass'[q] = IF q = p THEN w ELSE pass[q]
          /\ w.pc \in {"idle", "checking", "resolving"}
          /\ w.pc # "idle" =>
                /\ w.raw = me.raw
                /\ w.definition = me.definition
                /\ w.layer = me.layer \/ (keep /\ w.layer = me.layer + 1)
    <3>1. CASE pass' = [pass EXCEPT ![p].pc = "resolving"]
      <4> DEFINE v == [me EXCEPT !.pc = "resolving"]
      <4>1. v.pc = "resolving" /\ v.raw = me.raw /\ v.definition = me.definition
            /\ v.layer = me.layer
        BY <2>2 DEF CheckingPass
      <4>2. \A q \in Passes : pass'[q] = IF q = p THEN v ELSE pass[q]
        BY <3>1 DEF TypeOK, IsFunctionOn
      <4> HIDE DEF v
      <4> QED BY <4>1, <4>2
    <3>2. CASE keep /\ pass' = [pass EXCEPT ![p].layer = me.layer + 1]
      <4> DEFINE v == [me EXCEPT !.layer = me.layer + 1]
      <4>1. v.pc = me.pc /\ v.raw = me.raw /\ v.definition = me.definition
            /\ v.layer = me.layer + 1
        BY <2>2 DEF CheckingPass
      <4>2. \A q \in Passes : pass'[q] = IF q = p THEN v ELSE pass[q]
        BY <3>2 DEF TypeOK, IsFunctionOn
      <4>3. me.pc = "checking"
        BY <1>2 DEF CheckLayer
      <4> HIDE DEF v
      <4> QED BY <3>2, <4>1, <4>2, <4>3
    <3>3. CASE pass' = [pass EXCEPT ![p] = Idle]
      <4>1. \A q \in Passes : pass'[q] = IF q = p THEN Idle ELSE pass[q]
        BY <3>3 DEF TypeOK, IsFunctionOn
      <4> QED BY <4>1 DEF Idle
    <3> QED BY <1>2, <3>1, <3>2, <3>3 DEF CheckLayer
  <2>4. Manifests'
    BY <2>1 DEF ManifestsStandForTheirFingerprint, StandsFor
  <2>5. Kept'
    <3>1. keep => StandsFor(me.layer, product[me.layer], me.raw, me.definition)
      BY <2>2, ReusableLayerStandsForInputs DEF CheckingPass
    <3>2. \A l \in Layers : l < me.layer /\ Readable(l) =>
              StandsFor(l, product[l], me.raw, me.definition)
      BY <2>2 DEF KeptLayersStandForTheInputs, CheckingPass
    <3>3. w.pc # "idle" => \A l \in Layers : l < w.layer /\ Readable(l) =>
              StandsFor(l, product[l], w.raw, w.definition)
      <4>1. \A l \in Layers : l < me.layer + 1 => l < me.layer \/ l = me.layer
        BY <2>2 DEF CheckingPass, Layers
      <4> QED BY <2>3, <3>1, <3>2, <4>1
    <3>4. \A q \in Passes : pass'[q].pc \in {"checking", "resolving"} =>
              \A l \in Layers : l < pass'[q].layer /\ Readable(l) =>
                  StandsFor(l, product[l], pass'[q].raw, pass'[q].definition)
      BY <2>3, <3>3 DEF KeptLayersStandForTheInputs
    <3> QED BY <2>1, <3>4 DEF KeptLayersStandForTheInputs, StandsFor, Readable
  <2>6. Recorded'
    BY <2>1, <2>3 DEF RecordsStandForTheInputs, StandsFor
  <2>7. Overlap'
    <3>1. Active(p)
      BY <1>2 DEF CheckLayer, Active
    <3> QED BY <2>1, <2>3, <3>1 DEF OverlappingPassesAgree, Active
  <2> QED BY <2>4, <2>5, <2>6, <2>7
<1>3. ASSUME NEW p \in Passes, Resolve(p)
      PROVE  Manifests' /\ Kept' /\ Recorded' /\ Overlap'
  <2> DEFINE me == pass[p]
             M == Materialization(me.layer, me)
             sources == {l \in {Prepared, Splits, Partitions} : l < me.layer}
  <2>1. UNCHANGED <<raw, definition, product, manifest>>
    BY <1>3 DEF Resolve
  <2>2. me \in CheckingPass /\ me.pc = "resolving"
    BY <1>3, PassStates DEF Resolve
  <2>3. PICK w :
          /\ \A q \in Passes : pass'[q] = IF q = p THEN w ELSE pass[q]
          /\ w.pc \in {"idle", "product"}
          /\ w.pc # "idle" =>
                /\ w.raw = me.raw
                /\ w.definition = me.definition
                /\ \A l \in Layers : l >= w.layer =>
                       StandsFor(l, w.records[l], w.raw, w.definition)
    <3>1. CASE \A l \in sources : Readable(l)
      <4> DEFINE v == [pc |-> "product", raw |-> me.raw, definition |-> me.definition,
                       layer |-> me.layer, records |-> M]
      <4>1. /\ me.layer \in Layers
            /\ me.raw \in RawVersions
            /\ me.definition \in Definitions
        BY <2>2 DEF CheckingPass
      <4>2. \A l \in Layers : l < me.layer /\ Readable(l) =>
                StandsFor(l, product[l], me.raw, me.definition)
        BY <2>2 DEF KeptLayersStandForTheInputs
      <4>3. \A l \in Layers : l >= me.layer =>
                StandsFor(l, M[l], me.raw, me.definition)
        BY <3>1, <4>1, <4>2, MaterializationStandsForInputs
      <4>4. \A q \in Passes : pass'[q] = IF q = p THEN v ELSE pass[q]
        BY <1>3, <3>1 DEF Resolve, TypeOK, IsFunctionOn
      <4>5. v.pc = "product" /\ v.raw = me.raw /\ v.definition = me.definition
            /\ v.layer = me.layer /\ v.records = M
        OBVIOUS
      <4> HIDE DEF v, M
      <4> QED BY <4>3, <4>4, <4>5
    <3>2. CASE ~(\A l \in sources : Readable(l))
      <4>1. \A q \in Passes : pass'[q] = IF q = p THEN Idle ELSE pass[q]
        BY <1>3, <3>2 DEF Resolve, TypeOK, IsFunctionOn
      <4> QED BY <4>1 DEF Idle
    <3> QED BY <3>1, <3>2
  <2>4. Manifests'
    BY <2>1 DEF ManifestsStandForTheirFingerprint, StandsFor
  <2>5. Kept'
    BY <2>1, <2>3 DEF KeptLayersStandForTheInputs, StandsFor, Readable
  <2>6. Recorded'
    BY <2>1, <2>3 DEF RecordsStandForTheInputs, StandsFor
  <2>7. Overlap'
    BY <2>1, <2>2, <2>3 DEF OverlappingPassesAgree, Active
  <2> QED BY <2>4, <2>5, <2>6, <2>7
<1>4. ASSUME NEW p \in Passes, WriteProduct(p)
      PROVE  Manifests' /\ Kept' /\ Recorded' /\ Overlap'
  <2> DEFINE me == pass[p]
             w == [me EXCEPT !.pc = "manifest"]
  <2>1. UNCHANGED <<raw, definition, manifest>>
    BY <1>4 DEF WriteProduct
  <2>2. IsWritingPass(me) /\ me.pc = "product"
    BY <1>4, PassStates DEF WriteProduct
  <2>3. /\ w.pc = "manifest" /\ w.raw = me.raw /\ w.definition = me.definition
        /\ w.layer = me.layer /\ w.records = me.records
    BY <2>2 DEF IsWritingPass
  <2>4. \A q \in Passes : pass'[q] = IF q = p THEN w ELSE pass[q]
    BY <1>4 DEF WriteProduct, TypeOK, IsFunctionOn
  <2>5. \A l \in Layers : product'[l] = IF l = me.layer THEN me.records[l] ELSE product[l]
    BY <1>4 DEF WriteProduct, TypeOK, IsFunctionOn
  <2> HIDE DEF w
  <2>6. Manifests'
    BY <2>1 DEF ManifestsStandForTheirFingerprint, StandsFor
  <2>7. Kept'
    <3> SUFFICES ASSUME NEW q \in Passes, pass'[q].pc \in {"checking", "resolving"},
                        NEW l \in Layers, l < pass'[q].layer, Readable(l)'
                 PROVE  StandsFor(l, product[l], pass[q].raw, pass[q].definition)'
      BY DEF KeptLayersStandForTheInputs
    <3>1. pass'[q] = pass[q]
      BY <2>3, <2>4
    <3>2. CASE l = me.layer
      <4>1. StandsFor(l, me.records[l], me.raw, me.definition)
        BY <2>2, <3>2 DEF RecordsStandForTheInputs, Layers
      <4>2. me.raw = pass[q].raw /\ me.definition = pass[q].definition
        BY <2>2, <3>1 DEF OverlappingPassesAgree, Active
      <4> QED BY <2>1, <2>5, <3>1, <3>2, <4>1, <4>2 DEF StandsFor
    <3>3. CASE l # me.layer
      BY <2>1, <2>5, <3>1, <3>3 DEF KeptLayersStandForTheInputs, StandsFor, Readable
    <3> QED BY <3>2, <3>3
  <2>8. Recorded'
    BY <2>1, <2>2, <2>3, <2>4 DEF RecordsStandForTheInputs, StandsFor
  <2>9. Overlap'
    BY <2>1, <2>2, <2>3, <2>4 DEF OverlappingPassesAgree, Active
  <2> QED BY <2>6, <2>7, <2>8, <2>9
<1>5. ASSUME NEW p \in Passes, WriteManifest(p)
      PROVE  Manifests' /\ Kept' /\ Recorded' /\ Overlap'
  <2> DEFINE me == pass[p]
             w == IF me.layer = Campaigns THEN Idle
                  ELSE [pc |-> "product", raw |-> me.raw, definition |-> me.definition,
                        layer |-> me.layer + 1, records |-> me.records]
             m == [fingerprint |-> ExpectedFingerprint(me.layer, me.raw, me.definition),
                   digest |-> me.records[me.layer]]
  <2>1. UNCHANGED <<raw, definition, product>>
    BY <1>5 DEF WriteManifest
  <2>2. IsWritingPass(me) /\ me.pc = "manifest"
    BY <1>5, PassStates DEF WriteManifest
  <2>3. /\ w.pc \in {"idle", "product"}
        /\ w.pc # "idle" => /\ w.raw = me.raw /\ w.definition = me.definition
                            /\ w.layer = me.layer + 1 /\ w.records = me.records
    BY DEF Idle
  <2>4. \A q \in Passes : pass'[q] = IF q = p THEN w ELSE pass[q]
    BY <1>5 DEF WriteManifest, TypeOK, IsFunctionOn
  <2>5. \A l \in Layers : manifest'[l] = IF l = me.layer THEN m ELSE manifest[l]
    BY <1>5 DEF WriteManifest, TypeOK, IsFunctionOn
  <2>6. /\ m.fingerprint = ExpectedFingerprint(me.layer, me.raw, me.definition)
        /\ m.digest = me.records[me.layer]
    OBVIOUS
  <2> HIDE DEF w, m
  <2>7. Manifests'
    <3>1. me.raw \in 0 .. raw
      BY <2>2 DEF OverlappingPassesAgree, Active, IsWritingPass, RawVersions, TypeOK
    <3>2. StandsFor(me.layer, m.digest, me.raw, me.definition)
      BY <2>2, <2>6 DEF RecordsStandForTheInputs, IsWritingPass, Layers
    <3> QED
      BY <2>1, <2>2, <2>5, <2>6, <3>1, <3>2
         DEF ManifestsStandForTheirFingerprint, StandsFor, IsWritingPass
  <2>8. Kept'
    BY <2>1, <2>3, <2>4 DEF KeptLayersStandForTheInputs, StandsFor, Readable
  <2>9. Recorded'
    <3>1. \A l \in Layers : l >= me.layer + 1 => l >= me.layer
      BY <2>2 DEF IsWritingPass, Layers
    <3> QED BY <2>1, <2>2, <2>3, <2>4, <3>1 DEF RecordsStandForTheInputs, StandsFor
  <2>10. Overlap'
    BY <2>1, <2>2, <2>3, <2>4 DEF OverlappingPassesAgree, Active
  <2> QED BY <2>7, <2>8, <2>9, <2>10
<1>6. ASSUME ReplaceRaw
      PROVE  Manifests' /\ Kept' /\ Recorded' /\ Overlap'
  <2>1. raw \in Nat /\ raw' = raw + 1 /\ UNCHANGED <<product, manifest, pass>>
    BY <1>6 DEF ReplaceRaw, TypeOK, RawVersions
  <2>2. \A r \in 0 .. raw : r \in 0 .. raw' /\ r # raw'
    BY <2>1
  <2>3. \A p \in Passes : Active(p) => pass[p].raw # raw' /\ pass[p].raw <= raw'
    <3>1. \A p \in Passes : Active(p) => pass[p].raw \in Nat /\ pass[p].raw <= raw
      BY PassStates DEF OverlappingPassesAgree, RawVersions
    <3> QED BY <2>1, <3>1
  <2>4. Manifests'
    BY <2>1, <2>2 DEF ManifestsStandForTheirFingerprint, StandsFor
  <2>5. Kept' /\ Recorded'
    BY <2>1, <2>3
       DEF KeptLayersStandForTheInputs, RecordsStandForTheInputs, StandsFor, Active
  <2>6. Overlap'
    BY <2>1, <2>3 DEF OverlappingPassesAgree, Active
  <2> QED BY <2>4, <2>5, <2>6
<1>7. ASSUME EditDefinition
      PROVE  Manifests' /\ Kept' /\ Recorded' /\ Overlap'
  BY <1>7 DEF EditDefinition, ManifestsStandForTheirFingerprint, StandsFor, Readable,
     KeptLayersStandForTheInputs, RecordsStandForTheInputs, OverlappingPassesAgree, Active
<1>8. ASSUME NEW l \in Layers, DamageProduct(l)
      PROVE  Manifests' /\ Kept' /\ Recorded' /\ Overlap'
  <2>1. UNCHANGED <<raw, manifest, pass>>
    BY <1>8 DEF DamageProduct
  <2>2. \A k \in Layers : product'[k] = product[k] \/ product'[k] \in {NoFile, Garbage}
    BY <1>8 DEF DamageProduct, TypeOK, IsFunctionOn
  <2>3. Kept'
    BY <2>1, <2>2 DEF KeptLayersStandForTheInputs, StandsFor, Readable
  <2> QED
    BY <2>1, <2>3 DEF ManifestsStandForTheirFingerprint, StandsFor,
       RecordsStandForTheInputs, OverlappingPassesAgree, Active
<1>9. ASSUME NEW l \in Layers, LoseManifest(l)
      PROVE  Manifests' /\ Kept' /\ Recorded' /\ Overlap'
  <2>1. UNCHANGED <<raw, product, pass>>
    BY <1>9 DEF LoseManifest
  <2>2. \A k \in Layers : manifest'[k] = manifest[k] \/ manifest'[k] = NoFile
    BY <1>9 DEF LoseManifest, TypeOK, IsFunctionOn
  <2>3. Manifests'
    BY <2>1, <2>2 DEF ManifestsStandForTheirFingerprint, StandsFor
  <2> QED
    BY <2>1, <2>3 DEF KeptLayersStandForTheInputs, StandsFor, Readable,
       RecordsStandForTheInputs, OverlappingPassesAgree, Active
<1>10. ASSUME NEW p \in Passes, Kill(p)
       PROVE  Manifests' /\ Kept' /\ Recorded' /\ Overlap'
  <2>1. UNCHANGED <<raw, product, manifest>>
    BY <1>10 DEF Kill
  <2>2. \A q \in Passes : pass'[q] = pass[q] \/ pass'[q].pc = "idle"
    BY <1>10 DEF Kill, TypeOK, IsFunctionOn, Idle
  <2> QED
    BY <2>1, <2>2 DEF ManifestsStandForTheirFingerprint, StandsFor, Readable,
       KeptLayersStandForTheInputs, RecordsStandForTheInputs, OverlappingPassesAgree, Active
<1>11. ASSUME UNCHANGED vars
       PROVE  Manifests' /\ Kept' /\ Recorded' /\ Overlap'
  BY <1>11 DEF vars, ManifestsStandForTheirFingerprint, StandsFor, Readable,
     KeptLayersStandForTheInputs, RecordsStandForTheInputs, OverlappingPassesAgree, Active
<1> HIDE DEF Manifests, Kept, Recorded, Overlap
<1>12. Manifests' /\ Kept' /\ Recorded' /\ Overlap'
  BY <1>1, <1>2, <1>3, <1>4, <1>5, <1>6, <1>7, <1>8, <1>9, <1>10, <1>11
     DEF Next, Step, Environment
<1> QED
  BY <1>12 DEF Manifests, Kept, Recorded, Overlap

\* Every step keeps the invariant.
LEMMA ReuseStep ==
    ASSUME ReuseInvariant, [Next]_vars
    PROVE  ReuseInvariant'
<1>1. TypeOK'
  BY TypeStep DEF ReuseInvariant
<1>2. ASSUME ~crossed'
      PROVE  /\ ManifestsStandForTheirFingerprint'
             /\ KeptLayersStandForTheInputs'
             /\ RecordsStandForTheInputs'
             /\ OverlappingPassesAgree'
  <2>1. ~crossed
    BY <1>2, CrossingIsForEver DEF ReuseInvariant
  <2> QED BY <1>2, <2>1, UncrossedStep DEF ReuseInvariant
<1> QED BY <1>1, <1>2 DEF ReuseInvariant

\* Whatever passes die, whatever is damaged and edited: every manifest and every
\* running pass stands for the inputs it claims, until passes of different
\* inputs overlap.
THEOREM ReuseInvariantHolds == Spec => []ReuseInvariant
BY ReuseInit, ReuseStep, PTL DEF Spec

\* A layer that _layer_is_reusable accepts is, up to feature scaling, what a
\* rebuild from the present raw data under the present definitions gives, as long
\* as no passes of different inputs have overlapped.
THEOREM ReuseIsAlwaysSound == Spec => []ReuseIsSound
<1>1. ReuseInvariant => ReuseIsSound
  BY ReusableLayerStandsForInputs DEF ReuseInvariant, ReuseIsSound, StandsFor
<1> QED BY <1>1, ReuseInvariantHolds, PTL

-----------------------------------------------------------------------------
(***************************************************************************)
(* Exact reuse, when no edit changes the split behind the scaling.         *)
(***************************************************************************)

\* The type of a prepared product names the split it was scaled with: with one split
\* definition, agreement up to scaling is agreement.
LEMMA AgreementIsExact ==
    ASSUME SplitsAreFixed, TypeOK, NEW l \in Layers, NEW c \in Content(l), NEW r,
           AgreeUpToScaling(l, c, Rebuilt(l, r, definition))
    PROVE  c = Rebuilt(l, r, definition)
<1>1. CASE l = Prepared
  <2>1. c \in PreparedContent /\ Rebuilt(l, r, definition) = PreparedOf(r, definition)
    BY <1>1, ContentOfEachLayer, RebuiltOfEachLayer, LayerNumbers
  <2>2. c.scaler = definition.splits
    BY <2>1 DEF PreparedContent, SplitsAreFixed, TypeOK
  <2>3. c.epochs = PreparedOf(r, definition).epochs
    BY <1>1, <2>1 DEF AgreeUpToScaling
  <2>4. c = [epochs |-> c.epochs, scaler |-> c.scaler]
    BY <2>1 DEF PreparedContent
  <2> QED BY <2>1, <2>2, <2>3, <2>4 DEF PreparedOf
<1>2. CASE l # Prepared
  BY <1>2 DEF AgreeUpToScaling
<1> QED BY <1>1, <1>2

\* A reusable product is a content of its layer, and the one a rebuild gives.
LEMMA ReusableIsRebuilt ==
    ASSUME SplitsAreFixed, ReuseInvariant, ~crossed, NEW l \in Layers,
           LayerIsReusable(l, raw, definition)
    PROVE  product[l] = Rebuilt(l, raw, definition)
<1>1. product[l] \in Content(l)
  <2>1. manifest[l] \in [fingerprint: Fingerprint(l), digest: Content(l)]
    BY DEF LayerIsReusable, ReuseInvariant, TypeOK
  <2> QED BY <2>1 DEF LayerIsReusable
<1>2. AgreeUpToScaling(l, product[l], Rebuilt(l, raw, definition))
  BY ReusableLayerStandsForInputs DEF ReuseInvariant, StandsFor
<1> QED BY <1>1, <1>2, AgreementIsExact DEF ReuseInvariant

\* With one definition of the split, a layer that is kept is byte for byte what
\* `preprocess --overwrite` would produce.
THEOREM ReuseIsAlwaysExact ==
    ASSUME SplitsAreFixed
    PROVE  Spec => []ReuseIsExact
<1>1. ReuseInvariant => ReuseIsExact
  BY ReusableIsRebuilt DEF ReuseIsExact
<1> QED BY <1>1, ReuseInvariantHolds, PTL

\* Only the pass itself moves on from its product to the manifest, by writing it.
LEMMA OnlyWriteProductMovesOn ==
    ASSUME TypeOK, [Next]_vars, NEW p \in Passes,
           pass[p].pc = "product", pass'[p].pc = "manifest"
    PROVE  WriteProduct(p)
<1>1. pass'[p] # pass[p] /\ pass'[p].pc # "idle"
  OBVIOUS
<1>2. ASSUME NEW q \in Passes, NEW overwrite \in BOOLEAN, StartPass(q, overwrite)
      PROVE  FALSE
  <2>1. pass'[p] = pass[p] \/ pass'[p].pc = "checking"
    BY <1>2 DEF StartPass, TypeOK, IsFunctionOn
  <2> QED BY <1>1, <2>1
<1>3. ASSUME NEW q \in Passes, Step(q), q # p
      PROVE  FALSE
  <2>1. pass'[p] = pass[p]
    BY <1>3 DEF Step, CheckLayer, Resolve, WriteProduct, WriteManifest, TypeOK, IsFunctionOn
  <2> QED BY <1>1, <2>1
<1>4. ~CheckLayer(p) /\ ~Resolve(p) /\ ~WriteManifest(p)
  BY DEF CheckLayer, Resolve, WriteManifest
<1>5. ASSUME NEW q \in Passes, Kill(q)
      PROVE  FALSE
  <2>1. pass'[p] = pass[p] \/ pass'[p].pc = "idle"
    BY <1>5 DEF Kill, TypeOK, IsFunctionOn, Idle
  <2> QED BY <1>1, <2>1
<1>6. pass' # pass
  BY <1>1
<1>7. ~ReplaceRaw /\ ~EditDefinition /\ ~UNCHANGED vars
  BY <1>6 DEF ReplaceRaw, EditDefinition, vars
<1>8. \A l \in Layers : ~DamageProduct(l) /\ ~LoseManifest(l)
  BY <1>6 DEF DamageProduct, LoseManifest
<1> QED BY <1>2, <1>3, <1>4, <1>5, <1>7, <1>8 DEF Next, Environment, Step

\* With one definition of the split, a pass with the present inputs that rewrites a
\* reusable product writes the bytes that are already there.
LEMMA RewritesAreIdentical ==
    ASSUME SplitsAreFixed, ReuseInvariant, ~crossed, [Next]_vars, NEW p \in Passes,
           pass[p].pc = "product", pass'[p].pc = "manifest",
           pass[p].raw = raw, pass[p].definition = definition,
           LayerIsReusable(pass[p].layer, raw, definition)
    PROVE  product'[pass[p].layer] = product[pass[p].layer]
<1> DEFINE me == pass[p]
           l == me.layer
<1>1. IsWritingPass(me) /\ l \in Layers /\ me.records[l] \in Content(l)
  BY PassStates DEF ReuseInvariant, IsWritingPass
<1>2. product'[l] = me.records[l]
  <2>1. WriteProduct(p)
    BY OnlyWriteProductMovesOn DEF ReuseInvariant
  <2> QED BY <1>1, <2>1 DEF WriteProduct, ReuseInvariant, TypeOK, IsFunctionOn
<1>3. AgreeUpToScaling(l, me.records[l], Rebuilt(l, raw, definition))
  <2>1. l >= l
    BY <1>1 DEF Layers
  <2> QED BY <1>1, <2>1 DEF ReuseInvariant, RecordsStandForTheInputs, StandsFor
<1>4. me.records[l] = Rebuilt(l, raw, definition)
  BY <1>1, <1>3, AgreementIsExact DEF ReuseInvariant
<1>5. product[l] = Rebuilt(l, raw, definition)
  BY <1>1, ReusableIsRebuilt
<1> QED BY <1>2, <1>4, <1>5

\* Artifacts derived from a product hash its file: a rewrite of a reusable product by a
\* pass with the present inputs leaves them compatible.
THEOREM ReusableBytesAreAlwaysKept ==
    ASSUME SplitsAreFixed
    PROVE  Spec => ReusableBytesAreKept
<1>1. ReuseInvariant /\ [Next]_vars =>
        [\A p \in Passes :
            LET l == pass[p].layer
            IN  /\ ~crossed
                /\ pass[p].pc = "product"
                /\ pass'[p].pc = "manifest"
                /\ pass[p].raw = raw
                /\ pass[p].definition = definition
                /\ LayerIsReusable(l, raw, definition)
                => product'[l] = product[l]]_vars
  BY RewritesAreIdentical
<1> QED BY <1>1, ReuseInvariantHolds, PTL DEF Spec, ReusableBytesAreKept

-----------------------------------------------------------------------------
(***************************************************************************)
(* The scalability harness: facts about the parts of its state.            *)
(***************************************************************************)

\* The cell of a running command is a cell.
LEMMA CellIsACell ==
    ASSUME command \in Running
    PROVE  /\ Cell = <<command.count, command.seed>> /\ Cell \in Cells
           /\ command.count \in Nat /\ command.seed \in Nat
           /\ command.seed \in 1 .. Len(Seeds) /\ command.count \in 1 .. Len(ClientCounts)
  BY ScalabilityAssumption DEF Running, Cell, Cells

\* A command that is past "idle" is a running one.
LEMMA RunningUnlessIdle ==
    ASSUME HarnessTypeOK, command.pc # "idle"
    PROVE  command \in Running
  BY DEF HarnessTypeOK, NoCommand
-----------------------------------------------------------------------------
(***************************************************************************)
(* The initial states.                                                     *)
(***************************************************************************)
\* The invariant holds before anything was measured.
LEMMA HarnessInitEstablishes ==
    HarnessInit => HarnessTypeOK /\ HarnessInvariant
<1> SUFFICES ASSUME HarnessInit PROVE HarnessTypeOK /\ HarnessInvariant
  OBVIOUS
<1>1. HarnessTypeOK
  BY ScalabilityAssumption DEF HarnessInit, HarnessTypeOK, Cells
<1>2. command.pc = "idle"
  BY DEF HarnessInit, NoCommand
<1>3. EnvironmentIsFixed /\ CollectionIsCurrent /\ MeasurementIsKept /\ AggregatesAreWhole
  BY <1>2 DEF HarnessInit, EnvironmentIsFixed, CollectionIsCurrent, MeasurementIsKept, AggregatesAreWhole
<1> QED BY <1>1, <1>3 DEF HarnessInvariant

-----------------------------------------------------------------------------
(***************************************************************************)
(* The steps of a command.                                                 *)
(***************************************************************************)

\* Collecting the measurements of a seed moves on to the next seed, or to the aggregate
\* after the last.
LEMMA CollectMovesOn ==
    ASSUME command \in Running, command.pc \in {"seed", "cell"}, HasCollected(command.seed - 1),
           NEW p \in Payloads, Collect(p)
    PROVE  /\ command' \in Running
           /\ command'.count = command.count /\ command'.of = command.of /\ command'.on = command.on
           /\ command'.collected \in Seq(Payloads) /\ Len(command'.collected) = command.seed
           /\ \A i \in 1 .. command.seed - 1 : command'.collected[i] = command.collected[i]
           /\ command'.collected[command.seed] = p
           /\ \/ command.seed < Len(Seeds) /\ command'.pc = "seed" /\ command'.seed = command.seed + 1
              \/ command.seed = Len(Seeds) /\ command'.pc = "aggregate" /\ command'.seed = command.seed
<1>1. /\ command.seed \in Nat \ {0} /\ command.seed <= Len(Seeds) /\ Len(Seeds) \in Nat
      /\ command.seed + 1 \in Nat /\ command.seed - 1 \in Nat /\ (command.seed - 1) + 1 = command.seed
      /\ DOMAIN Seeds = 1 .. Len(Seeds)
  BY ScalabilityAssumption DEF Running
<1> DEFINE next == Append(command.collected, p)
<1>2. /\ next \in Seq(Payloads) /\ Len(next) = command.seed
      /\ \A i \in 1 .. command.seed - 1 : next[i] = command.collected[i]
      /\ next[command.seed] = p
  <2>1. command.collected \in Seq(Payloads) /\ Len(command.collected) = command.seed - 1
    BY DEF HasCollected
  <2> QED BY <1>1, <2>1, AppendProperties
<1>3. next \in UNION {[1 .. n -> Payloads] : n \in 0 .. Len(Seeds)}
  <2>1. next \in [1 .. command.seed -> Payloads]
    BY <1>2, LenProperties
  <2> QED BY <1>1, <2>1
<1> HIDE DEF next
<1>4. command' = [command EXCEPT
          !.pc = IF command.seed < Len(Seeds) THEN "seed" ELSE "aggregate",
          !.seed = IF command.seed < Len(Seeds) THEN command.seed + 1 ELSE command.seed,
          !.collected = next]
  BY DEF Collect, next
<1>5. /\ command' = [pc |-> IF command.seed < Len(Seeds) THEN "seed" ELSE "aggregate",
                     count |-> command.count,
                     seed |-> IF command.seed < Len(Seeds) THEN command.seed + 1 ELSE command.seed,
                     collected |-> next, of |-> command.of, on |-> command.on]
      /\ command.count \in DOMAIN ClientCounts /\ command.of \in Intentions /\ command.on \in Machines
  BY <1>4 DEF Running
<1>6. command' \in Running
  <2>1. (IF command.seed < Len(Seeds) THEN command.seed + 1 ELSE command.seed) \in DOMAIN Seeds
    BY <1>1
  <2> QED BY <1>3, <1>5, <2>1 DEF Running
<1> QED BY <1>1, <1>2, <1>5, <1>6

\* Every step of a command leads to a state of the right type.
LEMMA CommandStepsAreTyped ==
    ASSUME HarnessTypeOK, HarnessInvariant, Progress
    PROVE  HarnessTypeOK'
<1>1. CASE CheckEnvironment
  <2>1. command \in Running
    BY <1>1, RunningUnlessIdle DEF CheckEnvironment
  <2>2. [command EXCEPT !.pc = "seed"] \in Running
    BY <2>1 DEF Running
  <2>3. command' = NoCommand \/ command' \in Running
    BY <1>1, <2>2 DEF CheckEnvironment
  <2>4. environment' \in Machines \cup {None}
    BY <1>1, <2>1 DEF CheckEnvironment, HarnessTypeOK, Running
  <2> QED BY <1>1, <2>3, <2>4 DEF CheckEnvironment, HarnessTypeOK
<1>2. CASE ReuseSeed
  <2>1. command \in Running /\ command.pc = "seed"
    BY <1>2, RunningUnlessIdle DEF ReuseSeed
  <2>2. HasCollected(command.seed - 1)
    BY <2>1 DEF HarnessInvariant, CollectionIsCurrent
  <2>3. seedFile[Cell] \in Payloads
    BY <1>2, <2>1, CellIsACell DEF ReuseSeed, SeedIsReusable, IsIntact, HarnessTypeOK, Records
  <2>4. command' \in Running
    BY <1>2, <2>1, <2>2, <2>3, CollectMovesOn DEF ReuseSeed
  <2> QED BY <1>2, <2>4 DEF ReuseSeed, HarnessTypeOK
<1>3. CASE MeasureSeed
  <2>1. command \in Running
    BY <1>3, RunningUnlessIdle DEF MeasureSeed
  <2>2. PICK timing \in Timings : seedFile' = [seedFile EXCEPT ![Cell] =
            [material |-> command.of.material, machine |-> command.on, timing |-> timing]]
    BY <1>3 DEF MeasureSeed
  <2>3. [material |-> command.of.material, machine |-> command.on, timing |-> timing] \in Payloads
    BY <2>1 DEF Running, Payloads, Intentions
  <2>4. seedFile' \in [Cells -> Payloads \cup {None}]
    BY <2>2, <2>3 DEF HarnessTypeOK
  <2>5. [command EXCEPT !.pc = "cell"] \in Running
    BY <2>1 DEF Running
  <2> QED BY <1>3, <2>4, <2>5 DEF MeasureSeed, HarnessTypeOK
<1>4. CASE WriteCell
  <2>1. command \in Running /\ command.pc = "cell"
    BY <1>4, RunningUnlessIdle DEF WriteCell
  <2>2. HasCollected(command.seed - 1) /\ seedFile[Cell] \in Payloads
    BY <2>1 DEF HarnessInvariant, CollectionIsCurrent, MeasurementIsKept
  <2>3. command' \in Running
    BY <1>4, <2>1, <2>2, CollectMovesOn DEF WriteCell
  <2>4. [material |-> command.of.material, semantic |-> command.of.semantic,
         hash |-> seedFile[Cell]] \in Records
    BY <2>1, <2>2 DEF Running, Records, Intentions
  <2>5. cellRecord' \in [Cells -> Records \cup {None}]
    BY <1>4, <2>4 DEF WriteCell, HarnessTypeOK
  <2> QED BY <1>4, <2>3, <2>5 DEF WriteCell, HarnessTypeOK
<1>5. CASE WriteAggregate
  <2>1. command \in Running
    BY <1>5, RunningUnlessIdle DEF WriteAggregate
  <2>2. /\ Len(ClientCounts) \in Nat /\ DOMAIN ClientCounts = 1 .. Len(ClientCounts)
        /\ 1 \in DOMAIN Seeds /\ Len(Seeds) \in Nat
    BY ScalabilityAssumption
  <2>3. <<>> \in UNION {[1 .. n -> Payloads] : n \in 0 .. Len(Seeds)}
    BY <2>2
  <2>4. [command EXCEPT !.pc = "publish", !.collected = <<>>] \in Running
    BY <2>1, <2>3 DEF Running
  <2>5. command.count < Len(ClientCounts) =>
            [command EXCEPT !.pc = "seed", !.count = command.count + 1, !.seed = 1,
                            !.collected = <<>>] \in Running
    <3>1. command.count < Len(ClientCounts) => command.count + 1 \in DOMAIN ClientCounts
      BY <2>1, <2>2 DEF Running
    <3>2. \A k \in DOMAIN ClientCounts :
              [command EXCEPT !.pc = "seed", !.count = k, !.seed = 1, !.collected = <<>>] \in Running
      BY <2>1, <2>2, <2>3 DEF Running
    <3> QED BY <3>1, <3>2
  <2>6. command' \in Running
    BY <1>5, <2>4, <2>5 DEF WriteAggregate
  <2>7. DOMAIN aggregate' = DOMAIN ClientCounts
    BY <1>5 DEF WriteAggregate, HarnessTypeOK
  <2> QED BY <1>5, <2>6, <2>7 DEF WriteAggregate, HarnessTypeOK
<1>6. CASE Publish
  <2>1. command.of \in Intentions
    BY <1>6, RunningUnlessIdle DEF Publish, Running
  <2> QED BY <1>6, <2>1 DEF Publish, HarnessTypeOK
<1> QED BY <1>1, <1>2, <1>3, <1>4, <1>5, <1>6 DEF Progress

\* So does every step from the outset or from outside.
LEMMA OtherStepsAreTyped ==
    ASSUME HarnessTypeOK,
           \/ \E overwrite \in BOOLEAN : Start(overwrite)
           \/ KillCommand \/ Edit \/ Move \/ LoseSeedFile \/ UNCHANGED harnessVars
    PROVE  HarnessTypeOK'
<1>1. CASE \E overwrite \in BOOLEAN : Start(overwrite)
  <2>1. <<>> \in UNION {[1 .. n -> Payloads] : n \in 0 .. Len(Seeds)}
    BY ScalabilityAssumption
  <2>2. 1 \in DOMAIN ClientCounts /\ 1 \in DOMAIN Seeds
    BY ScalabilityAssumption
  <2>3. [pc |-> "environment", count |-> 1, seed |-> 1, collected |-> <<>>,
         of |-> intended, on |-> machine] \in Running
    BY <2>1, <2>2 DEF HarnessTypeOK, Running
  <2> QED BY <1>1, <2>3 DEF Start, HarnessTypeOK
<1>2. Upset => upsets' \in 0 .. MaxUpsets
  BY ScalabilityAssumption DEF HarnessTypeOK, Upset
<1>3. CASE KillCommand
  BY <1>2, <1>3 DEF KillCommand, Upset, HarnessTypeOK
<1>4. CASE Edit
  BY <1>2, <1>4 DEF Edit, Upset, HarnessTypeOK
<1>5. CASE Move
  BY <1>2, <1>5 DEF Move, Upset, HarnessTypeOK
<1>6. CASE LoseSeedFile
  <2>1. seedFile' \in [Cells -> Payloads \cup {None}]
    BY <1>6 DEF LoseSeedFile, HarnessTypeOK
  <2> QED BY <1>2, <1>6, <2>1 DEF LoseSeedFile, Upset, HarnessTypeOK
<1>7. CASE UNCHANGED harnessVars
  BY <1>7 DEF harnessVars, HarnessTypeOK
<1> QED BY <1>1, <1>3, <1>4, <1>5, <1>6, <1>7
-----------------------------------------------------------------------------
(***************************************************************************)
(* The invariant.                                                          *)
(***************************************************************************)

\* What a state without a command has to satisfy.
LEMMA IdleStates ==
    ASSUME HarnessTypeOK, HarnessInvariant, command' = NoCommand,
           \A c \in Cells : seedFile'[c] \in {seedFile[c], None}, UNCHANGED cellRecord,
           environment' = environment \/ environment = None
    PROVE  HarnessInvariant'
<1>1. command'.pc = "idle"
  BY DEF NoCommand
<1>2. EnvironmentIsFixed'
  BY <1>1 DEF HarnessInvariant, EnvironmentIsFixed
<1>3. MeasurementIsKept'
  BY <1>1 DEF HarnessInvariant, MeasurementIsKept
<1>4. CollectionIsCurrent' /\ AggregatesAreWhole'
  BY <1>1 DEF CollectionIsCurrent, AggregatesAreWhole
<1> QED BY <1>2, <1>3, <1>4 DEF HarnessInvariant

\* What happens outside leaves what a command works on alone, or ends the command.
LEMMA OutsideKeepsInvariant ==
    ASSUME HarnessTypeOK, HarnessInvariant, KillCommand \/ Edit \/ Move \/ LoseSeedFile \/ UNCHANGED harnessVars
    PROVE  HarnessInvariant'
<1>1. CASE KillCommand
  BY <1>1, IdleStates DEF KillCommand, Upset
<1>2. CASE LoseSeedFile
  <2>1. \A c \in Cells : seedFile'[c] \in {seedFile[c], None}
    BY <1>2 DEF LoseSeedFile, HarnessTypeOK
  <2> QED BY <1>2, <2>1, IdleStates DEF LoseSeedFile, Upset
<1>3. CASE Edit \/ Move \/ UNCHANGED harnessVars
  <2>1. UNCHANGED <<environment, seedFile, cellRecord, aggregate, command>>
    BY <1>3 DEF Edit, Move, Upset, harnessVars
  <2> QED BY <2>1 DEF HarnessInvariant, EnvironmentIsFixed, CollectionIsCurrent, MeasurementIsKept,
                      AggregatesAreWhole, HasCollected, IsWhole, Cell
<1> QED BY <1>1, <1>2, <1>3

\* A command begins with nothing, and goes on only in the environment on record.
LEMMA BeginningKeepsInvariant ==
    ASSUME HarnessTypeOK, HarnessInvariant, (\E overwrite \in BOOLEAN : Start(overwrite)) \/ CheckEnvironment
    PROVE  HarnessInvariant'
<1>1. \A k \in DOMAIN ClientCounts : ~(k < 1)
  BY ScalabilityAssumption
<1>2. CASE \E overwrite \in BOOLEAN : Start(overwrite)
  <2>1. /\ command'.pc = "environment" /\ command'.count = 1 /\ command'.seed = 1
        /\ command'.collected = <<>>
    BY <1>2 DEF Start
  <2>2. HasCollected(0)'
    BY <2>1 DEF HasCollected
  <2>3. CollectionIsCurrent'
    BY <2>1, <2>2 DEF CollectionIsCurrent
  <2>4. UNCHANGED <<environment, seedFile, cellRecord>>
    BY <1>2 DEF Start
  <2>5. EnvironmentIsFixed' /\ MeasurementIsKept' /\ AggregatesAreWhole'
    BY <1>1, <2>1, <2>4
    DEF HarnessInvariant, EnvironmentIsFixed, MeasurementIsKept, AggregatesAreWhole
  <2> QED BY <2>3, <2>5 DEF HarnessInvariant
<1>3. CASE CheckEnvironment
  <2>1. command \in Running /\ command.pc = "environment"
    BY <1>3, RunningUnlessIdle DEF CheckEnvironment
  <2>2. UNCHANGED <<seedFile, cellRecord, aggregate>>
    BY <1>3 DEF CheckEnvironment
  <2>3. environment' = environment \/ environment = None
    BY <1>3 DEF CheckEnvironment
  <2>4. CASE command' = NoCommand
    BY <2>2, <2>3, <2>4, IdleStates
  <2>5. CASE environment' = command.on /\ command' = [command EXCEPT !.pc = "seed"]
    <3>1. /\ command'.pc = "seed" /\ command'.count = 1 /\ command'.seed = 1
          /\ command'.on = command.on /\ command'.of = command.of
          /\ command'.collected = command.collected
      BY <2>1, <2>5 DEF HarnessInvariant, CollectionIsCurrent, Running
    <3>2. HasCollected(0)
      BY <2>1 DEF HarnessInvariant, CollectionIsCurrent
    <3>3. HasCollected(0)'
      BY <3>1, <3>2 DEF HasCollected
    <3>4. CollectionIsCurrent'
      BY <3>1, <3>3 DEF CollectionIsCurrent
    <3>5. command.on # None
      BY <2>1, ScalabilityAssumption DEF Running
    <3>6. EnvironmentIsFixed'
      BY <2>2, <2>3, <2>5, <3>1, <3>5 DEF HarnessInvariant, EnvironmentIsFixed
    <3>7. MeasurementIsKept' /\ AggregatesAreWhole'
      BY <1>1, <2>2, <3>1 DEF HarnessInvariant, MeasurementIsKept, AggregatesAreWhole
    <3> QED BY <3>4, <3>6, <3>7 DEF HarnessInvariant
  <2> QED BY <1>3, <2>4, <2>5 DEF CheckEnvironment
<1> QED BY <1>2, <1>3

\* Collecting the measurements in the file of a seed keeps the invariant.
LEMMA CollectingKeepsInvariant ==
    ASSUME HarnessTypeOK, HarnessInvariant, command.pc \in {"seed", "cell"},
           seedFile[Cell] \in Payloads, seedFile[Cell].material = command.of.material,
           Collect(seedFile[Cell]), UNCHANGED <<environment, seedFile, aggregate>>
    PROVE  EnvironmentIsFixed' /\ CollectionIsCurrent' /\ AggregatesAreWhole' /\ command'.pc # "cell"
<1>1. command \in Running /\ HasCollected(command.seed - 1)
  BY RunningUnlessIdle DEF HarnessInvariant, CollectionIsCurrent
<1> DEFINE p == seedFile[Cell]
<1>2. /\ command' \in Running
      /\ command'.count = command.count /\ command'.of = command.of /\ command'.on = command.on
      /\ command'.collected \in Seq(Payloads) /\ Len(command'.collected) = command.seed
      /\ \A i \in 1 .. command.seed - 1 : command'.collected[i] = command.collected[i]
      /\ command'.collected[command.seed] = p
      /\ \/ command.seed < Len(Seeds) /\ command'.pc = "seed" /\ command'.seed = command.seed + 1
         \/ command.seed = Len(Seeds) /\ command'.pc = "aggregate" /\ command'.seed = command.seed
  BY <1>1, CollectMovesOn
<1>3. command.seed \in Nat /\ Cell = <<command.count, command.seed>>
  BY <1>1, CellIsACell
<1>4. ASSUME NEW n, n = command.seed PROVE HasCollected(n)'
  <2> SUFFICES ASSUME NEW s \in 1 .. n
               PROVE  /\ command'.collected[s] = seedFile[<<command.count, s>>]
                      /\ command'.collected[s].material = command.of.material
    BY <1>2, <1>4 DEF HasCollected
  <2>1. CASE s = command.seed
    BY <1>2, <1>3, <2>1
  <2>2. CASE s # command.seed
    <3>1. s \in 1 .. command.seed - 1
      BY <1>3, <1>4, <2>2
    <3> QED BY <1>1, <1>2, <3>1 DEF HasCollected
  <2> QED BY <2>1, <2>2
<1>5. CollectionIsCurrent'
  <2>1. \A n : n = command.seed => HasCollected(n)'
    BY <1>4
  <2>2. CASE command'.pc = "seed"
    <3>1. command'.seed - 1 = command.seed
      BY <1>2, <1>3, <2>2
    <3>2. HasCollected(command.seed - 1)'
      BY <2>1, <3>1
    <3> QED BY <2>2, <3>2 DEF CollectionIsCurrent
  <2>3. CASE command'.pc = "aggregate"
    <3>1. HasCollected(Len(Seeds))'
      BY <1>2, <2>1, <2>3
    <3> QED BY <2>3, <3>1 DEF CollectionIsCurrent
  <2> QED BY <1>2, <2>2, <2>3
<1>6. EnvironmentIsFixed'
  BY <1>2 DEF HarnessInvariant, EnvironmentIsFixed
<1>7. AggregatesAreWhole'
  <2>1. \A k \in DOMAIN ClientCounts : k < command.count => IsWhole(k)
    BY DEF HarnessInvariant, AggregatesAreWhole
  <2> QED BY <1>2, <2>1 DEF AggregatesAreWhole, IsWhole
<1> QED BY <1>2, <1>5, <1>6, <1>7

\* A seed that is reused is collected as its file holds it.
LEMMA ReuseKeepsInvariant ==
    ASSUME HarnessTypeOK, HarnessInvariant, ReuseSeed
    PROVE  HarnessInvariant'
<1>1. command \in Running /\ command.pc = "seed"
  BY RunningUnlessIdle DEF ReuseSeed
<1>2. Cell \in Cells
  BY <1>1, CellIsACell
<1>3. /\ seedFile[Cell] = cellRecord[Cell].hash /\ cellRecord[Cell] # None
      /\ cellRecord[Cell].material = command.of.material
  BY DEF ReuseSeed, SeedIsReusable, IsIntact
<1>4. seedFile[Cell] \in Payloads
  BY <1>2, <1>3 DEF HarnessTypeOK, Records
<1>5. seedFile[Cell].material = command.of.material
  BY <1>2, <1>3 DEF HarnessInvariant, MeasurementIsKept
<1>6. EnvironmentIsFixed' /\ CollectionIsCurrent' /\ AggregatesAreWhole' /\ command'.pc # "cell"
  BY <1>1, <1>4, <1>5, CollectingKeepsInvariant DEF ReuseSeed
<1>7. MeasurementIsKept'
  BY <1>6 DEF ReuseSeed, HarnessInvariant, MeasurementIsKept
<1> QED BY <1>6, <1>7 DEF HarnessInvariant

\* A seed that was measured is recorded and collected.
LEMMA WriteCellKeepsInvariant ==
    ASSUME HarnessTypeOK, HarnessInvariant, WriteCell
    PROVE  HarnessInvariant'
<1>1. command \in Running /\ command.pc = "cell"
  BY RunningUnlessIdle DEF WriteCell
<1>2. seedFile[Cell] \in Payloads /\ seedFile[Cell].material = command.of.material
  BY <1>1 DEF HarnessInvariant, MeasurementIsKept
<1>3. EnvironmentIsFixed' /\ CollectionIsCurrent' /\ AggregatesAreWhole' /\ command'.pc # "cell"
  BY <1>1, <1>2, CollectingKeepsInvariant DEF WriteCell
<1>4. ASSUME NEW c \in Cells, cellRecord'[c] # None
      PROVE  cellRecord'[c].hash.material = cellRecord'[c].material
  <2>1. CASE c = Cell
    <3>1. cellRecord'[c] = [material |-> command.of.material, semantic |-> command.of.semantic,
                            hash |-> seedFile[Cell]]
      BY <2>1 DEF WriteCell, HarnessTypeOK
    <3> QED BY <1>2, <3>1
  <2>2. CASE c # Cell
    <3>1. cellRecord'[c] = cellRecord[c]
      BY <2>2 DEF WriteCell, HarnessTypeOK
    <3> QED BY <1>4, <3>1 DEF HarnessInvariant, MeasurementIsKept
  <2> QED BY <2>1, <2>2
<1>5. MeasurementIsKept'
  BY <1>3, <1>4 DEF MeasurementIsKept
<1> QED BY <1>3, <1>5 DEF HarnessInvariant

\* A measurement replaces the file of a seed that is not collected yet.
LEMMA MeasureKeepsInvariant ==
    ASSUME HarnessTypeOK, HarnessInvariant, MeasureSeed
    PROVE  HarnessInvariant'
<1>1. command \in Running /\ command.pc = "seed"
  BY RunningUnlessIdle DEF MeasureSeed
<1>2. /\ Cell = <<command.count, command.seed>> /\ Cell \in Cells
      /\ command.count \in Nat /\ command.seed \in Nat
      /\ command.seed \in 1 .. Len(Seeds) /\ command.count \in 1 .. Len(ClientCounts)
  BY <1>1, CellIsACell
<1>3. PICK timing \in Timings : seedFile' = [seedFile EXCEPT ![Cell] =
          [material |-> command.of.material, machine |-> command.on, timing |-> timing]]
  BY DEF MeasureSeed
<1> DEFINE measured == [material |-> command.of.material, machine |-> command.on, timing |-> timing]
<1>4. measured \in Payloads
  BY <1>1 DEF Running, Payloads, Intentions
<1>5. /\ seedFile'[Cell] = measured
      /\ \A c \in Cells : c # Cell => seedFile'[c] = seedFile[c]
  BY <1>2, <1>3 DEF HarnessTypeOK
<1>6. /\ command'.pc = "cell" /\ command'.count = command.count /\ command'.seed = command.seed
      /\ command'.collected = command.collected /\ command'.of = command.of
      /\ command'.on = command.on /\ Cell' = Cell
  BY <1>1 DEF MeasureSeed, Running, Cell
<1>7. EnvironmentIsFixed'
  <2>1. environment = command.on /\ command.on # None
    BY <1>1, ScalabilityAssumption DEF HarnessInvariant, EnvironmentIsFixed, Running
  <2>2. UNCHANGED environment
    BY DEF MeasureSeed
  <2> QED BY <1>5, <1>6, <2>1, <2>2 DEF HarnessInvariant, EnvironmentIsFixed
<1>8. CollectionIsCurrent'
  <2>1. HasCollected(command.seed - 1)
    BY <1>1 DEF HarnessInvariant, CollectionIsCurrent
  <2>2. \A s \in 1 .. command.seed - 1 :
            seedFile'[<<command.count, s>>] = seedFile[<<command.count, s>>]
    <3> TAKE s \in 1 .. command.seed - 1
    <3>1. <<command.count, s>> \in Cells /\ <<command.count, s>> # Cell
      BY <1>2, ScalabilityAssumption DEF Cells
    <3> QED BY <1>5, <3>1
  <2>3. HasCollected(command.seed - 1)'
    BY <1>6, <2>1, <2>2 DEF HasCollected
  <2> QED BY <1>6, <2>3 DEF CollectionIsCurrent, HasCollected
<1>9. MeasurementIsKept'
  <2>1. UNCHANGED cellRecord
    BY DEF MeasureSeed
  <2> QED BY <1>4, <1>5, <1>6, <2>1 DEF HarnessInvariant, MeasurementIsKept
<1>10. AggregatesAreWhole'
  <2> SUFFICES ASSUME NEW k \in DOMAIN ClientCounts, k < command.count
               PROVE  IsWhole(k)'
    BY <1>6 DEF AggregatesAreWhole
  <2>1. IsWhole(k)
    BY <1>1 DEF HarnessInvariant, AggregatesAreWhole
  <2>2. \A s \in DOMAIN Seeds : seedFile'[<<k, s>>] = seedFile[<<k, s>>]
    <3> TAKE s \in DOMAIN Seeds
    <3>1. <<k, s>> \in Cells /\ <<k, s>> # Cell
      BY <1>2, ScalabilityAssumption DEF Cells
    <3> QED BY <1>5, <3>1
  <2>3. UNCHANGED aggregate
    BY DEF MeasureSeed
  <2> QED BY <1>6, <2>1, <2>2, <2>3 DEF IsWhole
<1> QED BY <1>7, <1>8, <1>9, <1>10 DEF HarnessInvariant

\* An aggregate is written when the measurements of all seeds are collected.
LEMMA AggregateKeepsInvariant ==
    ASSUME HarnessTypeOK, HarnessInvariant, WriteAggregate
    PROVE  HarnessInvariant'
<1>1. command \in Running /\ command.pc = "aggregate" /\ command.count \in 1 .. Len(ClientCounts)
      /\ command.count \in Nat
  BY RunningUnlessIdle, ScalabilityAssumption DEF WriteAggregate, Running
<1>2. UNCHANGED <<environment, seedFile, cellRecord>>
  BY DEF WriteAggregate
<1>3. /\ command'.of = command.of /\ command'.on = command.on /\ command'.collected = <<>>
      /\ \/ /\ command.count < Len(ClientCounts) /\ command'.pc = "seed"
            /\ command'.count = command.count + 1 /\ command'.seed = 1
         \/ /\ command.count = Len(ClientCounts) /\ command'.pc = "publish"
            /\ command'.count = command.count
  BY <1>1, ScalabilityAssumption DEF WriteAggregate, Running
<1>4. /\ command.collected = [s \in DOMAIN Seeds |-> seedFile[<<command.count, s>>]]
      /\ \A s \in DOMAIN Seeds : command.collected[s].material = command.of.material
  <2>1. HasCollected(Len(Seeds))
    BY <1>1 DEF HarnessInvariant, CollectionIsCurrent
  <2>2. command.collected \in [DOMAIN Seeds -> Payloads]
    BY <2>1, LenProperties, ScalabilityAssumption DEF HasCollected
  <2> QED BY <2>1, <2>2, ScalabilityAssumption DEF HasCollected
<1>5. /\ aggregate'[command.count] = command.collected
      /\ \A k \in DOMAIN ClientCounts : k # command.count => aggregate'[k] = aggregate[k]
  BY <1>1, ScalabilityAssumption DEF WriteAggregate, HarnessTypeOK
<1>6. AggregatesAreWhole'
  <2> SUFFICES ASSUME NEW k \in DOMAIN ClientCounts, k < command'.count \/ command'.pc = "publish"
               PROVE  IsWhole(k)'
    BY DEF AggregatesAreWhole
  <2>1. CASE k = command.count
    BY <1>2, <1>3, <1>4, <1>5, <2>1 DEF IsWhole
  <2>2. CASE k # command.count
    <3>1. k < command.count
      BY <1>1, <1>3, <2>2, ScalabilityAssumption
    <3>2. IsWhole(k)
      BY <1>1, <3>1 DEF HarnessInvariant, AggregatesAreWhole
    <3> QED BY <1>2, <1>3, <1>5, <2>2, <3>2 DEF IsWhole
  <2> QED BY <2>1, <2>2
<1>7. CollectionIsCurrent'
  <2>1. HasCollected(0)'
    BY <1>3 DEF HasCollected
  <2>2. command'.pc = "seed" => command'.seed - 1 = 0
    BY <1>3
  <2> QED BY <1>3, <2>1, <2>2 DEF CollectionIsCurrent, HasCollected
<1>8. EnvironmentIsFixed' /\ MeasurementIsKept'
  BY <1>1, <1>2, <1>3 DEF HarnessInvariant, EnvironmentIsFixed, MeasurementIsKept
<1> QED BY <1>6, <1>7, <1>8 DEF HarnessInvariant

\* A command that has published its run record is over.
LEMMA PublishKeepsInvariant ==
    ASSUME HarnessTypeOK, HarnessInvariant, Publish
    PROVE  HarnessInvariant'
  BY IdleStates DEF Publish
-----------------------------------------------------------------------------
(***************************************************************************)
(* The theorems.                                                           *)
(***************************************************************************)

\* The invariant holds in every reachable state: what the harness has on file is of one
\* environment, and a command has collected what the files hold, whatever happened to it.
THEOREM HarnessIsInvariant == HarnessSpec => [](HarnessTypeOK /\ HarnessInvariant)
<1>1. HarnessInit => HarnessTypeOK /\ HarnessInvariant
  BY HarnessInitEstablishes
<1>2. HarnessTypeOK /\ HarnessInvariant /\ [HarnessNext]_harnessVars => (HarnessTypeOK /\ HarnessInvariant)'
  <2> SUFFICES ASSUME HarnessTypeOK, HarnessInvariant, [HarnessNext]_harnessVars PROVE HarnessTypeOK' /\ HarnessInvariant'
    OBVIOUS
  <2>1. CASE \E overwrite \in BOOLEAN : Start(overwrite)
    BY <2>1, OtherStepsAreTyped, BeginningKeepsInvariant
  <2>2. CASE Progress
    <3>1. HarnessTypeOK'
      BY <2>2, CommandStepsAreTyped
    <3> QED BY <2>2, <3>1, BeginningKeepsInvariant, ReuseKeepsInvariant, MeasureKeepsInvariant,
               WriteCellKeepsInvariant, AggregateKeepsInvariant, PublishKeepsInvariant DEF Progress
  <2>3. CASE KillCommand \/ Edit \/ Move \/ LoseSeedFile \/ UNCHANGED harnessVars
    BY <2>3, OtherStepsAreTyped, OutsideKeepsInvariant
  <2> QED BY <2>1, <2>2, <2>3 DEF HarnessNext
<1> QED BY <1>1, <1>2, PTL DEF HarnessSpec

\* Latencies of two timing environments are never pooled: every measurement on file is of
\* the environment on record, for any interruptions and moves; and the state of the
\* harness has its type.
THEOREM EnvironmentsAreNeverMixed == HarnessSpec => []HarnessSafety
<1>1. HarnessTypeOK /\ HarnessInvariant => HarnessSafety
  BY DEF HarnessInvariant, EnvironmentIsFixed, OneTimingEnvironment, HarnessSafety
<1> QED BY <1>1, HarnessIsInvariant, PTL

\* A command publishes its run record only over aggregates of all seeds, as the files hold
\* them and under its own configuration.
THEOREM PublicationIsWhole == HarnessSpec => []PublishedAggregatesAreWhole
<1>1. HarnessTypeOK /\ HarnessInvariant => PublishedAggregatesAreWhole
  BY DEF HarnessInvariant, AggregatesAreWhole, PublishedAggregatesAreWhole
<1> QED BY <1>1, HarnessIsInvariant, PTL
=============================================================================

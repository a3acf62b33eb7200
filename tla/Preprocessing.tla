--------------------------- MODULE Preprocessing ---------------------------
(***************************************************************************)
(* The preprocessing layers of one dataset (execution/preprocessing.py).   *)
(*                                                                         *)
(* `fedcampaign preprocess` materialises five layers, each a product file  *)
(* and a manifest that records the product's content digest and the        *)
(* material fingerprint it was built for.  A later pass keeps the longest  *)
(* reusable prefix and rebuilds every layer after it.  Several passes may  *)
(* run at once, any of them may be killed between two writes, files may be *)
(* lost or damaged between passes, and the raw data and the scientific     *)
(* definitions (configuration slices and semantic versions) may change at  *)
(* any time.                                                               *)
(*                                                                         *)
(* Data is abstracted to its lineage: the content of a product is the      *)
(* record of the inputs it was really computed from, so "is this product   *)
(* what a rebuild would give" is an equation between records.              *)
(***************************************************************************)
EXTENDS Naturals, FiniteSets

CONSTANTS
    Passes,            \* names of the preprocess commands that may overlap
    Definitions,       \* the scientific definitions that may be in force
    NoFile,            \* a file that does not exist (or a manifest that does not parse)
    Garbage,           \* a product whose bytes are no longer what was written
    MaxRaw,            \* bound: how often new raw data is dropped in
    MaxDisturbances    \* bound: definition edits, lost files and killed passes

(***************************************************************************)
(* The layers, in PREPROCESSING_LAYER_ORDER.                               *)
(***************************************************************************)
Inventory == 1
Prepared == 2
Splits == 3
Partitions == 4
Campaigns == 5
Layers == 1 .. 5

\* One version per layer definition: the configuration slice and the semantic
\* dependencies that _expected_fingerprints hashes for that layer.
DefinitionRecord ==
    [prepared: Nat, splits: Nat, partitions: Nat, campaign: Nat]

ASSUME DefinitionsAssumption ==
    /\ Definitions \subseteq DefinitionRecord
    /\ Definitions # {}

ASSUME BoundsAssumption == MaxRaw \in Nat \ {0} /\ MaxDisturbances \in Nat

VARIABLES
    raw,           \* version of the raw data on disk; 0 is an empty directory
    definition,    \* the definitions a command started now would load
    product,       \* the product file of each layer
    manifest,      \* the manifest file of each layer
    pass,          \* the state of each preprocess command
    disturbances,  \* how many disturbances have happened
    crossed        \* history variable: passes of different inputs have overlapped

vars == <<raw, definition, product, manifest, pass, disturbances, crossed>>

-----------------------------------------------------------------------------
(***************************************************************************)
(* Fingerprints: what a layer declares it depends on.                      *)
(***************************************************************************)
MaterialFingerprint(own, upstream) == [definition |-> own, upstream |-> upstream]

InventoryFingerprint(r) == MaterialFingerprint(0, r)

\* Mutant: the upstream inventory is left out of the prepared fingerprint.
PreparedFingerprintWithoutUpstream(r, d) == MaterialFingerprint(d.prepared, 0)

PreparedFingerprint(r, d) ==
    MaterialFingerprint(d.prepared, InventoryFingerprint(r))

SplitFingerprint(r, d) ==
    MaterialFingerprint(d.splits, PreparedFingerprint(r, d))

PartitionFingerprint(r, d) ==
    MaterialFingerprint(d.partitions, SplitFingerprint(r, d))

CampaignFingerprint(r, d) ==
    MaterialFingerprint(d.campaign,
        <<PreparedFingerprint(r, d), SplitFingerprint(r, d), PartitionFingerprint(r, d)>>)

ExpectedFingerprint(l, r, d) ==
    CASE l = Inventory -> InventoryFingerprint(r)
      [] l = Prepared -> PreparedFingerprint(r, d)
      [] l = Splits -> SplitFingerprint(r, d)
      [] l = Partitions -> PartitionFingerprint(r, d)
      [] l = Campaigns -> CampaignFingerprint(r, d)

-----------------------------------------------------------------------------
(***************************************************************************)
(* Products: what a layer is really computed from.                         *)
(***************************************************************************)
InventoryOf(r) == [digest |-> r]

\* Epoch records are built from the raw rows and then scaled with a scaler
\* fitted on the detector-fit epochs of the split computed from them.
PreparedOf(r, d) ==
    [epochs |-> [raw |-> r, definition |-> d.prepared], scaler |-> d.splits]

SplitOf(p, d) == [epochs |-> p.epochs, definition |-> d.splits]

PartitionsOf(s, d) == [split |-> s, definition |-> d.partitions]

\* Malicious and benign epochs come from the prepared record, the clients from
\* the split record; scaled features are not read.
CampaignsOf(p, s, d) ==
    [epochs |-> p.epochs, cohort |-> s.epochs, definition |-> d.campaign]

\* What a rebuild of everything from raw data r under definitions d gives.
Rebuilt(l, r, d) ==
    LET p == PreparedOf(r, d)
        s == SplitOf(p, d)
    IN  CASE l = Inventory -> InventoryOf(r)
          [] l = Prepared -> p
          [] l = Splits -> s
          [] l = Partitions -> PartitionsOf(s, d)
          [] l = Campaigns -> CampaignsOf(p, s, d)

-----------------------------------------------------------------------------
(***************************************************************************)
(* Reuse.                                                                  *)
(***************************************************************************)
Readable(l) == product[l] \notin {NoFile, Garbage}

\* Mutant: the product's content digest is not compared with the manifest's.
LayerIsReusableWithoutDigest(l, r, d) ==
    /\ r # 0
    /\ manifest[l] # NoFile
    /\ manifest[l].fingerprint = ExpectedFingerprint(l, r, d)
    /\ product[l] # NoFile

LayerIsReusable(l, r, d) ==
    /\ r # 0
    /\ manifest[l] # NoFile
    /\ manifest[l].fingerprint = ExpectedFingerprint(l, r, d)
    /\ product[l] # NoFile
    /\ product[l] = manifest[l].digest

PrefixIsReusable(l, r, d) == \A k \in 1 .. l : LayerIsReusable(k, r, d)

-----------------------------------------------------------------------------
Idle == [pc |-> "idle"]

Active(p) == pass[p].pc # "idle"

\* No other pass that is running was started from other inputs.  The code takes
\* no lock: only the history variable asks, no guard does.
SameInputs(p) ==
    \A q \in Passes \ {p} :
        Active(q) => pass[q].definition = definition /\ pass[q].raw = raw

Init ==
    /\ raw \in 0 .. 1
    /\ definition \in Definitions
    /\ product = [l \in Layers |-> NoFile]
    /\ manifest = [l \in Layers |-> NoFile]
    /\ pass = [p \in Passes |-> Idle]
    /\ disturbances = 0
    /\ crossed = FALSE

\* The command loads the configuration and hashes the raw directory.
StartPass(p, overwrite) ==
    /\ ~Active(p)
    /\ pass' = [pass EXCEPT ![p] =
                    [pc |-> "checking", overwrite |-> overwrite, raw |-> raw,
                     definition |-> definition, layer |-> Inventory]]
    /\ crossed' = (crossed \/ ~SameInputs(p))
    /\ UNCHANGED <<raw, definition, product, manifest, disturbances>>

\* Mutant: the scan trusts a stored fingerprint and does not look at the product.
CheckLayerByManifestOnly(p) ==
    LET me == pass[p]
        keep == /\ ~me.overwrite
                /\ manifest[me.layer] # NoFile
                /\ manifest[me.layer].fingerprint =
                       ExpectedFingerprint(me.layer, me.raw, me.definition)
    IN  /\ me.pc = "checking"
        /\ pass' = [pass EXCEPT ![p] =
               IF ~keep THEN [me EXCEPT !.pc = "resolving"]
               ELSE IF me.layer = Campaigns THEN Idle
               ELSE [me EXCEPT !.layer = me.layer + 1]]
        /\ UNCHANGED <<raw, definition, product, manifest, disturbances, crossed>>

\* nearest_reconstruction_layer: the scan stops at the first layer that must
\* be rebuilt; a pass that finds none keeps everything and ends.
CheckLayer(p) ==
    LET me == pass[p]
        keep == ~me.overwrite /\ LayerIsReusable(me.layer, me.raw, me.definition)
    IN  /\ me.pc = "checking"
        /\ \/ /\ ~keep
              /\ pass' = [pass EXCEPT ![p].pc = "resolving"]
           \/ /\ keep
              /\ me.layer # Campaigns
              /\ pass' = [pass EXCEPT ![p].layer = me.layer + 1]
           \/ /\ keep
              /\ me.layer = Campaigns
              /\ pass' = [pass EXCEPT ![p] = Idle]
        /\ UNCHANGED <<raw, definition, product, manifest, disturbances, crossed>>

\* The records a pass starting at layer `start` holds in memory before it
\* writes: read from disk when they precede the start layer, else recomputed.
Materialization(start, me) ==
    LET prepared == IF start <= Prepared THEN PreparedOf(raw, me.definition)
                    ELSE product[Prepared]
        split == IF start <= Splits THEN SplitOf(prepared, me.definition)
                 ELSE product[Splits]
        partitions == IF start <= Partitions THEN PartitionsOf(split, me.definition)
                      ELSE product[Partitions]
    IN  [l \in Layers |->
            CASE l = Inventory -> InventoryOf(me.raw)
              [] l = Prepared -> prepared
              [] l = Splits -> split
              [] l = Partitions -> partitions
              [] l = Campaigns -> CampaignsOf(prepared, split, me.definition)]

\* A product that has to be read and cannot be ends the pass with an exception.
Resolve(p) ==
    LET me == pass[p]
        sources == {l \in {Prepared, Splits, Partitions} : l < me.layer}
    IN  /\ me.pc = "resolving"
        /\ IF \A l \in sources : Readable(l)
           THEN pass' = [pass EXCEPT ![p] =
                    [pc |-> "product", raw |-> me.raw, definition |-> me.definition,
                     layer |-> me.layer, records |-> Materialization(me.layer, me)]]
           ELSE pass' = [pass EXCEPT ![p] = Idle]
        /\ UNCHANGED <<raw, definition, product, manifest, disturbances, crossed>>

WriteProduct(p) ==
    LET me == pass[p]
    IN  /\ me.pc = "product"
        /\ product' = [product EXCEPT ![me.layer] = me.records[me.layer]]
        /\ pass' = [pass EXCEPT ![p].pc = "manifest"]
        /\ UNCHANGED <<raw, definition, manifest, disturbances, crossed>>

\* Mutant: the manifest is stamped with the definitions in force when it is
\* written instead of those the pass started with.
WriteManifestWithReloadedDefinition(p) ==
    LET me == pass[p]
    IN  /\ me.pc = "manifest"
        /\ manifest' = [manifest EXCEPT ![me.layer] =
               [fingerprint |-> ExpectedFingerprint(me.layer, me.raw, definition),
                digest |-> me.records[me.layer]]]
        /\ pass' = [pass EXCEPT ![p] =
               IF me.layer = Campaigns THEN Idle
               ELSE [me EXCEPT !.pc = "product", !.layer = me.layer + 1]]
        /\ UNCHANGED <<raw, definition, product, disturbances, crossed>>

\* Mutant: the pass does not end after the last layer.
WriteManifestPastTheLastLayer(p) ==
    LET me == pass[p]
    IN  /\ me.pc = "manifest"
        /\ manifest' = [manifest EXCEPT ![me.layer] =
               [fingerprint |-> ExpectedFingerprint(me.layer, me.raw, me.definition),
                digest |-> me.records[me.layer]]]
        /\ pass' = [pass EXCEPT ![p] = [me EXCEPT !.pc = "product", !.layer = me.layer + 1]]
        /\ UNCHANGED <<raw, definition, product, disturbances, crossed>>

WriteManifest(p) ==
    LET me == pass[p]
    IN  /\ me.pc = "manifest"
        /\ manifest' = [manifest EXCEPT ![me.layer] =
               [fingerprint |-> ExpectedFingerprint(me.layer, me.raw, me.definition),
                digest |-> me.records[me.layer]]]
        /\ pass' = [pass EXCEPT ![p] =
               IF me.layer = Campaigns THEN Idle
               ELSE [pc |-> "product", raw |-> me.raw, definition |-> me.definition,
                     layer |-> me.layer + 1, records |-> me.records]]
        /\ UNCHANGED <<raw, definition, product, disturbances, crossed>>

-----------------------------------------------------------------------------
(***************************************************************************)
(* The environment.                                                        *)
(***************************************************************************)
Disturb ==
    /\ disturbances < MaxDisturbances
    /\ disturbances' = disturbances + 1

\* New raw data is dropped in; raw bytes never return to an earlier version.
ReplaceRaw ==
    /\ raw < MaxRaw
    /\ raw' = raw + 1
    /\ UNCHANGED <<definition, product, manifest, pass, disturbances, crossed>>

EditDefinition ==
    /\ Disturb
    /\ definition' \in Definitions \ {definition}
    /\ UNCHANGED <<raw, product, manifest, pass, crossed>>

DamageProduct(l) ==
    /\ Disturb
    /\ product[l] # NoFile
    /\ \E damaged \in {NoFile, Garbage} : product' = [product EXCEPT ![l] = damaged]
    /\ UNCHANGED <<raw, definition, manifest, pass, crossed>>

LoseManifest(l) ==
    /\ Disturb
    /\ manifest[l] # NoFile
    /\ manifest' = [manifest EXCEPT ![l] = NoFile]
    /\ UNCHANGED <<raw, definition, product, pass, crossed>>

Kill(p) ==
    /\ Disturb
    /\ Active(p)
    /\ pass' = [pass EXCEPT ![p] = Idle]
    /\ UNCHANGED <<raw, definition, product, manifest, crossed>>

Step(p) == CheckLayer(p) \/ Resolve(p) \/ WriteProduct(p) \/ WriteManifest(p)

Environment ==
    \/ ReplaceRaw
    \/ EditDefinition
    \/ \E l \in Layers : DamageProduct(l) \/ LoseManifest(l)
    \/ \E p \in Passes : Kill(p)

Next ==
    \/ \E p \in Passes, overwrite \in BOOLEAN : StartPass(p, overwrite)
    \/ \E p \in Passes : Step(p)
    \/ Environment

Spec == Init /\ [][Next]_vars

\* A started command keeps running until it ends or is killed, and the operator
\* keeps running some of the plain commands.
Fairness(repeated) ==
    /\ \A p \in Passes : WF_vars(Step(p))
    /\ \A p \in repeated : WF_vars(StartPass(p, FALSE))
-----------------------------------------------------------------------------
(***************************************************************************)
(* Types.                                                                  *)
(***************************************************************************)
RawVersions == 0 .. MaxRaw

EpochLineage == [raw: RawVersions, definition: Nat]

SplitLineage == [epochs: EpochLineage, definition: Nat]

InventoryContent == [digest: RawVersions]
PreparedContent == [epochs: EpochLineage, scaler: {d.splits : d \in Definitions}]
PartitionContent == [split: SplitLineage, definition: Nat]
CampaignContent == [epochs: EpochLineage, cohort: EpochLineage, definition: Nat]

Content(l) ==
    CASE l = Inventory -> InventoryContent
      [] l = Prepared -> PreparedContent
      [] l = Splits -> SplitLineage
      [] l = Partitions -> PartitionContent
      [] l = Campaigns -> CampaignContent

Fingerprint(l) ==
    {ExpectedFingerprint(l, r, d) : r \in RawVersions, d \in Definitions}

CheckingPass ==
    [pc: {"checking", "resolving"}, overwrite: BOOLEAN, raw: RawVersions,
     definition: Definitions, layer: Layers]

IsFunctionOn(f, S) == f = [x \in S |-> f[x]]

\* A writing pass holds a record for every layer it has still to write.
IsWritingPass(w) ==
    /\ w = [pc |-> w.pc, raw |-> w.raw, definition |-> w.definition,
            layer |-> w.layer, records |-> w.records]
    /\ w.pc \in {"product", "manifest"}
    /\ w.raw \in RawVersions
    /\ w.definition \in Definitions
    /\ w.layer \in Layers
    /\ IsFunctionOn(w.records, Layers)
    /\ \A l \in Layers : w.records[l] \in Content(l)

\* Every file is absent, damaged or one that some pass could have written, and
\* every pass is idle, scanning or writing records of the right layers.
TypeOK ==
    /\ raw \in RawVersions
    /\ definition \in Definitions
    /\ IsFunctionOn(product, Layers)
    /\ IsFunctionOn(manifest, Layers)
    /\ IsFunctionOn(pass, Passes)
    /\ \A l \in Layers :
        /\ product[l] \in Content(l) \cup {NoFile, Garbage}
        /\ manifest[l] \in [fingerprint: Fingerprint(l), digest: Content(l)] \cup {NoFile}
    /\ \A p \in Passes :
        pass[p] = Idle \/ pass[p] \in CheckingPass \/ IsWritingPass(pass[p])
    /\ disturbances \in 0 .. MaxDisturbances
    /\ crossed \in BOOLEAN

-----------------------------------------------------------------------------
(***************************************************************************)
(* Properties.                                                             *)
(***************************************************************************)
\* Two contents of a layer agree on everything but the feature scaling.
AgreeUpToScaling(l, c, e) ==
    IF l = Prepared THEN c.epochs = e.epochs ELSE c = e

\* Whatever a pass would keep, and whatever `run` accepts as its preprocessing
\* (missing_preprocessing_layers), has the epochs, split, horizons and campaigns
\* that a rebuild from the present raw data under the present definitions would
\* give: no kill, damage, edit or overlapping pass makes _layer_is_reusable
\* accept a product of other inputs, as long as the passes that overlap were
\* started from the same inputs.  Otherwise a pass may read a layer that a pass of
\* other inputs has rewritten since it was checked, and publish what it derives from
\* it under the fingerprint of its own inputs.
ReuseIsSound ==
    ~crossed =>
        \A l \in Layers : LayerIsReusable(l, raw, definition) =>
            AgreeUpToScaling(l, product[l], Rebuilt(l, raw, definition))

(***************************************************************************)
(* Why ReuseIsSound holds: the inductive invariant.                        *)
(***************************************************************************)
\* Content c of layer l stands for raw data r and definitions d.  Once newer raw
\* data has replaced r nothing is claimed: raw data may change between the hash
\* of a pass and its read of the rows, but never back.
StandsFor(l, c, r, d) ==
    r = raw => AgreeUpToScaling(l, c, Rebuilt(l, r, d))

ManifestsStandForTheirFingerprint ==
    \A l \in Layers : manifest[l] # NoFile =>
        \E r \in 0 .. raw, d \in Definitions :
            /\ manifest[l].fingerprint = ExpectedFingerprint(l, r, d)
            /\ StandsFor(l, manifest[l].digest, r, d)

\* The layers a scanning pass has decided to keep.
KeptLayersStandForTheInputs ==
    \A p \in Passes : pass[p].pc \in {"checking", "resolving"} =>
        \A l \in Layers : l < pass[p].layer /\ Readable(l) =>
            StandsFor(l, product[l], pass[p].raw, pass[p].definition)

\* The records a writing pass has still to publish.
RecordsStandForTheInputs ==
    \A p \in Passes : pass[p].pc \in {"product", "manifest"} =>
        \A l \in Layers : l >= pass[p].layer =>
            StandsFor(l, pass[p].records[l], pass[p].raw, pass[p].definition)

OverlappingPassesAgree ==
    \A p, q \in Passes : Active(p) /\ Active(q) =>
        /\ pass[p].raw = pass[q].raw
        /\ pass[p].raw <= raw
        /\ pass[p].definition = pass[q].definition

\* The strengthening that makes ReuseIsSound inductive: it relates every
\* manifest to the inputs it claims, and every running pass to the inputs it
\* started from.
ReuseInvariant ==
    /\ TypeOK
    /\ ~crossed =>
        /\ ManifestsStandForTheirFingerprint
        /\ KeptLayersStandForTheInputs
        /\ RecordsStandForTheInputs
        /\ OverlappingPassesAgree

\* The edits leave the definition of the chronological split alone.
SplitsAreFixed == \A d, e \in Definitions : d.splits = e.splits

\* ReuseIsSound, scaling included: a layer that is kept is byte for byte what
\* `preprocess --overwrite` would produce.
ReuseIsExact ==
    ~crossed =>
        \A l \in Layers : LayerIsReusable(l, raw, definition) =>
            product[l] = Rebuilt(l, raw, definition)

\* A pass with the present inputs that rewrites a product which is still
\* reusable writes the bytes that are already there, so artifacts derived from
\* it (they hash the file) stay compatible.
ReusableBytesAreKept ==
    [][\A p \in Passes :
        LET l == pass[p].layer
        IN  /\ ~crossed
            /\ pass[p].pc = "product"
            /\ pass'[p].pc = "manifest"
            /\ pass[p].raw = raw
            /\ pass[p].definition = definition
            /\ LayerIsReusable(l, raw, definition)
            => product'[l] = product[l]]_vars

\* The files of a dataset recover by themselves: once disturbances stop, plain
\* passes bring every layer back to a reusable state and keep it there.
PreprocessingConverges ==
    <>[](raw # 0 => PrefixIsReusable(Campaigns, raw, definition))
=============================================================================

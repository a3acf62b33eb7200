---------------------------- MODULE SeedArtifacts ----------------------------
(***************************************************************************)
(* The artifacts a seed is evaluated from (experiments/                    *)
(* seed_materialization.py): detector scores, marginal ranks and the fit   *)
(* of a method, each derived from the preprocessed layers and from those   *)
(* before it.                                                              *)
(*                                                                         *)
(* A command that evaluates the seed materialises them in this order.  An  *)
(* artifact is kept when the fingerprint inside it names the present       *)
(* inputs and definitions.  Scores and fit hash their inputs before they   *)
(* read them, ranks after.  Nothing is locked: commands may overlap, the   *)
(* preprocess command may replace the layers at any moment, and each of    *)
(* them may be killed.                                                     *)
(*                                                                         *)
(* As everywhere in this project, the content of a file is what it was     *)
(* really computed from, and its hash is its content.                      *)
(***************************************************************************)
EXTENDS Naturals, FiniteSets

CONSTANTS
    Materializers,    \* the commands that evaluate the seed
    MaxDefinition,    \* bound: versions of the definitions of an artifact
    MaxVersion,       \* bound: versions of a preprocessed layer
    Retries,          \* automatic_technical_retries_after_initial_failure
    None,             \* a file that does not exist
    Garbage,          \* a file that does not parse
    MaxDisturbances   \* bound: replacements, edits, damage and kills

ASSUME ConstantsAssumption ==
    /\ IsFiniteSet(Materializers)
    /\ MaxVersion \in Nat \ {0}
    /\ MaxDefinition \in Nat \ {0}
    /\ Retries \in Nat
    /\ MaxDisturbances \in Nat
    /\ None # Garbage /\ None \notin Nat

Layers == {"prepared", "split"}
Artifacts == {"scores", "ranks", "fit"}

VARIABLES
    file,            \* the content of each file
    manifest,        \* the manifest of each artifact
    definition,      \* what a command that starts now loads, by artifact
    command,         \* the state of each command
    disturbances     \* how many disturbances have happened

vars == <<file, manifest, definition, command, disturbances>>
-----------------------------------------------------------------------------
\* The accesses of the three functions, one after the other.  "check" looks at the
\* artifact's own file; "write" and "manifest" replace it and its manifest.
Hash(f) == [op |-> "hash", on |-> f]
Read(f) == [op |-> "read", on |-> f]
Check(k) == [op |-> "check", on |-> k]
Write(k) == [op |-> "write", on |-> k]
Manifest(k) == [op |-> "manifest", on |-> k]

\* Mutant: the layers are read before they are hashed.
ScoreAccessesReadFirst ==
    <<Read("prepared"), Read("split"), Hash("prepared"), Hash("split"), Check("scores"),
      Write("scores"), Manifest("scores")>>

ScoreAccesses ==
    <<Hash("prepared"), Hash("split"), Check("scores"), Read("prepared"), Read("split"),
      Write("scores"), Manifest("scores")>>

\* Mutant: the fingerprint of the ranks leaves out the scores.
RankAccessesWithoutScores ==
    <<Read("scores"), Read("split"), Hash("split"), Check("ranks"),
      Write("ranks"), Manifest("ranks")>>

RankAccesses ==
    <<Read("scores"), Read("split"), Hash("scores"), Hash("split"), Check("ranks"),
      Write("ranks"), Manifest("ranks")>>

FitAccesses ==
    <<Hash("scores"), Hash("ranks"), Hash("split"), Check("fit"),
      Read("scores"), Read("ranks"), Read("split"), Write("fit"), Manifest("fit")>>

Accesses == [scores |-> ScoreAccesses, ranks |-> RankAccesses, fit |-> FitAccesses]

Inputs(k) ==
    CASE k = "scores" -> {"prepared", "split"}
      [] k = "ranks" -> {"scores", "split"}
      [] k = "fit" -> {"scores", "ranks", "split"}

\* The artifacts in the order of _execute_real_emhi_seed.
Following == [scores |-> "ranks", ranks |-> "fit"]

Missing == {None, Garbage}
\* What the fingerprint of a file would be if it were computed now.
Target(k, d) ==
    [definition |-> d[k], inputs |-> [f \in Inputs(k) |-> file[f]]]

\* What the embedded fingerprint of an artifact is compared with.
\* (Mutant: an artifact that parses is reused.)
IsReusableIfParsed(k, fingerprint) == file[k] \notin Missing

IsReusable(k, fingerprint) ==
    file[k] \notin Missing /\ file[k].fingerprint = fingerprint
-----------------------------------------------------------------------------
Idle == [at |-> "idle"]
Active(c) == command[c] # Idle

Init ==
    /\ file = [f \in Layers \cup Artifacts |-> IF f \in Layers THEN 1 ELSE None]
    /\ manifest = [k \in Artifacts |-> None]
    /\ definition = [k \in Artifacts |-> 1]
    /\ command = [c \in Materializers |-> Idle]
    /\ disturbances = 0

Disturb ==
    /\ disturbances < MaxDisturbances
    /\ disturbances' = disturbances + 1

\* The command begins an artifact, for the first time or after a technical failure.
Begin(k, d, attempt) ==
    [at |-> k, definition |-> d, attempt |-> attempt, step |-> 1,
     hashed |-> <<>>, seen |-> <<>>]

\* The next artifact, or the evaluation of the cells, which ends what is modelled.
AfterArtifact(k, d) == IF k = "fit" THEN Idle ELSE Begin(Following[k], d, 0)

Start(c) ==
    /\ ~Active(c)
    /\ command' = [command EXCEPT ![c] = Begin("scores", definition, 0)]
    /\ UNCHANGED <<file, manifest, definition, disturbances>>

\* The access command c is at.
Access(c) == Accesses[command[c].at][command[c].step]

At(c, op) == Active(c) /\ Access(c).op = op

Advanced(c) == [command[c] EXCEPT !.step = @ + 1]

\* A function with one more value; functions of no value are the empty sequence.
Put(f, x, v) == [y \in DOMAIN f \cup {x} |-> IF y = x THEN v ELSE f[y]]

HashInput(c) ==
    /\ At(c, "hash")
    /\ file[Access(c).on] # None
    /\ command' = [command EXCEPT ![c] =
            [Advanced(c) EXCEPT !.hashed = Put(@, Access(c).on, file[Access(c).on])]]
    /\ UNCHANGED <<file, manifest, definition, disturbances>>

\* A file that does not parse fails the command: ValueError is not retried.
ReadInput(c) ==
    /\ At(c, "read")
    /\ file[Access(c).on] # None
    /\ command' = [command EXCEPT ![c] =
            IF file[Access(c).on] = Garbage THEN Idle
            ELSE [Advanced(c) EXCEPT !.seen = Put(@, Access(c).on, file[Access(c).on])]]
    /\ UNCHANGED <<file, manifest, definition, disturbances>>

\* with_technical_retry: a missing file repeats the artifact from its first access.
InputIsMissing(c) ==
    /\ Active(c)
    /\ Access(c).op \in {"hash", "read"}
    /\ file[Access(c).on] = None
    /\ LET me == command[c]
       IN  command' = [command EXCEPT ![c] =
            IF me.attempt < Retries THEN Begin(me.at, me.definition, me.attempt + 1)
            ELSE Idle]
    /\ UNCHANGED <<file, manifest, definition, disturbances>>

Fingerprint(c) ==
    [definition |-> command[c].definition[command[c].at], inputs |-> command[c].hashed]

CheckReuse(c) ==
    LET me == command[c]
    IN  /\ At(c, "check")
        /\ command' = [command EXCEPT ![c] =
                IF IsReusable(me.at, Fingerprint(c)) THEN AfterArtifact(me.at, me.definition)
                ELSE Advanced(c)]
        /\ UNCHANGED <<file, manifest, definition, disturbances>>

\* What the command has computed.
Product(c) ==
    [fingerprint |-> Fingerprint(c),
     made |-> [definition |-> command[c].definition[command[c].at],
               inputs |-> command[c].seen]]

WriteArtifact(c) ==
    /\ At(c, "write")
    /\ file' = [file EXCEPT ![command[c].at] = Product(c)]
    /\ command' = [command EXCEPT ![c] = Advanced(c)]
    /\ UNCHANGED <<manifest, definition, disturbances>>

WriteManifest(c) ==
    LET me == command[c]
    IN  /\ At(c, "manifest")
        /\ manifest' = [manifest EXCEPT ![me.at] = Product(c)]
        /\ command' = [command EXCEPT ![c] = AfterArtifact(me.at, me.definition)]
        /\ UNCHANGED <<file, definition, disturbances>>

Step(c) ==
    \/ HashInput(c) \/ ReadInput(c) \/ InputIsMissing(c)
    \/ CheckReuse(c) \/ WriteArtifact(c) \/ WriteManifest(c)
-----------------------------------------------------------------------------
(***************************************************************************)
(* The environment.                                                        *)
(***************************************************************************)
\* preprocess replaces the two layers one after the other, never by what they
\* were, or they are lost.
ReplaceLayer(f) ==
    /\ Disturb
    /\ file[f] \in 1 .. MaxVersion - 1
    /\ file' = [file EXCEPT ![f] = @ + 1]
    /\ UNCHANGED <<manifest, definition, command>>

LoseLayer(f) ==
    /\ Disturb
    /\ file[f] # None
    /\ file' = [file EXCEPT ![f] = None]
    /\ UNCHANGED <<manifest, definition, command>>

\* A missing layer is rebuilt.
RestoreLayer(f) ==
    /\ file[f] = None
    /\ file' = [file EXCEPT ![f] = MaxVersion]
    /\ UNCHANGED <<manifest, definition, command, disturbances>>

\* The configuration slice of an artifact is edited, or the code it names; not back.
EditDefinition ==
    /\ Disturb
    /\ \E k \in Artifacts :
        /\ definition[k] < MaxDefinition
        /\ definition' = [definition EXCEPT ![k] = @ + 1]
    /\ UNCHANGED <<file, manifest, command>>

DamageArtifact(k) ==
    /\ Disturb
    /\ file[k] # None
    /\ file' \in {[file EXCEPT ![k] = x] : x \in Missing}
    /\ UNCHANGED <<manifest, definition, command>>

Kill(c) ==
    /\ Disturb
    /\ Active(c)
    /\ command' = [command EXCEPT ![c] = Idle]
    /\ UNCHANGED <<file, manifest, definition>>

Environment ==
    \/ \E f \in Layers : ReplaceLayer(f) \/ LoseLayer(f) \/ RestoreLayer(f)
    \/ EditDefinition
    \/ \E k \in Artifacts : DamageArtifact(k)
    \/ \E c \in Materializers : Kill(c)

Next ==
    \/ \E c \in Materializers : Start(c) \/ Step(c)
    \/ Environment

Spec == Init /\ [][Next]_vars

\* A command that runs goes on, the operator repeats the command and rebuilds
\* layers that are missing.
Fairness ==
    /\ \A c \in Materializers : WF_vars(Start(c)) /\ WF_vars(Step(c))
    /\ \A f \in Layers : WF_vars(RestoreLayer(f))

FairSpec == Spec /\ Fairness
-----------------------------------------------------------------------------
(***************************************************************************)
(* Types.                                                                  *)
(***************************************************************************)
Versions == 1 .. MaxVersion

\* A definition and the inputs it was applied to, of which a fingerprint may miss some.
IsSide(k, side) ==
    /\ side = [definition |-> side.definition, inputs |-> side.inputs]
    /\ side.definition \in 1 .. MaxDefinition
    /\ DOMAIN side.inputs \subseteq Inputs(k)
    /\ \A f \in DOMAIN side.inputs \cap Layers : side.inputs[f] \in Versions

\* Ranks and fit nest what they were computed from.
IsContentOf(k, x) ==
    /\ IsSide(k, x.fingerprint) /\ IsSide(k, x.made)
    /\ x.made.definition = x.fingerprint.definition
    /\ DOMAIN x.made.inputs = Inputs(k)

IsCommand(me) ==
    /\ me.at \in Artifacts
    /\ me.definition \in [Artifacts -> 1 .. MaxDefinition]
    /\ me.attempt \in 0 .. Retries
    /\ me.step \in DOMAIN Accesses[me.at]
    /\ DOMAIN me.hashed \subseteq Inputs(me.at)
    /\ DOMAIN me.seen \subseteq Inputs(me.at)

TypeOK ==
    /\ \A f \in Layers : file[f] \in Versions \cup {None}
    /\ \A k \in Artifacts :
        /\ file[k] \in Missing \/ IsContentOf(k, file[k])
        /\ manifest[k] = None \/ IsContentOf(k, manifest[k])
    /\ definition \in [Artifacts -> 1 .. MaxDefinition]
    /\ \A c \in Materializers : Active(c) => IsCommand(command[c])
    /\ disturbances \in 0 .. MaxDisturbances
-----------------------------------------------------------------------------
(***************************************************************************)
(* Safety.                                                                 *)
(***************************************************************************)
\* The artifact would be kept by a command with the definitions it names.
IsKept(k) ==
    /\ file[k] \notin Missing
    /\ LET inputs == file[k].fingerprint.inputs
       IN  \A f \in DOMAIN inputs : inputs[f] = file[f]

\* Scores that would be kept were computed from the preprocessed layers as they
\* are, although these may be replaced, one after the other, while two commands
\* compute them: both layers are hashed before either is read
\* (_materialize_detector_scores).
KeptScoresAreFresh ==
    IsKept("scores") => file["scores"].made = file["scores"].fingerprint

\* When all three artifacts would be kept, each was computed from the present
\* ones.  The ranks alone may lie, as they are hashed after they are read
\* (_materialize_marginal_ranks): a split replaced in between is then also not
\* that of the scores, which are rebuilt and take the ranks with them.  Two commands
\* that overlap break it.
KeptChainIsFresh ==
    Cardinality(Materializers) = 1 /\ (\A k \in Artifacts : IsKept(k)) =>
        \A k \in Artifacts : file[k].made = file[k].fingerprint

\* What is kept is fresh, of the scores alone and of the chain.
ChainInvariant ==
    /\ TypeOK
    /\ KeptScoresAreFresh
    /\ KeptChainIsFresh

(***************************************************************************)
(* The inductive invariant.  The versions of a layer only grow, as long as *)
(* it is there: what was hashed or read of it is of the past.              *)
(***************************************************************************)
IsOn(f, S) == f = [x \in S |-> f[x]]

IsPast(f, version) ==
    version \in Versions /\ (file[f] # None => version <= file[f])

\* The steps that hash and read each input.
HashStep ==
    [scores |-> [prepared |-> 1, split |-> 2],
     ranks |-> [scores |-> 3, split |-> 4],
     fit |-> [scores |-> 1, ranks |-> 2, split |-> 3]]

ReadStep ==
    [scores |-> [prepared |-> 4, split |-> 5],
     ranks |-> [scores |-> 1, split |-> 2],
     fit |-> [scores |-> 5, ranks |-> 6, split |-> 7]]

\* The layers are hashed before they are read, but for the ranks.
InOrder(k, hashed, seen) == IF k = "ranks" THEN seen <= hashed ELSE hashed <= seen

\* A command has hashed and read what its step says, and all of it is of the past.
IsOnTrack(me) ==
    /\ me = [at |-> me.at, definition |-> me.definition, attempt |-> me.attempt,
             step |-> me.step, hashed |-> me.hashed, seen |-> me.seen]
    /\ IsOn(me.hashed, {f \in Inputs(me.at) : HashStep[me.at][f] < me.step})
    /\ IsOn(me.seen, {f \in Inputs(me.at) : ReadStep[me.at][f] < me.step})
    /\ \A f \in DOMAIN me.hashed \cap Layers : IsPast(f, me.hashed[f])
    /\ \A f \in DOMAIN me.seen \cap Layers : IsPast(f, me.seen[f])
    /\ \A f \in DOMAIN me.hashed \cap DOMAIN me.seen \cap Layers :
        InOrder(me.at, me.hashed[f], me.seen[f])

CommandsAreOnTrack == \A c \in Materializers : Active(c) => IsOnTrack(command[c])

\* An artifact was made of all its inputs, in the order its command accesses them.
IsMadeInOrder(k, x) ==
    /\ IsOn(x.fingerprint.inputs, Inputs(k)) /\ IsOn(x.made.inputs, Inputs(k))
    /\ \A f \in Inputs(k) \cap Layers :
        /\ IsPast(f, x.fingerprint.inputs[f]) /\ IsPast(f, x.made.inputs[f])
        /\ InOrder(k, x.fingerprint.inputs[f], x.made.inputs[f])

ArtifactsAreMadeInOrder ==
    \A k \in Artifacts : file[k] \notin Missing => IsMadeInOrder(k, file[k])

\* The split a chain of scores and ranks names for the scores, which only grows.
SplitOf(scores) == scores.fingerprint.inputs["split"]

\* With one command, the scores that it has read for the ranks are those it hashes, or
\* were damaged; those it has hashed for the fit are those it reads.
ChainUnderWay(me) ==
    /\ me.at = "ranks" /\ "scores" \in DOMAIN me.seen =>
        /\ file["scores"] \in {me.seen["scores"]} \cup Missing
        /\ IsPast("split", SplitOf(me.seen["scores"]))
        /\ "split" \in DOMAIN me.seen => SplitOf(me.seen["scores"]) <= me.seen["split"]
        /\ "scores" \in DOMAIN me.hashed => me.hashed["scores"] \in {me.seen["scores"], Garbage}
    /\ me.at = "fit" => \A k \in {"scores", "ranks"} \cap DOMAIN me.hashed :
        /\ file[k] \in {me.hashed[k]} \cup Missing
        /\ k \in DOMAIN me.seen => me.seen[k] = me.hashed[k]

ChainOfFiles ==
    /\ file["ranks"] \notin Missing =>
        LET inputs == file["ranks"].made.inputs
        IN  /\ file["ranks"].fingerprint.inputs["scores"] \in {inputs["scores"], Garbage}
            /\ SplitOf(inputs["scores"]) <= inputs["split"]
    /\ file["fit"] \notin Missing => \A k \in {"scores", "ranks"} :
        file["fit"].made.inputs[k] = file["fit"].fingerprint.inputs[k]

ChainIsHonest ==
    Cardinality(Materializers) = 1 =>
        /\ \A c \in Materializers : Active(c) => ChainUnderWay(command[c])
        /\ ChainOfFiles

ChainInduction ==
    /\ TypeOK
    /\ IsOn(file, Layers \cup Artifacts) /\ IsOn(manifest, Artifacts)
    /\ IsOn(command, Materializers)
    /\ CommandsAreOnTrack
    /\ ArtifactsAreMadeInOrder
    /\ ChainIsHonest

(***************************************************************************)
(* Liveness.                                                               *)
(***************************************************************************)
\* Repeating the commands brings the chain up to date and keeps it so, whatever
\* was replaced, edited, lost or damaged and whoever else was at work.
ChainConverges ==
    <>[](\A k \in Artifacts :
            file[k] \notin Missing /\ file[k].fingerprint = Target(k, definition))
=============================================================================

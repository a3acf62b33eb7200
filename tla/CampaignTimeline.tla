--------------------------- MODULE CampaignTimeline ---------------------------
(***************************************************************************)
(* How the records of a release become the benign split, the horizons and  *)
(* the campaigns that the evaluation replays                               *)
(* (execution/preprocessing.py, datasets/preprocessing.py,                 *)
(* datasets/campaigns.py, evaluation/sequential.py).                       *)
(*                                                                         *)
(* The records of the selected clients are read one at a time, in any      *)
(* order: the release is grouped by a query that promises none.  At every  *)
(* moment the release may turn out to be complete, so the layers built     *)
(* from the rows are operators of the rows, and the invariants speak of    *)
(* them in every reachable state.  An evaluation may then replay the       *)
(* campaigns.                                                              *)
(***************************************************************************)
EXTENDS CampaignParameters, SequencesExt, FiniteSetsExt

CONSTANTS RecordEpochs,     \* bound: the epochs in which records fall
          MaxNonBenign,     \* bound on the rows that are not benign
          DetectorShare, NuisanceShare, CalibrationShare, Shares,
                            \* datasets.preprocessing.benign_partition_fractions,
                            \* as numerators over Shares
          Warmup,           \* campaign.prestart_warmup_epochs
          MergeGap,         \* campaign.merge_max_intervening_benign_epochs
          ActivityWindow,   \* campaign.distributed_first_activity_window_epochs
          MinimumDuration   \* campaign.minimum_duration_epochs

ASSUME TimelineAssumption ==
    /\ RecordEpochs \subseteq Int /\ IsFiniteSet(RecordEpochs) /\ RecordEpochs # {}
    /\ {DetectorShare, NuisanceShare, CalibrationShare} \subseteq Nat
    /\ Shares \in Nat \ {0}
    /\ DetectorShare + NuisanceShare + CalibrationShare <= Shares
    /\ {Warmup, ActivityWindow, MinimumDuration} \subseteq Nat \ {0}
    /\ {MergeGap, MaxNonBenign} \subseteq Nat
    \* every configuration of the repository has it: 60 and 200 epochs
    /\ Horizon <= Warmup + 1

VARIABLES rows,      \* per client, the class of each epoch from its first record to its last
          outcome    \* "reading", or what became of the evaluation

timelineVars == <<rows, outcome>>

Epochs == Min(RecordEpochs)..Max(RecordEpochs)

Classes == {"benign", "ambiguous", "malicious"}

RowsOK ==
    /\ DOMAIN rows = Clients
    /\ \A c \in Clients :
         /\ DOMAIN rows[c] \subseteq Epochs
         /\ \A e \in DOMAIN rows[c] : rows[c][e] \in Classes
    /\ outcome \in {"reading", "evaluated", "failed"}

-----------------------------------------------------------------------------
(* The rows of the prepared layer. *)

\* One malicious record makes an epoch malicious, else one ambiguous record
\* makes it ambiguous.
Worst(a, b) ==
    IF "malicious" \in {a, b} THEN "malicious"
    ELSE IF "ambiguous" \in {a, b} THEN "ambiguous" ELSE "benign"

ClassAt(c, e) == IF e \in DOMAIN rows[c] THEN rows[c][e] ELSE "benign"

\* The rows of a client are dense: an epoch without a record between its first
\* and its last one is a benign row of zero counts.
DensePreparedEpochs(c, epoch, class) ==
    LET observed == DOMAIN rows[c] \cup {epoch}
    IN  [e \in Min(observed)..Max(observed) |->
            IF e = epoch THEN Worst(ClassAt(c, e), class) ELSE ClassAt(c, e)]

NonBenign(c) == {e \in DOMAIN rows[c] : rows[c][e] # "benign"}
Malicious(c) == {e \in DOMAIN rows[c] : rows[c][e] = "malicious"}
Benign(c) == DOMAIN rows[c] \ NonBenign(c)

-----------------------------------------------------------------------------
(* The benign split and its horizons. *)

\* A client is selected for its records, so the rows of a finished release
\* leave no selected client out.
EveryClientHasRows == \A c \in Clients : DOMAIN rows[c] # {}

\* Mutant: only a malicious row ends the benign interval.
BenignEndIfMalicious(c) ==
    IF Malicious(c) # {} THEN Min(Malicious(c)) - 1 ELSE Max(DOMAIN rows[c])

\* The last epoch of a client before its first row that is not benign.
BenignEnd(c) ==
    IF NonBenign(c) # {} THEN Min(NonBenign(c)) - 1 ELSE Max(DOMAIN rows[c])

\* The interval in which every selected client has rows, all of them benign.
CommonEpochs ==
    IF EveryClientHasRows
    THEN Max({Min(DOMAIN rows[c]) : c \in Clients})..Min({BenignEnd(c) : c \in Clients})
    ELSE {}

Portion(share) == (share * Cardinality(CommonEpochs)) \div Shares

\* Four consecutive blocks of the common interval; the last one takes the rest.
Split ==
    LET n == Cardinality(CommonEpochs)
        from == IF n = 0 THEN 0 ELSE Min(CommonEpochs)
        detectorEnd == Portion(DetectorShare)
        nuisanceEnd == detectorEnd + Portion(NuisanceShare)
        thresholdEnd == nuisanceEnd + Portion(CalibrationShare)
        block(first, end) == (from + first)..(from + end - 1)
    IN  [detector_fit |-> block(0, detectorEnd),
         nuisance_fit |-> block(detectorEnd, nuisanceEnd),
         calibration  |-> block(nuisanceEnd, thresholdEnd),
         heldout      |-> block(thresholdEnd, n)]

\* Without epochs to fit on, the dataset is not sufficient for an experiment.
Sufficient == Split.detector_fit # {} /\ Split.nuisance_fit # {}

\* Mutant: a window begins on the last epoch of the one before it.
HorizonsSharingAnEpoch(block) ==
    [i \in 1..(Cardinality(block) \div Horizon) |->
        LET start == Min(block) + (i - 1) * (Horizon - 1) IN start..(start + Horizon - 1)]

\* Consecutive windows of the horizon's length; an incomplete last one is dropped.
CompleteHorizons(block) ==
    [i \in 1..(Cardinality(block) \div Horizon) |->
        LET start == Min(block) + (i - 1) * Horizon IN start..(start + Horizon - 1)]

CalibrationHorizons == Range(CompleteHorizons(Split.calibration))

-----------------------------------------------------------------------------
(* The campaign registry. *)

MaliciousEpochs == UNION {Malicious(c) : c \in Clients}

\* Mutant: an ambiguous row does not keep a gap from being bridged.
FreeOfAttacks == Epochs \ MaliciousEpochs

\* The epochs that are benign rows of every selected client.
FullyBenign == {e \in Epochs : \A c \in Clients : e \in Benign(c)}

\* One more malicious epoch: it extends the last run if the gap in between is
\* short and fully benign, else it begins a run of its own.
WithEpoch(runs, e) ==
    IF runs = <<>> THEN <<[start |-> e, end |-> e]>>
    ELSE LET last == runs[Len(runs)]
             gap == (last.end + 1)..(e - 1)
         IN  IF Cardinality(gap) <= MergeGap /\ gap \subseteq FullyBenign
             THEN [runs EXCEPT ![Len(runs)].end = e]
             ELSE Append(runs, [start |-> e, end |-> e])

\* The runs of the malicious epochs up to each epoch, as the code's loop over
\* them in their order builds them.
RunsUpto ==
    LET runs[e \in (Min(RecordEpochs) - 1)..Max(RecordEpochs)] ==
            IF e < Min(RecordEpochs) THEN <<>>
            ELSE IF e \in MaliciousEpochs THEN WithEpoch(runs[e - 1], e) ELSE runs[e - 1]
    IN  runs

\* Runs of malicious epochs, short benign gaps bridged: [start, end] of each.
MergedRuns == RunsUpto[Max(RecordEpochs)]

Participants(run) == {c \in Clients : Malicious(c) \cap run.start..run.end # {}}

FirstActivity(run, c) == Min(Malicious(c) \cap run.start..run.end)

WarmupObserved(run) ==
    \A c \in Clients : run.start - Warmup >= Min(DOMAIN rows[c])

\* Mutant: the warm-up is clean of the participants' attacks only.
WarmupCleanOfParticipants(run) ==
    \A c \in Participants(run) : Malicious(c) \cap (run.start - Warmup)..(run.start - 1) = {}

WarmupClean(run) ==
    \A c \in Clients : Malicious(c) \cap (run.start - Warmup)..(run.start - 1) = {}

EligibleRun(run) ==
    /\ Cardinality(Participants(run)) >= MinimumClients
    /\ LET first == {FirstActivity(run, c) : c \in Participants(run)}
       IN  Max(first) - Min(first) <= ActivityWindow
    /\ run.end - run.start + 1 >= MinimumDuration
    /\ WarmupObserved(run)
    /\ WarmupClean(run)

Campaigns == IF EveryClientHasRows THEN {run \in Range(MergedRuns) : EligibleRun(run)} ELSE {}

-----------------------------------------------------------------------------
(* The replay. *)

\* Mutant: the warm-up is replayed as well.
CampaignEpochsWithWarmup(run) == (run.start - Warmup)..(run.start + Horizon - 1)

\* The epochs a campaign is replayed on, whatever its own end.
CampaignEpochs(run) == run.start..(run.start + Horizon - 1)

\* local_stop_epochs asks the score of every replayed epoch of a client that
\* has a local policy; a score that is missing is a ValueError.
ReplayRaises(run, policies) ==
    \E c \in policies : \E e \in CampaignEpochs(run) : e \notin DOMAIN rows[c]

-----------------------------------------------------------------------------
TimelineInit ==
    /\ rows = [c \in Clients |-> <<>>]
    /\ outcome = "reading"

NonBenignRows == UNION {{c} \X NonBenign(c) : c \in Clients}

\* One record of a selected client is added to its epoch's counts.
ReadRecord(c, epoch, class) ==
    /\ outcome = "reading"
    /\ rows' = [rows EXCEPT ![c] = DensePreparedEpochs(c, epoch, class)]
    /\ \/ class = "benign"
       \/ <<c, epoch>> \in NonBenignRows
       \/ Cardinality(NonBenignRows) < MaxNonBenign
    /\ UNCHANGED outcome

\* An experiment replays every campaign.  Which clients have a local policy is
\* the outcome of a calibration that needs at least one horizon.
EvaluateCampaigns(policies) ==
    /\ outcome = "reading"
    /\ Sufficient
    /\ CalibrationHorizons = {} => policies = {}
    /\ outcome' = IF \E run \in Campaigns : ReplayRaises(run, policies)
                  THEN "failed" ELSE "evaluated"
    /\ UNCHANGED rows

TimelineNext ==
    \/ \E c \in Clients, e \in RecordEpochs, class \in Classes : ReadRecord(c, e, class)
    \/ \E policies \in SUBSET Clients : EvaluateCampaigns(policies)

TimelineSpec == TimelineInit /\ [][TimelineNext]_timelineVars

-----------------------------------------------------------------------------
(* Properties. *)

Blocks == <<Split.detector_fit, Split.nuisance_fit, Split.calibration, Split.heldout>>

\* Every epoch of the benign split is a benign row of every selected client,
\* whichever client starts last and whichever is attacked or ends first, and
\* the four blocks cover the common interval in chronological order, so that
\* nothing is calibrated on what came after it.
SplitIsBenignAndOrdered ==
    LET blocks == Blocks
    IN  /\ \A c \in Clients : CommonEpochs \subseteq Benign(c)
        /\ UNION Range(blocks) = CommonEpochs
        /\ \A i, j \in 1..4 : i < j => \A e \in blocks[i], f \in blocks[j] : e < f

\* No two horizons share an epoch, each has the configured length and lies
\* inside the block it counts false stops for.
HorizonsAreDisjoint ==
    \A block \in {Split.calibration, Split.heldout} :
        LET horizons == CompleteHorizons(block)
        IN  \A i \in DOMAIN horizons :
              /\ Cardinality(horizons[i]) = Horizon
              /\ horizons[i] \subseteq block
              /\ \A j \in 1..(i - 1) : horizons[i] \cap horizons[j] = {}

Gap(m, n) == {e \in Epochs : m < e /\ e < n}

\* Two neighbouring malicious epochs are in one episode exactly when the gap
\* between them is short and benign for every selected client; every
\* malicious epoch is in one episode, which begins and ends with one.
EpisodesAreMaximalMerges ==
    LET runs == Range(MergedRuns)
        Together(m, n) == \E run \in runs : {m, n} \subseteq run.start..run.end
    IN  /\ \A m \in MaliciousEpochs :
             Cardinality({run \in runs : m \in run.start..run.end}) = 1
        /\ \A run \in runs : {run.start, run.end} \subseteq MaliciousEpochs
        /\ \A m, n \in MaliciousEpochs :
             m < n /\ Gap(m, n) \cap MaliciousEpochs = {} =>
                 (Together(m, n) <=>
                     /\ Cardinality(Gap(m, n)) <= MergeGap
                     /\ \A e \in Gap(m, n), c \in Clients : e \in Benign(c))

\* The replay of a campaign never reads an epoch of the benign split: what
\* calibrates the thresholds and counts the false stops is not what is
\* detected.
ReplayAvoidsTheSplit ==
    \A run \in Campaigns : CampaignEpochs(run) \cap CommonEpochs = {}

\* Two campaigns are never replayed over the same epoch, although a replay
\* does not end where its campaign does.
ReplaysAreDisjoint ==
    \A one, other \in Campaigns :
        one # other => CampaignEpochs(one) \cap CampaignEpochs(other) = {}

\* Every campaign of the registry is evaluated (docs/Roadmap.md:4031).
EligibleCampaignsAreEvaluated == outcome # "failed"

\* What the split, the horizons and the replays are told apart by: nothing that is fitted
\* or calibrated on is replayed, and no epoch is calibrated on or replayed twice.
TimelineInvariant ==
    /\ RowsOK
    /\ SplitIsBenignAndOrdered
    /\ HorizonsAreDisjoint
    /\ ReplayAvoidsTheSplit
    /\ ReplaysAreDisjoint

-----------------------------------------------------------------------------
(* The inductive invariant. *)

\* The rows of a client have no gaps.
RowsAreDense ==
    \A c \in Clients : \A e, f \in DOMAIN rows[c] : e..f \subseteq DOMAIN rows[c]

TimelineInduction == RowsOK /\ RowsAreDense
=============================================================================

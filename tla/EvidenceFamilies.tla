--------------------------- MODULE EvidenceFamilies ---------------------------
(***************************************************************************)
(* The way from the evaluations of several experiments to a report: each   *)
(* experiment derives the statistical record of its hypothesis from its    *)
(* seed summaries (experiments/seed_statistics.py), every completed run    *)
(* reconciles the Holm family over all of them (analysis/results.py), and  *)
(* report exports the family when it is of the verified records            *)
(* (reporting/evidence.py).                                                *)
(*                                                                         *)
(* What tells an experiment's files apart is whether there was enough data *)
(* to test the hypothesis, and whether any campaign was eligible: each     *)
(* case writes another file and leaves those of the others in place.       *)
(*                                                                         *)
(* The cells of an experiment are one cell, evaluated in one step: what    *)
(* can happen in between is the matter of ExperimentRun.                   *)
(***************************************************************************)
EXTENDS Naturals, FiniteSets

CONSTANTS
    Experiments,      \* those whose hypotheses make up the family
    StrongLocal,      \* those tested against a minimum; the others are contrasts
    Runners,          \* the run commands
    Data,             \* bound: the versions of the preprocessed data are 1 .. Data
    Testable,         \* the versions with enough clients
    WithCampaigns,    \* the versions with an eligible campaign
    EvaluationOf,     \* configuration -> what of it an evaluation depends on
    AnalysisOf,       \* configuration -> what of it a statistic depends on
    MaxDisturbances,  \* bound: edits, new data, forced commands, kills
    None

Configurations == DOMAIN EvaluationOf

ASSUME ConstantsAssumption ==
    /\ StrongLocal \subseteq Experiments
    /\ Data \in Nat \ {0} /\ MaxDisturbances \in Nat
    /\ WithCampaigns \subseteq Testable /\ Testable \subseteq 1 .. Data
    /\ DOMAIN AnalysisOf = Configurations
    /\ Configurations = 1 .. Cardinality(Configurations)
    /\ Cardinality(Configurations) \in Nat \ {0}
    /\ \A m \in Configurations : EvaluationOf[m] \in Nat /\ AnalysisOf[m] \in Nat

VARIABLES
    data,            \* the version of the data now
    material,        \* the configuration now (material_digest)
    disk,            \* the files of each experiment
    family,          \* the reconciled family
    exported,        \* the family in the report
    runner,          \* the state of each run command
    reporter,        \* the state of the report command
    disturbances,
    \* History variables, which no guard asks for:
    orderly,         \* runs came one at a time, and no edit went back
    left,            \* experiments tested on a summary of an earlier evaluation
    leftAtExport     \* those of them when the family was exported

history == <<orderly, left, leftAtExport>>
vars == <<data, material, disk, family, exported, runner, reporter, disturbances, history>>
-----------------------------------------------------------------------------
(***************************************************************************)
(* Files.                                                                  *)
(***************************************************************************)
\* A Not Tested evaluation does not mention the data (materialize_not_tested_real_cell).
RawOf(m, d) ==
    [tested |-> d \in Testable, evaluation |-> EvaluationOf[m],
     data |-> IF d \in Testable THEN d ELSE 0]

SummaryOf(m, d) == [evaluation |-> EvaluationOf[m], data |-> d]

\* Two files of an experiment may hold a record of its hypothesis.
Slots == {"tested", "notTested"}
Records(e) == {s \in Slots : disk[e][s] # None}

\* What a record must have been derived from.
SourceOf(e, s) == IF s = "tested" THEN disk[e].summary ELSE disk[e].raw

\* verified_statistical_record: the sources exist and are those of the record.
IsVerified(e, s, m) ==
    /\ disk[e][s].of # None
    /\ disk[e][s].of = SourceOf(e, s)
    /\ disk[e][s].analysis = AnalysisOf[m]

\* The outputs of the cell are those its record names.
OutputsVerify(e) ==
    LET cell == disk[e].cell
    IN  /\ cell # None
        /\ cell.raw = disk[e].raw
        /\ cell.summary # None => cell.summary = disk[e].summary

CellIsVerified(e, m) == OutputsVerify(e) /\ disk[e].cell.material = m

RunIsReusable(e, m) == disk[e].run = m /\ CellIsVerified(e, m)

\* select_verified_evidence, and the only record of the hypothesis.
\* (Mutant: the run record is not compared with the configuration.)
ReportAcceptsAnyRun(e, m) ==
    /\ disk[e].run # None
    /\ OutputsVerify(e)
    /\ \A s \in Records(e) : IsVerified(e, s, m)
    /\ Cardinality(Records(e)) = 1

ReportAccepts(e, m) ==
    /\ RunIsReusable(e, m)
    /\ \A s \in Records(e) : IsVerified(e, s, m)
    /\ Cardinality(Records(e)) = 1

\* The path of a record stays, whatever is found beside it later.
TheSlot(e) == CHOOSE s \in Records(e) : TRUE
RecordsAt(paths) == [e \in Experiments |-> disk[e][paths[e]]]
-----------------------------------------------------------------------------
Idle == [at |-> "idle"]

NoFiles ==
    [raw |-> None, summary |-> None, cell |-> None, tested |-> None, notTested |-> None,
     run |-> None, table |-> None, source |-> None]

Init ==
    /\ data \in 1 .. Data
    /\ material = 1
    /\ disk = [e \in Experiments |-> NoFiles]
    /\ family = None
    /\ exported = None
    /\ runner = [c \in Runners |-> Idle]
    /\ reporter = Idle
    /\ disturbances = 0
    /\ orderly = TRUE /\ left = {} /\ leftAtExport = {}

Disturb ==
    /\ disturbances < MaxDisturbances
    /\ disturbances' = disturbances + 1

Go(c, where) == runner' = [runner EXCEPT ![c].at = where]
Fail(c) == runner' = [runner EXCEPT ![c] = Idle]
At(c, where) == runner[c].at = where
-----------------------------------------------------------------------------
(***************************************************************************)
(* fedcampaign run: execute_experiment.                                    *)
(***************************************************************************)
Runner(e, where) ==
    [at |-> where, experiment |-> e, material |-> material,
     paths |-> None, results |-> None, sources |-> None]

StartsAlone == orderly' = (orderly /\ \A c \in Runners : At(c, "idle"))

\* Mutant: a run that is reused does not reconcile.
StartRunWithoutReconciliation(c, e) ==
    /\ At(c, "idle")
    /\ ~RunIsReusable(e, material)
    /\ runner' = [runner EXCEPT ![c] = Runner(e, "evaluate")]
    /\ StartsAlone
    /\ UNCHANGED <<data, material, disk, family, exported, reporter, disturbances, left, leftAtExport>>

\* A completed run is reused, and reconciled again all the same.
StartRun(c, e) ==
    /\ At(c, "idle")
    /\ runner' = [runner EXCEPT ![c] =
            Runner(e, IF RunIsReusable(e, material) THEN "collect" ELSE "evaluate")]
    /\ StartsAlone
    /\ UNCHANGED <<data, material, disk, family, exported, reporter, disturbances, left, leftAtExport>>

\* run --overwrite
ForceRun(c, e) ==
    /\ Disturb
    /\ At(c, "idle")
    /\ runner' = [runner EXCEPT ![c] = Runner(e, "evaluate")]
    /\ StartsAlone
    /\ UNCHANGED <<data, material, disk, family, exported, reporter, left, leftAtExport>>

EvaluateTo(c, summary) ==
    LET e == runner[c].experiment
        m == runner[c].material
        raw == RawOf(m, data)
    IN  /\ At(c, "evaluate")
        /\ disk' = [disk EXCEPT
                ![e].raw = raw,
                ![e].summary = IF summary = None THEN @ ELSE summary,
                ![e].cell = [material |-> m, raw |-> raw, summary |-> summary]]
        /\ Go(c, "statistics")
        /\ UNCHANGED <<data, material, family, exported, reporter, disturbances, history>>

\* Without a campaign there is no summary, and the one there is stays.
Evaluate(c) == EvaluateTo(c,
    IF data \in WithCampaigns THEN SummaryOf(runner[c].material, data) ELSE None)

WriteNotTested(c) ==
    LET e == runner[c].experiment
    IN  /\ At(c, "statistics")
        /\ data \notin Testable
        /\ disk' = [disk EXCEPT ![e].notTested =
                [analysis |-> AnalysisOf[runner[c].material], of |-> disk[e].raw,
                 conclusive |-> FALSE]]
        /\ Go(c, "publish")
        /\ UNCHANGED <<data, material, family, exported, reporter, disturbances, history>>

\* The summary is one that an evaluation without a campaign left in place.
IsLeftBehind(e) ==
    disk[e].summary # None /\ disk[e].summary.evaluation # disk[e].raw.evaluation

Remember(e) == left' = IF IsLeftBehind(e) THEN left \cup {e} ELSE left \ {e}

\* A contrast pairs the summaries by the contract in the raw evaluations, which one
\* that was not tested does not have.  With no summary its record has no source.
WriteContrast(c) ==
    LET e == runner[c].experiment
        unpaired == disk[e].summary # None /\ ~disk[e].raw.tested
    IN  /\ At(c, "statistics")
        /\ data \in Testable
        /\ e \notin StrongLocal
        /\ IF unpaired
           THEN Fail(c) /\ UNCHANGED <<disk, left>>
           ELSE /\ Go(c, "publish")
                /\ Remember(e)
                /\ disk' = [disk EXCEPT ![e].tested =
                        [analysis |-> AnalysisOf[runner[c].material], of |-> disk[e].summary,
                         conclusive |-> disk[e].summary # None]]
        /\ UNCHANGED <<data, material, family, exported, reporter, disturbances, orderly, leftAtExport>>

\* The test against a minimum is left out where a Not Tested record is.
WriteStrongLocal(c) ==
    LET e == runner[c].experiment
        skipped == disk[e].notTested # None \/ disk[e].summary = None
    IN  /\ At(c, "statistics")
        /\ data \in Testable
        /\ e \in StrongLocal
        /\ IF skipped
           THEN UNCHANGED <<disk, left>>
           ELSE /\ Remember(e)
                /\ disk' = [disk EXCEPT ![e].tested =
                        [analysis |-> AnalysisOf[runner[c].material], of |-> disk[e].summary,
                         conclusive |-> disk[e].raw.tested]]
        /\ Go(c, "publish")
        /\ UNCHANGED <<data, material, family, exported, reporter, disturbances, orderly, leftAtExport>>

PublishRun(c) ==
    /\ At(c, "publish")
    /\ disk' = [disk EXCEPT ![runner[c].experiment].run = runner[c].material]
    /\ Go(c, "collect")
    /\ UNCHANGED <<data, material, family, exported, reporter, disturbances, history>>

\* reconcile_project_holm_families: when every hypothesis has a verified record, the
\* family is read; a second record, or one that is stale, is an error then.
IsAvailable(m) == \A e \in Experiments : \E s \in Records(e) : IsVerified(e, s, m)

IsCollectable(m) == \A e \in Experiments :
    Cardinality(Records(e)) = 1 /\ \A s \in Records(e) : IsVerified(e, s, m)

Chosen == [e \in Experiments |-> TheSlot(e)]

\* (Only another run could replace a record between two of those collected.)
Collect(c) ==
    LET m == runner[c].material
    IN  /\ At(c, "collect")
        /\ IF IsAvailable(m) /\ IsCollectable(m)
           THEN runner' = [runner EXCEPT ![c].at = "hash", ![c].paths = Chosen,
                                         ![c].results = RecordsAt(Chosen)]
           ELSE Fail(c)
        /\ UNCHANGED <<data, material, disk, family, exported, reporter, disturbances, history>>

\* The sources are hashed when the results have been computed.
HashSources(c) ==
    /\ At(c, "hash")
    /\ runner' = [runner EXCEPT ![c].at = "write",
                                ![c].sources = RecordsAt(runner[c].paths)]
    /\ UNCHANGED <<data, material, disk, family, exported, reporter, disturbances, history>>

WriteFamily(c) ==
    /\ At(c, "write")
    /\ family' = [material |-> runner[c].material, results |-> runner[c].results,
                  sources |-> runner[c].sources]
    /\ Fail(c)
    /\ UNCHANGED <<data, material, disk, exported, reporter, disturbances, history>>

Step(c) ==
    \/ Evaluate(c) \/ WriteNotTested(c) \/ WriteContrast(c) \/ WriteStrongLocal(c)
    \/ PublishRun(c) \/ Collect(c) \/ HashSources(c) \/ WriteFamily(c)
-----------------------------------------------------------------------------
(***************************************************************************)
(* fedcampaign report: materialize_report_scope.                           *)
(***************************************************************************)
NoPaths == [e \in Experiments |-> None]

StartReport ==
    /\ reporter = Idle
    /\ reporter' = [at |-> "accept", material |-> material, family |-> None,
                    todo |-> Experiments, paths |-> NoPaths, evidence |-> None]
    /\ UNCHANGED <<data, material, disk, family, exported, runner, disturbances, history>>

Current == CHOOSE e \in reporter.todo : TRUE

\* The evidence of one experiment after another is selected, or the command fails.
AcceptEvidence ==
    /\ reporter.at = "accept"
    /\ reporter.todo # {}
    /\ reporter' =
        IF ReportAccepts(Current, reporter.material)
        THEN [reporter EXCEPT !.todo = @ \ {Current}, !.paths[Current] = TheSlot(Current)]
        ELSE Idle
    /\ UNCHANGED <<data, material, disk, family, exported, runner, disturbances, history>>

ReadFamily ==
    /\ reporter.at = "accept"
    /\ reporter.todo = {}
    /\ reporter' = IF family # None /\ family.material = reporter.material
                   THEN [reporter EXCEPT !.at = "export", !.family = family]
                   ELSE Idle
    /\ UNCHANGED <<data, material, disk, family, exported, runner, disturbances, history>>

\* _export_verified_holm_family: the sources are hashed again.
Export ==
    /\ reporter.at = "export"
    /\ IF reporter.family.sources = RecordsAt(reporter.paths)
       THEN /\ exported' = reporter.family
            /\ leftAtExport' = left
            /\ reporter' = [reporter EXCEPT !.at = "select", !.todo = Experiments,
                                           !.paths = NoPaths]
       ELSE /\ UNCHANGED <<exported, leftAtExport>>
            /\ reporter' = Idle
    /\ UNCHANGED <<data, material, disk, family, runner, disturbances, orderly, left>>

\* materialize_verified_experiment_report, for each experiment that is completed.
Evidence(e) == [summary |-> disk[e].summary, cell |-> disk[e].cell]

SelectEvidence ==
    /\ reporter.at = "select"
    /\ reporter.todo # {}
    /\ reporter' =
        IF disk[Current].run # reporter.material
        THEN [reporter EXCEPT !.todo = @ \ {Current}]
        ELSE IF ReportAccepts(Current, reporter.material)
        THEN [reporter EXCEPT !.at = "table", !.evidence = Evidence(Current)]
        ELSE Idle
    /\ UNCHANGED <<data, material, disk, family, exported, runner, disturbances, history>>

\* Tables and figures are written where there are none, and with --overwrite.
WriteTable ==
    /\ reporter.at = "table"
    /\ disk' = [disk EXCEPT ![Current].table =
            IF @ = None THEN disk[Current].summary ELSE @]
    /\ reporter' = [reporter EXCEPT !.at = "source"]
    /\ UNCHANGED <<data, material, family, exported, runner, disturbances, history>>

\* The evidence source is written when it differs.
WriteSource ==
    /\ reporter.at = "source"
    /\ disk' = [disk EXCEPT ![Current].source = reporter.evidence]
    /\ reporter' = [reporter EXCEPT !.at = "select", !.todo = @ \ {Current}]
    /\ UNCHANGED <<data, material, family, exported, runner, disturbances, history>>

EndReport ==
    /\ reporter.at = "select"
    /\ reporter.todo = {}
    /\ reporter' = Idle
    /\ UNCHANGED <<data, material, disk, family, exported, runner, disturbances, history>>

ReportStep ==
    \/ AcceptEvidence \/ ReadFamily \/ Export \/ SelectEvidence \/ WriteTable \/ WriteSource \/ EndReport
-----------------------------------------------------------------------------
(***************************************************************************)
(* The environment.                                                        *)
(***************************************************************************)
\* preprocess replaces the data.
ReplaceData ==
    /\ Disturb
    /\ data < Data
    /\ data' = data + 1
    /\ UNCHANGED <<material, disk, family, exported, runner, reporter, history>>

\* EvaluationOf numbers the evaluations in the order they came: an edit back to an
\* earlier one is a legal one, and remembered.
EditConfiguration ==
    /\ Disturb
    /\ \E m \in Configurations \ {material} :
        /\ material' = m
        /\ orderly' = (orderly /\ EvaluationOf[material] <= EvaluationOf[m])
    /\ UNCHANGED <<data, disk, family, exported, runner, reporter, left, leftAtExport>>

KillRun(c) ==
    /\ Disturb
    /\ ~At(c, "idle")
    /\ Fail(c)
    /\ UNCHANGED <<data, material, disk, family, exported, reporter, history>>

KillReport ==
    /\ Disturb
    /\ reporter # Idle
    /\ reporter' = Idle
    /\ UNCHANGED <<data, material, disk, family, exported, runner, history>>

Environment ==
    \/ ReplaceData \/ EditConfiguration \/ KillReport
    \/ \E c \in Runners : KillRun(c) \/ \E e \in Experiments : ForceRun(c, e)

Next ==
    \/ \E c \in Runners : Step(c) \/ \E e \in Experiments : StartRun(c, e)
    \/ StartReport \/ ReportStep
    \/ Environment

Spec == Init /\ [][Next]_vars

\* Commands that run go on; the operator repeats the run of every experiment, and the
\* report.
Fairness ==
    /\ \A c \in Runners :
        /\ WF_vars(Step(c))
        /\ \A e \in Experiments : SF_vars(StartRun(c, e))
    /\ WF_vars(StartReport) /\ WF_vars(ReportStep)

FairSpec == Spec /\ Fairness
-----------------------------------------------------------------------------
Raws == [tested: BOOLEAN, evaluation: Nat, data: 0 .. Data]
Summaries == [evaluation: Nat, data: WithCampaigns]
OrNone(S) == S \cup {None}
RecordsOf(S) == [analysis: Nat, of: OrNone(S), conclusive: BOOLEAN]
CellRecords == [material: Configurations, raw: Raws, summary: OrNone(Summaries)]
Evidences == [summary: OrNone(Summaries), cell: OrNone(CellRecords)]

Files ==
    [raw: OrNone(Raws), summary: OrNone(Summaries), cell: OrNone(CellRecords),
     tested: OrNone(RecordsOf(Summaries)), notTested: OrNone(RecordsOf(Raws)),
     run: OrNone(Configurations), table: OrNone(Summaries), source: OrNone(Evidences)]

\* The records of a family, one of each experiment.
RecordFamilies == [Experiments -> RecordsOf(Summaries) \cup RecordsOf(Raws)]
Paths == [Experiments -> Slots]
Families == [material: Configurations, results: RecordFamilies, sources: RecordFamilies]

Running ==
    [at: {"evaluate", "statistics", "publish", "collect", "hash", "write"},
     experiment: Experiments, material: Configurations, paths: OrNone(Paths),
     results: OrNone(RecordFamilies), sources: OrNone(RecordFamilies)]

Reporting ==
    [at: {"accept", "export", "select", "table", "source"},
     material: Configurations, family: OrNone(Families),
     todo: SUBSET Experiments, paths: [Experiments -> OrNone(Slots)], evidence: OrNone(Evidences)]

\* A file that is there has a content.
ASSUME NoneAssumption ==
    /\ None \notin Nat
    /\ None \notin Raws \cup Summaries \cup CellRecords \cup Families
    /\ None \notin RecordsOf(Raws) \cup RecordsOf(Summaries)
    /\ None \notin Slots \cup Paths \cup RecordFamilies

TypeOK ==
    /\ data \in 1 .. Data /\ material \in Configurations
    /\ disk \in [Experiments -> Files]
    /\ family \in OrNone(Families)
    /\ exported \in OrNone(Families)
    /\ runner \in [Runners -> {Idle} \cup Running]
    /\ reporter \in {Idle} \cup Reporting
    /\ disturbances \in 0 .. MaxDisturbances
    /\ orderly \in BOOLEAN /\ left \subseteq Experiments /\ leftAtExport \subseteq Experiments
-----------------------------------------------------------------------------
(***************************************************************************)
(* Safety.                                                                 *)
(***************************************************************************)
\* Every test in the exported family that was made is of evaluations under the
\* configuration the export names, if the record was not derived from a summary
\* that an earlier evaluation had left behind, runs come one at a time, and no
\* edit brings an earlier evaluation back.  Summaries are left behind when a new
\* evaluation has no eligible campaign: the statistic is then derived from the old
\* one, and exported.  Reconciliation does not see to it: it
\* verifies each record against its own sources, which may be of an earlier
\* configuration; the report does, which looks at one experiment after another
\* while runs replace them (results.py, evidence.py).
ExportedFamilyIsOfOneConfiguration ==
    orderly /\ exported # None =>
        \A e \in Experiments \ leftAtExport : exported.results[e].conclusive =>
            exported.results[e].of.evaluation = EvaluationOf[exported.material]

\* What was exported is of one configuration, and of records of the right kind.
FamilyInvariant == TypeOK /\ ExportedFamilyIsOfOneConfiguration

(***************************************************************************)
(* The inductive invariant.                                                *)
(***************************************************************************)
Active(c) == ~At(c, "idle")

\* A command holds what it has read, and a record that was there is there.
HoldsItsFiles(c) ==
    /\ At(c, "statistics") => disk[runner[c].experiment].raw # None
    /\ At(c, "hash") =>
        /\ runner[c].paths # None
        /\ \A e \in Experiments : disk[e][runner[c].paths[e]] # None
    /\ At(c, "hash") \/ At(c, "write") => runner[c].results # None
    /\ At(c, "write") => runner[c].sources # None

ReporterHoldsItsFiles ==
    /\ reporter.at = "accept" =>
        \A e \in Experiments \ reporter.todo : reporter.paths[e] # None
    /\ reporter.at = "export" => reporter.family # None /\ reporter.paths \in Paths

NotTestedIsNotConclusive ==
    \A e \in Experiments : disk[e].notTested # None => ~disk[e].notTested.conclusive

HeldFilesAreThere ==
    /\ \A c \in Runners : HoldsItsFiles(c)
    /\ ReporterHoldsItsFiles
    /\ NotTestedIsNotConclusive

RunsComeOneAtATime == \A c, d \in Runners : Active(c) /\ Active(d) => c = d

\* The evaluations of a configuration are not later than those of another.
Precedes(m, n) == EvaluationOf[m] <= EvaluationOf[n]

\* A record is of this or an earlier, or of this or a later evaluation.
IsUpTo(record, m) == record.of # None /\ record.of.evaluation <= EvaluationOf[m]
IsFrom(record, m) == record.of # None /\ EvaluationOf[m] <= record.of.evaluation

\* There is the record of a test that was made.
IsConclusive(files) == files.tested # None /\ files.tested.conclusive

\* The files of an experiment are of evaluations up to a configuration.
AreUpTo(files, m) ==
    /\ files.run # None => Precedes(files.run, m)
    /\ files.summary # None => files.summary.evaluation <= EvaluationOf[m]
    /\ IsConclusive(files) => IsUpTo(files.tested, m) /\ files.summary # None

\* A test that was made is not of an earlier configuration, or was left behind.
IsCurrent(e, m) == e \in left \/ (IsConclusive(disk[e]) => IsFrom(disk[e].tested, m))

\* Nothing is of a configuration still to come, for the run command under way either.
NothingIsOfLater ==
    /\ \A e \in Experiments : AreUpTo(disk[e], material)
    /\ \A c \in Runners : Active(c) =>
        /\ Precedes(runner[c].material, material)
        /\ \A e \in Experiments : AreUpTo(disk[e], runner[c].material)

\* The only record of a published run is not of an earlier configuration.
PublishedRunsAreCurrent ==
    \A e \in Experiments :
        disk[e].run # None /\ disk[e].notTested = None => IsCurrent(e, disk[e].run)

\* What a run command has read, written or computed so far is what it takes it for.
IsHonest(c) ==
    LET me == runner[c]
        e == me.experiment
    IN  /\ At(c, "statistics") => disk[e].raw.evaluation = EvaluationOf[me.material]
        /\ At(c, "publish") /\ disk[e].notTested = None => IsCurrent(e, me.material)
        /\ At(c, "hash") => me.results = RecordsAt(me.paths)
        /\ At(c, "hash") \/ At(c, "write") =>
            \A x \in Experiments : me.results[x].conclusive => IsUpTo(me.results[x], me.material)
        /\ At(c, "write") => me.sources = me.results

RunnersAreHonest == \A c \in Runners : IsHonest(c)

IsHonestFamily(f) ==
    /\ f.sources = f.results
    /\ \A e \in Experiments : f.results[e].conclusive => IsUpTo(f.results[e], f.material)

FamilyIsHonest == family # None => IsHonestFamily(family)

\* Once a report has selected the evidence of an experiment, nothing of it comes
\* back to earlier configurations, and no run command under way can bring it back.
Selected ==
    IF reporter.at = "accept" THEN Experiments \ reporter.todo
    ELSE IF reporter.at = "export" THEN Experiments ELSE {}

ReporterIsHonest ==
    /\ \A e \in Selected :
        /\ IsCurrent(e, reporter.material)
        /\ \A c \in Runners : Active(c) => Precedes(reporter.material, runner[c].material)
    /\ reporter.at \in {"accept", "export"} => Precedes(reporter.material, material)
    /\ reporter.at = "export" =>
        reporter.family.material = reporter.material /\ IsHonestFamily(reporter.family)

\* What holds while the use is orderly.
OrderlyFiles ==
    /\ RunsComeOneAtATime
    /\ NothingIsOfLater
    /\ PublishedRunsAreCurrent
    /\ RunnersAreHonest
    /\ FamilyIsHonest
    /\ ReporterIsHonest

FamilyInduction ==
    /\ TypeOK
    /\ HeldFilesAreThere
    /\ orderly => OrderlyFiles
    /\ ExportedFamilyIsOfOneConfiguration

(***************************************************************************)
(* Liveness.                                                               *)
(***************************************************************************)
ExportIsCurrent ==
    /\ exported # None
    /\ exported.material = material
    /\ \A e \in Experiments : Records(e) # {}
    /\ exported.results = RecordsAt(Chosen)

\* When report accepts every experiment for good, repeating the commands exports
\* the family of what it accepts, wherever a run or a report was killed: a run that
\* is reused reconciles again (execute_experiment).
AcceptedEvidenceIsExported ==
    <>[](\A e \in Experiments : ReportAccepts(e, material)) => <>[]ExportIsCurrent
=============================================================================

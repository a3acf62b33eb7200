---------------------------- MODULE ExperimentRun ----------------------------
(***************************************************************************)
(* One real-data experiment on disk and the commands that run it           *)
(* (experiments/orchestration.py, experiments/seed_evaluation.py,          *)
(* experiments/execution.py, reporting/evidence.py, analysis/results.py).  *)
(*                                                                         *)
(* A run evaluates the cells of the experiment, one per method and seed.   *)
(* Each cell publishes its raw evaluation, its seed summary and last its   *)
(* cell record, which carries the hashes of both.  When all cells are done *)
(* the run derives the statistics from the summaries and publishes the run *)
(* record.  A later run keeps what is compatible.  Nothing is locked, and  *)
(* a run may be killed at any step.                                        *)
(*                                                                         *)
(* The content of a file is its lineage: the configuration, scientific     *)
(* semantics and upstream artifacts it was really computed from.           *)
(***************************************************************************)
EXTENDS Naturals, FiniteSets

CONSTANTS
    Runners,          \* names of the run commands that may overlap
    EmhiCells,        \* cells of the EMHI methods
    ComparatorCells,  \* cells of the comparator methods
    TaskOf,           \* the (role, seed) task that evaluates a cell
    Confirmatory,     \* the cells of the confirmatory role
    Pairs,            \* the paired contrasts: cells of two methods at one seed
    Materials,        \* material digests of the configurations
    CellsOf,          \* the cells each configuration asks for
    Semantics,        \* semantic digests of the experiment: code versions
    First,            \* what the first command may load
    MaxUpstream,      \* bound: versions of the upstream artifacts
    None,             \* a file that does not exist
    MaxDisturbances   \* bound: kills, edits, losses, forced and overlapping runs

Cells == EmhiCells \cup ComparatorCells
Declarations == [material: Materials, semantics: Semantics]

ASSUME ConstantsAssumption ==
    /\ EmhiCells \cap ComparatorCells = {}
    /\ Confirmatory \subseteq Cells
    /\ Pairs \subseteq Confirmatory \X Confirmatory
    /\ CellsOf \in [Materials -> SUBSET Cells]
    /\ \A m \in Materials : CellsOf[m] # {}
    /\ First \subseteq Declarations /\ First # {}
    /\ MaxUpstream \in Nat \ {0}
    /\ MaxDisturbances \in Nat

VARIABLES
    declared,      \* configuration and semantics a command started now loads
    upstream,      \* version of the upstream artifacts; 0 when one is missing
    raw,           \* raw evaluation of each cell
    summary,       \* seed summary of each cell
    record,        \* scientific cell record of each cell
    statistic,     \* the paired statistics: their sources and what these held
    run,           \* the run record
    runner,        \* the state of each run command
    disturbances   \* how many disturbances have happened

files == <<raw, summary, record, statistic, run>>
vars == <<declared, upstream, files, runner, disturbances>>

-----------------------------------------------------------------------------
\* The records that cell_record_paths finds, whatever configuration they are of.
Recorded == {c \in Cells : record[c] # None}

\* The mandatory outputs are there and hash to what the cell record says.
OutputsVerify(c) ==
    /\ raw[c] # None /\ raw[c] = record[c].raw
    /\ summary[c] # None /\ summary[c] = record[c].summary

\* _completed_cell_is_reusable
CompletedCellIsReusable(c, d) ==
    /\ record[c].declared = d
    /\ OutputsVerify(c)

\* Mutant: a completed run is reused by its records alone.
RunIsReusableByRecords(d) ==
    /\ run # None
    /\ run.state = "Completed"
    /\ run.declared = d
    /\ Recorded # {}
    /\ \A c \in Recorded : record[c].declared = d

\* _existing_completed_run, without --overwrite
RunIsReusable(d) ==
    /\ run # None
    /\ run.state = "Completed"
    /\ run.declared = d
    /\ Recorded # {}
    /\ \A c \in Recorded : CompletedCellIsReusable(c, d)

\* _reusable_completed_real_cell
CellIsReusable(c, d, fingerprint) ==
    /\ record[c] # None
    /\ record[c].fingerprint = fingerprint
    /\ CompletedCellIsReusable(c, d)

\* verified_statistical_record: there are source summaries, and they still hash to
\* what the statistics were derived from.
StatisticVerifies ==
    statistic # None =>
        /\ DOMAIN statistic # {}
        /\ \A c \in DOMAIN statistic : summary[c] = statistic[c]

\* select_verified_evidence succeeds.
ReportAccepts(d) ==
    /\ run # None
    /\ run.state = "Completed"
    /\ run.declared.material = d.material
    /\ StatisticVerifies
    /\ Recorded # {}
    /\ \A c \in Recorded : record[c].declared = d /\ OutputsVerify(c)

\* _cell_state_counts: the records are counted by their semantics alone.
StaleCells(d) == {c \in Recorded : record[c].declared.semantics # d.semantics}

\* _cell_validation_failure
CellIsValid(c, d) == c \notin StaleCells(d) /\ OutputsVerify(c)

\* _run_record_state: the configuration is not looked at.
RunRecordStatus(d) ==
    IF run = None THEN "missing"
    ELSE IF run.declared.semantics # d.semantics THEN "stale"
    ELSE IF Recorded = {} THEN "incomplete"
    ELSE IF \E c \in Recorded : ~CellIsValid(c, d) THEN "stale"
    ELSE IF run.state = "Completed" THEN "valid" ELSE "incomplete"

\* project_status: the lifecycle state that the status command shows.
Status(d) == IF StaleCells(d) # {} THEN "stale" ELSE RunRecordStatus(d)

-----------------------------------------------------------------------------
Idle == [pc |-> "idle"]

Active(r) == runner[r].pc # "idle"

Init ==
    /\ declared \in First
    /\ upstream \in 0 .. 1
    /\ raw = [c \in Cells |-> None]
    /\ summary = [c \in Cells |-> None]
    /\ record = [c \in Cells |-> None]
    /\ statistic = None
    /\ run = None
    /\ runner = [r \in Runners |-> Idle]
    /\ disturbances = 0

Disturb ==
    /\ disturbances < MaxDisturbances
    /\ disturbances' = disturbances + 1

\* The plain command; forced recomputation, and a run beside another one, are counted as
\* disturbances.
StartRun(r, overwrite) ==
    LET others == {q \in Runners : Active(q)}
    IN  /\ ~Active(r)
        /\ IF overwrite \/ others # {} THEN Disturb ELSE UNCHANGED disturbances
        /\ runner' = [q \in Runners |->
                IF q = r THEN [pc |-> "check", overwrite |-> overwrite, declared |-> declared,
                               alone |-> others = {}]
                ELSE IF q \in others THEN [runner[q] EXCEPT !.alone = FALSE]
                ELSE runner[q]]
        /\ UNCHANGED <<declared, upstream, files>>

CheckReuse(r) ==
    LET me == runner[r]
    IN  /\ me.pc = "check"
        /\ runner' = [runner EXCEPT ![r] =
                IF ~me.overwrite /\ RunIsReusable(me.declared) THEN Idle
                ELSE [me EXCEPT !.pc = "required"]]
        /\ UNCHANGED <<declared, upstream, files, disturbances>>

\* Missing preprocessing artifacts block the run; its record replaces any other.
CheckRequired(r) ==
    LET me == runner[r]
    IN  /\ me.pc = "required"
        /\ \/ /\ upstream = 0
              /\ run' = [state |-> "Blocked", declared |-> me.declared]
              /\ runner' = [runner EXCEPT ![r] = Idle]
           \/ /\ upstream # 0
              /\ runner' = [runner EXCEPT ![r] =
                    [pc |-> "cells", overwrite |-> me.overwrite, declared |-> me.declared,
                     alone |-> me.alone,
                     cell |-> [c \in CellsOf[me.declared.material] |-> [phase |-> "todo"]]]]
              /\ UNCHANGED run
        /\ UNCHANGED <<declared, upstream, raw, summary, record, statistic, disturbances>>

-----------------------------------------------------------------------------
(***************************************************************************)
(* The cells.  Tasks run in parallel workers; a task evaluates its cells   *)
(* one after the other, comparators last.                                  *)
(***************************************************************************)
Evaluating(r, c) ==
    /\ runner[r].pc = "cells"
    /\ c \in DOMAIN runner[r].cell

Phase(r, c) == runner[r].cell[c].phase

SetCell(r, c, state) == runner' = [runner EXCEPT ![r].cell[c] = state]

ItsTurn(r, c) ==
    \A d \in DOMAIN runner[r].cell \ {c} : TaskOf[d] = TaskOf[c] =>
        /\ Phase(r, d) \in {"todo", "done"}
        /\ c \in ComparatorCells /\ d \in EmhiCells => Phase(r, d) = "done"

\* Mutant: a completed cell is not looked for.
HashInputsOnly(r, c) ==
    /\ Evaluating(r, c)
    /\ c \in EmhiCells
    /\ Phase(r, c) = "todo"
    /\ ItsTurn(r, c)
    /\ upstream # 0
    /\ SetCell(r, c, [phase |-> "hashed", fingerprint |-> upstream])
    /\ UNCHANGED <<declared, upstream, files, disturbances>>

\* The files of the upstream artifacts are hashed; an EMHI cell that is
\* compatible is kept.
HashInputs(r, c) ==
    LET me == runner[r]
        keep == ~me.overwrite /\ CellIsReusable(c, me.declared, upstream)
    IN  /\ Evaluating(r, c)
        /\ c \in EmhiCells
        /\ Phase(r, c) = "todo"
        /\ ItsTurn(r, c)
        /\ upstream # 0
        /\ SetCell(r, c, IF keep THEN [phase |-> "done"]
                         ELSE [phase |-> "hashed", fingerprint |-> upstream])
        /\ UNCHANGED <<declared, upstream, files, disturbances>>

\* Mutant: the artifacts are read first and hashed afterwards.
EvaluateThenHash(r, c) ==
    /\ Evaluating(r, c)
    /\ Phase(r, c) = "hashed"
    /\ upstream # 0
    /\ SetCell(r, c, [phase |-> "raw", fingerprint |-> upstream,
                      read |-> runner[r].cell[c].fingerprint, timing |-> 1])
    /\ UNCHANGED <<declared, upstream, files, disturbances>>

\* The upstream artifacts are read and evaluated; an evaluation carries timings,
\* so that two of them differ.
EvaluateEmhi(r, c) ==
    /\ Evaluating(r, c)
    /\ Phase(r, c) = "hashed"
    /\ upstream # 0
    /\ \E timing \in 1 .. 2 :
        SetCell(r, c, [phase |-> "raw", fingerprint |-> runner[r].cell[c].fingerprint,
                       read |-> upstream, timing |-> timing])
    /\ UNCHANGED <<declared, upstream, files, disturbances>>

\* A comparator cell is evaluated in any case, and hashes its inputs afterwards.
EvaluateComparator(r, c) ==
    /\ Evaluating(r, c)
    /\ c \in ComparatorCells
    /\ Phase(r, c) = "todo"
    /\ ItsTurn(r, c)
    /\ upstream # 0
    /\ \E timing \in 1 .. 2 :
        SetCell(r, c, [phase |-> "evaluated", read |-> upstream, timing |-> timing])
    /\ UNCHANGED <<declared, upstream, files, disturbances>>

HashComparatorInputs(r, c) ==
    /\ Evaluating(r, c)
    /\ Phase(r, c) = "evaluated"
    /\ upstream # 0
    /\ SetCell(r, c, [phase |-> "raw", fingerprint |-> upstream,
                      read |-> runner[r].cell[c].read, timing |-> runner[r].cell[c].timing])
    /\ UNCHANGED <<declared, upstream, files, disturbances>>

\* An artifact that is gone when it is needed: the technical retry starts the
\* cell again, and the run fails when it is exhausted.
InputIsMissing(r, c) ==
    /\ Evaluating(r, c)
    /\ Phase(r, c) \in {"todo", "hashed", "evaluated"}
    /\ upstream = 0
    /\ \/ SetCell(r, c, [phase |-> "todo"])
       \/ runner' = [runner EXCEPT ![r] = Idle]
    /\ UNCHANGED <<declared, upstream, files, disturbances>>

Lineage(r, c) == [declared |-> runner[r].declared, upstream |-> runner[r].cell[c].read]

RawOf(r, c) == [lineage |-> Lineage(r, c), timing |-> runner[r].cell[c].timing]

NextPhase(r, c, phase) == runner' = [runner EXCEPT ![r].cell[c].phase = phase]

WriteRaw(r, c) ==
    /\ Evaluating(r, c)
    /\ Phase(r, c) = "raw"
    /\ raw' = [raw EXCEPT ![c] = RawOf(r, c)]
    /\ NextPhase(r, c, "summary")
    /\ UNCHANGED <<declared, upstream, summary, record, statistic, run, disturbances>>

WriteSummary(r, c) ==
    /\ Evaluating(r, c)
    /\ Phase(r, c) = "summary"
    /\ summary' = [summary EXCEPT ![c] = Lineage(r, c)]
    /\ NextPhase(r, c, "record")
    /\ UNCHANGED <<declared, upstream, raw, record, statistic, run, disturbances>>

\* Mutant: the record hashes the files it finds, not the ones it wrote.
WriteRecordOfFiles(r, c) ==
    /\ Evaluating(r, c)
    /\ Phase(r, c) = "record"
    /\ record' = [record EXCEPT ![c] =
            [declared |-> runner[r].declared, fingerprint |-> runner[r].cell[c].fingerprint,
             raw |-> raw[c], summary |-> summary[c]]]
    /\ SetCell(r, c, [phase |-> "done"])
    /\ UNCHANGED <<declared, upstream, raw, summary, statistic, run, disturbances>>

WriteRecord(r, c) ==
    /\ Evaluating(r, c)
    /\ Phase(r, c) = "record"
    /\ record' = [record EXCEPT ![c] =
            [declared |-> runner[r].declared, fingerprint |-> runner[r].cell[c].fingerprint,
             raw |-> RawOf(r, c), summary |-> Lineage(r, c)]]
    /\ SetCell(r, c, [phase |-> "done"])
    /\ UNCHANGED <<declared, upstream, raw, summary, statistic, run, disturbances>>

-----------------------------------------------------------------------------
\* The comparison contract of an evaluation: its configuration and inputs.
Contract(c) == [material |-> raw[c].lineage.declared.material,
                upstream |-> raw[c].lineage.upstream]

Summarised == {c \in Cells : summary[c] # None}

\* _pair_confirmatory_odi: summaries that are found, whoever wrote them, are
\* paired when their raw evaluations carry the same comparison contract.
PairedSources ==
    UNION {{p[1], p[2]} : p \in {q \in Pairs : /\ {q[1], q[2]} \subseteq Summarised
                                            /\ Contract(q[1]) = Contract(q[2])}}

\* Mutant: statistics are derived as soon as one cell is done.
DeriveStatisticsEarly(r) ==
    /\ runner[r].pc = "cells"
    /\ \E c \in DOMAIN runner[r].cell : Phase(r, c) = "done"
    /\ statistic' = [c \in PairedSources |-> summary[c]]
    /\ runner' = [runner EXCEPT ![r] =
            [pc |-> "publish", overwrite |-> runner[r].overwrite,
             declared |-> runner[r].declared, alone |-> runner[r].alone]]
    /\ UNCHANGED <<declared, upstream, raw, summary, record, run, disturbances>>

\* A summary whose raw evaluation is gone fails the run.
DeriveStatistics(r) ==
    /\ runner[r].pc = "cells"
    /\ \A c \in DOMAIN runner[r].cell : Phase(r, c) = "done"
    /\ IF \E p \in Pairs : \E c \in {p[1], p[2]} \cap Summarised : raw[c] = None
       THEN /\ runner' = [runner EXCEPT ![r] = Idle]
            /\ UNCHANGED statistic
       ELSE /\ statistic' = [c \in PairedSources |-> summary[c]]
            /\ runner' = [runner EXCEPT ![r] =
                    [pc |-> "publish", overwrite |-> runner[r].overwrite,
                     declared |-> runner[r].declared, alone |-> runner[r].alone]]
    /\ UNCHANGED <<declared, upstream, raw, summary, record, run, disturbances>>

PublishRun(r) ==
    /\ runner[r].pc = "publish"
    /\ run' = [state |-> "Completed", declared |-> runner[r].declared]
    /\ runner' = [runner EXCEPT ![r] = Idle]
    /\ UNCHANGED <<declared, upstream, raw, summary, record, statistic, disturbances>>

-----------------------------------------------------------------------------
(***************************************************************************)
(* The environment.                                                        *)
(***************************************************************************)
\* preprocess replaces the upstream artifacts by newer ones, or they are removed.
ChangeUpstream ==
    /\ Disturb
    /\ upstream # 0
    /\ upstream' \in {0} \cup {v \in 1 .. MaxUpstream : v > upstream}
    /\ UNCHANGED <<declared, files, runner>>

\* What is missing is made, of the newest version.
RestoreUpstream ==
    /\ upstream = 0
    /\ upstream' = MaxUpstream
    /\ UNCHANGED <<declared, files, runner, disturbances>>

EditDeclared ==
    /\ Disturb
    /\ declared' \in Declarations \ {declared}
    /\ UNCHANGED <<upstream, files, runner>>

\* Files are damaged or removed while no run is working on them.
LoseOutput(c) ==
    /\ Disturb
    /\ \A r \in Runners : ~Active(r)
    /\ \/ /\ raw[c] # None
          /\ raw' = [raw EXCEPT ![c] = None]
          /\ UNCHANGED summary
       \/ /\ summary[c] # None
          /\ summary' = [summary EXCEPT ![c] = None]
          /\ UNCHANGED raw
    /\ UNCHANGED <<declared, upstream, record, statistic, run, runner>>

Kill(r) ==
    /\ Disturb
    /\ Active(r)
    /\ runner' = [runner EXCEPT ![r] = Idle]
    /\ UNCHANGED <<declared, upstream, files>>

CellStep(r, c) ==
    \/ HashInputs(r, c) \/ EvaluateEmhi(r, c)
    \/ EvaluateComparator(r, c) \/ HashComparatorInputs(r, c)
    \/ InputIsMissing(r, c)
    \/ WriteRaw(r, c) \/ WriteSummary(r, c) \/ WriteRecord(r, c)

RunStep(r) ==
    \/ CheckReuse(r) \/ CheckRequired(r)
    \/ DeriveStatistics(r) \/ PublishRun(r)

Step(r) == RunStep(r) \/ \E c \in Cells : CellStep(r, c)

Environment ==
    \/ ChangeUpstream \/ RestoreUpstream \/ EditDeclared
    \/ \E c \in Cells : LoseOutput(c)
    \/ \E r \in Runners : Kill(r)

Next ==
    \/ \E r \in Runners, overwrite \in BOOLEAN : StartRun(r, overwrite)
    \/ \E r \in Runners : Step(r)
    \/ Environment

Spec == Init /\ [][Next]_vars

\* A started run goes on until it ends or is killed, each of its workers too, and
\* the operator restores what is missing and repeats the plain command.
Fairness ==
    /\ \A r \in Runners :
        /\ WF_vars(StartRun(r, FALSE))
        /\ WF_vars(RunStep(r))
        /\ \A c \in Cells : WF_vars(CellStep(r, c))
    /\ WF_vars(RestoreUpstream)

FairSpec == Spec /\ Fairness
-----------------------------------------------------------------------------
(***************************************************************************)
(* Types.                                                                  *)
(***************************************************************************)
LineageType == [declared: Declarations, upstream: 1 .. MaxUpstream]
RawType == [lineage: LineageType, timing: 1 .. 2]
RecordType ==
    [declared: Declarations, fingerprint: 1 .. MaxUpstream, raw: RawType, summary: LineageType]

\* A file that is there has a content.
ASSUME NoneAssumption ==
    /\ None \notin RawType \cup LineageType \cup RecordType
    /\ None \notin [state: {"Blocked", "Completed"}, declared: Declarations]
    /\ \A S \in SUBSET Confirmatory : None \notin [S -> LineageType]

CellStateType ==
    [phase: {"todo", "done"}]
        \cup [phase: {"hashed"}, fingerprint: 1 .. MaxUpstream]
        \cup [phase: {"evaluated"}, read: 1 .. MaxUpstream, timing: 1 .. 2]
        \cup [phase: {"raw", "summary", "record"}, fingerprint: 1 .. MaxUpstream,
              read: 1 .. MaxUpstream, timing: 1 .. 2]

RunnerType ==
    {Idle}
        \cup [pc: {"check", "required", "publish"}, overwrite: BOOLEAN,
              alone: BOOLEAN, declared: Declarations]
        \cup UNION {[pc: {"cells"}, overwrite: BOOLEAN,
                     alone: BOOLEAN, declared: {d \in Declarations : d.material = m},
                     cell: [CellsOf[m] -> CellStateType]] : m \in Materials}

TypeOK ==
    /\ declared \in Declarations
    /\ upstream \in 0 .. MaxUpstream
    /\ raw \in [Cells -> RawType \cup {None}]
    /\ summary \in [Cells -> LineageType \cup {None}]
    /\ record \in [Cells -> RecordType \cup {None}]
    /\ statistic \in (UNION {[S -> LineageType] : S \in SUBSET Confirmatory}) \cup {None}
    /\ run \in [state: {"Blocked", "Completed"}, declared: Declarations] \cup {None}
    /\ runner \in [Runners -> RunnerType]
    /\ disturbances \in 0 .. MaxDisturbances
-----------------------------------------------------------------------------
(***************************************************************************)
(* Safety.                                                                 *)
(***************************************************************************)
\* A cell whose outputs verify against its record is the work of one evaluation,
\* under the configuration the record names, although two runs may interleave
\* their writes of its three files: the record carries the hashes of what its
\* own evaluation wrote (_evaluate_emhi_seed_cell, completion_record).
VerifiedCellIsOneEvaluation ==
    \A c \in Recorded : OutputsVerify(c) =>
        /\ raw[c].lineage = summary[c]
        /\ summary[c].declared = record[c].declared

\* An EMHI cell that a run would keep was evaluated from the upstream artifacts
\* as they are, although these may be replaced while it is evaluated: they are
\* hashed before they are read (_evaluate_emhi_seed_cell).
KeptCellsAreFresh ==
    \A c \in EmhiCells \cap Recorded :
        CellIsReusable(c, record[c].declared, upstream) => summary[c].upstream = upstream

\* What holds of the records whatever was killed, edited, lost or overlapped: a record
\* that verifies is of one evaluation, and what a run would keep was evaluated from the
\* artifacts as they are.
RunInvariant ==
    /\ TypeOK
    /\ VerifiedCellIsOneEvaluation
    /\ KeptCellsAreFresh

\* Every configuration asks for the same cells.
CellsAreFixed == \A m \in Materials : CellsOf[m] = Cells

\* The report that select_verified_evidence lets through covers every cell of the
\* configuration, and cells and statistics all come from that configuration:
\* whatever was killed, edited, lost or run twice, and although the report looks
\* only at the records it finds.
ReportedEvidenceIsCurrent ==
    ReportAccepts(declared) =>
        /\ \A c \in CellsOf[declared.material] :
            record[c] # None /\ summary[c].declared = declared
        /\ statistic # None
        /\ \A c \in DOMAIN statistic : statistic[c].declared = declared

\* README.md: a plain run reuses completed cells: the evaluation of an EMHI cell is
\* replaced only by a run that was told to, that overlaps another one, or whose
\* configuration or inputs are others than the cell's.
CompletedEmhiCellsAreKept ==
    [][\A c \in EmhiCells : raw'[c] \notin {raw[c], None} =>
        \E r \in Runners :
            /\ WriteRaw(r, c)
            /\ \/ runner[r].overwrite
               \/ ~runner[r].alone
               \/ ~CellIsReusable(c, runner[r].declared, runner[r].cell[c].fingerprint)]_vars

(***************************************************************************)
(* The inductive invariant: what the properties above rest on.             *)
(***************************************************************************)
\* What was read was there, and is not newer than what is there now.
IsRead(v) == upstream # 0 => v <= upstream

\* A record is of one evaluation, which read its inputs after it had hashed them.
RecordsAreHonest ==
    \A c \in Recorded :
        /\ record[c].raw.lineage = record[c].summary
        /\ record[c].summary.declared = record[c].declared
        /\ IsRead(record[c].summary.upstream)
        /\ c \in EmhiCells => record[c].fingerprint <= record[c].summary.upstream

\* So will be the record of a cell under way.
CellIsHonest(r, c) ==
    LET state == runner[r].cell[c]
    IN  /\ state.phase = "hashed" => c \in EmhiCells /\ IsRead(state.fingerprint)
        /\ state.phase = "evaluated" => c \in ComparatorCells /\ IsRead(state.read)
        /\ state.phase \in {"raw", "summary", "record"} =>
            IsRead(state.read) /\ (c \in EmhiCells => state.fingerprint <= state.read)

WorkIsHonest == \A r \in Runners : \A c \in Cells : Evaluating(r, c) => CellIsHonest(r, c)

\* The cells of a configuration all have records, and there are statistics.
IsComplete(d) == CellsOf[d.material] \subseteq Recorded /\ statistic # None

\* What counts as done has a record, and what counts as completed has them all.
CompletionIsRecorded ==
    /\ \A r \in Runners : \A c \in Cells :
        Evaluating(r, c) /\ Phase(r, c) = "done" => c \in Recorded
    /\ \A r \in Runners : runner[r].pc = "publish" => IsComplete(runner[r].declared)
    /\ run # None /\ run.state = "Completed" => IsComplete(run.declared)

AloneIsAlone ==
    \A r \in Runners : Active(r) /\ runner[r].alone => \A q \in Runners \ {r} : ~Active(q)

\* A plain run that is alone evaluates no cell that could be kept.
EvaluatedIsNotKept ==
    \A r \in Runners : \A c \in EmhiCells :
        Evaluating(r, c) /\ Phase(r, c) \in {"hashed", "raw"}
            /\ runner[r].alone /\ ~runner[r].overwrite
        => ~CellIsReusable(c, runner[r].declared, runner[r].cell[c].fingerprint)

RunInduction ==
    /\ TypeOK
    /\ RecordsAreHonest
    /\ WorkIsHonest
    /\ CompletionIsRecorded
    /\ AloneIsAlone
    /\ EvaluatedIsNotKept

(***************************************************************************)
(* Liveness.                                                               *)
(***************************************************************************)
\* Repeating the plain command repairs the experiment: when the upstream artifacts are
\* always of one version, the runs come back from any damage to a state in
\* which the report accepts the experiment and status shows it as valid, and stay there,
\* although the three commands compare different digests.
ExperimentConverges ==
    (\E v \in 1 .. MaxUpstream : [](upstream \in {0, v})) 
        => <>[](ReportAccepts(declared) /\ Status(declared) = "valid")
=============================================================================

---------------------------- MODULE SyntheticPool ----------------------------
(***************************************************************************)
(* A synthetic experiment and its worker pool                              *)
(* (execute_synthetic_experiment, experiments/synthetic_execution.py).     *)
(*                                                                         *)
(* The cells are numbered in the order of the contract.  Cells that need   *)
(* the same computation share one dispatch, which is named by the first of *)
(* them.  The parent keeps the dispatches whose checkpoint is compatible   *)
(* and hands the others to a pool, a bounded number at a time, in order.   *)
(* Executions end in any order and the parent publishes each as it comes:  *)
(* diagnostic, checkpoint and cell record, one cell after the other.  When *)
(* all are published it derives the statistics and the run record.  The    *)
(* command may be killed at any step, the pool with it.                    *)
(***************************************************************************)
EXTENDS Naturals, FiniteSets, Sequences, FiniteSetsExt, SequencesExt

CONSTANTS
    CellCount,       \* how many cells the contract asks for
    DispatchOf,      \* the dispatch of each cell
    Workers,         \* the configured number of worker processes
    Unreliable,      \* dispatches that may end in a technical failure
    Losable,         \* cells whose files may be lost
    Materials,       \* material digests of the configurations
    Semantics,       \* semantic digests of the experiment: code versions
    First,           \* what the first command may load
    None,            \* a file that does not exist
    MaxDisturbances  \* bound: kills, edits, losses, technical failures, forced runs

Cells == 1 .. CellCount
Declarations == [material: Materials, semantics: Semantics]
Dispatches == {DispatchOf[c] : c \in Cells}
CellsFor(d) == {c \in Cells : DispatchOf[c] = d}

ASSUME ConstantsAssumption ==
    /\ CellCount \in Nat \ {0}
    /\ DispatchOf \in [Cells -> Cells]
    /\ \A c \in Cells : DispatchOf[c] <= c /\ DispatchOf[DispatchOf[c]] = DispatchOf[c]
    /\ Workers \in Nat \ {0}
    /\ Unreliable \subseteq Dispatches
    /\ Losable \subseteq Cells
    /\ First \subseteq Declarations /\ First # {}
    /\ MaxDisturbances \in Nat

VARIABLES
    declared,      \* configuration and semantics a command started now loads
    diagnostic,    \* diagnostic file of each cell
    checkpoint,    \* checkpoint file of each cell
    record,        \* scientific cell record of each cell
    statistic,     \* the cells whose observations the statistics aggregate, in order
    run,           \* the run record
    parent,        \* the command and its pool
    disturbances   \* how many disturbances have happened

files == <<diagnostic, checkpoint, record, statistic, run>>
vars == <<declared, files, parent, disturbances>>

\* What an execution returns: the computation it stands for and how it ended.  A
\* scientific check that does not pass is treated like a failure in all that
\* follows.  Executions carry their run times, so that two of them differ.
Executions ==
    [lineage: Declarations, state: {"Completed", "Failed"}, timing: 1 .. 2]

-----------------------------------------------------------------------------
Recorded == {c \in Cells : record[c] # None}

\* The diagnostic and the checkpoint are there and hash to what the record says.
OutputsVerify(c) ==
    /\ diagnostic[c] # None /\ diagnostic[c] = record[c].diagnostic
    /\ checkpoint[c] # None /\ checkpoint[c] = record[c].checkpoint

\* _existing_completed_run, without --overwrite
RunIsReusable(d) ==
    /\ run # None
    /\ run.state = "Completed"
    /\ run.declared = d
    /\ Recorded # {}
    /\ \A c \in Recorded :
        /\ record[c].state = "Completed"
        /\ record[c].declared = d
        /\ OutputsVerify(c)

\* Mutant: a checkpoint is reused although its execution failed.
CheckpointIsReusableWhateverItsState(c, d) ==
    /\ checkpoint[c] # None
    /\ checkpoint[c].material = d.material

\* load_reusable_checkpoint
CheckpointIsReusable(c, d) ==
    /\ checkpoint[c] # None
    /\ checkpoint[c].material = d.material
    /\ checkpoint[c].execution.state = "Completed"

-----------------------------------------------------------------------------
Idle == [pc |-> "idle"]

Active == parent # Idle

Init ==
    /\ declared \in First
    /\ diagnostic = [c \in Cells |-> None]
    /\ checkpoint = [c \in Cells |-> None]
    /\ record = [c \in Cells |-> None]
    /\ statistic = None
    /\ run = None
    /\ parent = Idle
    /\ disturbances = 0

Disturb ==
    /\ disturbances < MaxDisturbances
    /\ disturbances' = disturbances + 1

\* The plain command, or one with --overwrite, which counts as a disturbance.
Start(overwrite) ==
    /\ ~Active
    /\ IF overwrite THEN Disturb ELSE UNCHANGED disturbances
    /\ parent' = [pc |-> "check", overwrite |-> overwrite, declared |-> declared]
    /\ UNCHANGED <<declared, files>>

CheckReuse ==
    /\ parent.pc = "check"
    /\ parent' = IF ~parent.overwrite /\ RunIsReusable(parent.declared) THEN Idle
                 ELSE [parent EXCEPT !.pc = "scan"]
    /\ UNCHANGED <<declared, files, disturbances>>

\* Mutant: everything that is pending is submitted at once.
InFlightLimitOfAll(workers) == CellCount

\* The parent keeps twice as many executions in flight as there are workers.
InFlightLimit(workers) == 2 * workers

\* The first n of a set of dispatches, in order.
FirstOf(n, S) == {d \in S : Cardinality({e \in S : e < d}) < n}

\* Mutant: checkpoints are not looked for.
ScanNothing(me) == {}

\* Checkpoints are looked up under the dispatch, not under each of its cells.
ScanCheckpoints(me) ==
    IF me.overwrite THEN {} ELSE {d \in Dispatches : CheckpointIsReusable(d, me.declared)}

\* The compatible checkpoints are loaded and set aside to be published again;
\* the pool is filled for the first time.
Scan ==
    /\ parent.pc = "scan"
    /\ LET reused == ScanCheckpoints(parent)
           tasks == Dispatches \ reused
           workers == Max({1, Min({Cardinality(tasks), Workers})})
           first == FirstOf(InFlightLimit(workers), tasks)
       IN  parent' =
            [pc |-> "reused", overwrite |-> parent.overwrite, declared |-> parent.declared,
             workers |-> workers,
             result |-> [d \in Dispatches |->
                            IF d \in reused THEN checkpoint[d].execution ELSE None],
             reused |-> reused, pending |-> tasks \ first, futures |-> first,
             running |-> {}, batch |-> {}, writing |-> 0, stage |-> "diagnostic",
             slots |-> [c \in Cells |-> <<>>], failed |-> FALSE]
    /\ UNCHANGED <<declared, files, disturbances>>

-----------------------------------------------------------------------------
(***************************************************************************)
(* The pool.  It starts when the reused executions have been published.    *)
(***************************************************************************)
\* Workers take what was submitted first.
Begin ==
    /\ parent.pc = "pool"
    /\ Cardinality(parent.running) < parent.workers
    /\ LET waiting == {d \in parent.futures \ parent.running : parent.result[d] = None}
       IN  /\ waiting # {}
           /\ parent' = [parent EXCEPT !.running = @ \cup {Min(waiting)}]
    /\ UNCHANGED <<declared, files, disturbances>>

\* A technical failure that outlives its retries is caught and returned as a
\* failed execution.
Finish(d) ==
    /\ parent.pc = "pool"
    /\ d \in parent.running
    /\ \E e \in Executions :
        /\ e.lineage = parent.declared
        /\ IF e.state = "Failed" THEN d \in Unreliable /\ Disturb ELSE UNCHANGED disturbances
        /\ parent' = [parent EXCEPT !.running = @ \ {d}, !.result[d] = e]
    /\ UNCHANGED <<declared, files>>

Finished == {d \in parent.futures : parent.result[d] # None}

\* The parent waits until something has finished.
Wait ==
    /\ parent.pc = "pool"
    /\ parent.writing = 0
    /\ parent.batch = {}
    /\ Finished # {}
    /\ parent' = [parent EXCEPT !.batch = Finished]
    /\ UNCHANGED <<declared, files, disturbances>>

\* submit_one: the next that is pending.
Refill(me) == IF me.pending = {} THEN {} ELSE {Min(me.pending)}

\* One finished execution, whichever, is taken out and another is submitted
\* before the result is published.
Take(d) ==
    /\ parent.pc = "pool"
    /\ parent.writing = 0
    /\ d \in parent.batch
    /\ LET next == Refill(parent)
       IN  parent' = [parent EXCEPT !.batch = @ \ {d},
                                    !.futures = (@ \ {d}) \cup next,
                                    !.pending = @ \ next,
                                    !.writing = d]
    /\ UNCHANGED <<declared, files, disturbances>>

TakeReused ==
    /\ parent.pc = "reused"
    /\ parent.writing = 0
    /\ IF parent.reused = {}
       THEN parent' = [parent EXCEPT !.pc = "pool"]
       ELSE parent' = [parent EXCEPT !.reused = @ \ {Min(@)}, !.writing = Min(parent.reused)]
    /\ UNCHANGED <<declared, files, disturbances>>

-----------------------------------------------------------------------------
(***************************************************************************)
(* Publishing one cell of the execution that was taken.                    *)
(***************************************************************************)
Writing(stage) == parent.pc \in {"reused", "pool"} /\ parent.writing # 0 /\ parent.stage = stage

Execution == parent.result[DispatchOf[parent.writing]]

CheckpointOf(e) == [material |-> parent.declared.material, execution |-> e]

WriteDiagnostic ==
    /\ Writing("diagnostic")
    /\ diagnostic' = [diagnostic EXCEPT ![parent.writing] = Execution]
    /\ parent' = [parent EXCEPT !.stage = "checkpoint"]
    /\ UNCHANGED <<declared, checkpoint, record, statistic, run, disturbances>>

\* Mutant: observations are kept in the order of arrival.
SlotOfArrival(c) == 1

\* Each cell has a slot for its observations.
SlotOf(c) == c

WriteCheckpoint ==
    /\ Writing("checkpoint")
    /\ checkpoint' = [checkpoint EXCEPT ![parent.writing] = CheckpointOf(Execution)]
    /\ parent' = [parent EXCEPT !.stage = "record",
                    !.slots[SlotOf(parent.writing)] =
                        IF Execution.state = "Completed" THEN Append(@, parent.writing) ELSE @]
    /\ UNCHANGED <<declared, diagnostic, record, statistic, run, disturbances>>

\* The record closes the cell; the next cell of the same dispatch follows.
WriteRecord ==
    /\ Writing("record")
    /\ record' = [record EXCEPT ![parent.writing] =
            [declared |-> parent.declared, state |-> Execution.state,
             diagnostic |-> Execution, checkpoint |-> CheckpointOf(Execution)]]
    /\ LET rest == {c \in CellsFor(DispatchOf[parent.writing]) : c > parent.writing}
       IN  parent' = [parent EXCEPT !.stage = "diagnostic",
                                    !.writing = IF rest = {} THEN 0 ELSE Min(rest),
                                    !.failed = @ \/ Execution.state # "Completed"]
    /\ UNCHANGED <<declared, diagnostic, checkpoint, statistic, run, disturbances>>

-----------------------------------------------------------------------------
\* The slots are joined in the order of the cells.
DeriveStatistics ==
    /\ parent.pc = "pool"
    /\ parent.futures = {}
    /\ parent.writing = 0
    /\ statistic' = FlattenSeq(parent.slots)
    /\ parent' = [parent EXCEPT !.pc = "publish"]
    /\ UNCHANGED <<declared, diagnostic, checkpoint, record, run, disturbances>>

PublishRun ==
    /\ parent.pc = "publish"
    /\ run' = [state |-> IF parent.failed THEN "Invalid" ELSE "Completed",
               declared |-> parent.declared]
    /\ parent' = Idle
    /\ UNCHANGED <<declared, diagnostic, checkpoint, record, statistic, disturbances>>

-----------------------------------------------------------------------------
(***************************************************************************)
(* The environment.                                                        *)
(***************************************************************************)
EditDeclared ==
    /\ Disturb
    /\ declared' \in Declarations \ {declared}
    /\ UNCHANGED <<files, parent>>

\* A lost worker breaks the pool and ends the command as a kill does.
Kill ==
    /\ Disturb
    /\ Active
    /\ parent' = Idle
    /\ UNCHANGED <<declared, files>>

LoseFile(c) ==
    /\ Disturb
    /\ ~Active
    /\ \/ /\ diagnostic[c] # None
          /\ diagnostic' = [diagnostic EXCEPT ![c] = None]
          /\ UNCHANGED checkpoint
       \/ /\ checkpoint[c] # None
          /\ checkpoint' = [checkpoint EXCEPT ![c] = None]
          /\ UNCHANGED diagnostic
    /\ UNCHANGED <<declared, record, statistic, run, parent>>

ParentStep ==
    \/ CheckReuse \/ Scan
    \/ Wait \/ TakeReused \/ \E d \in Dispatches : Take(d)
    \/ WriteDiagnostic \/ WriteCheckpoint \/ WriteRecord
    \/ DeriveStatistics \/ PublishRun

WorkerStep == Begin \/ \E d \in Dispatches : Finish(d)

Environment == EditDeclared \/ Kill \/ \E c \in Losable : LoseFile(c)

Next ==
    \/ \E overwrite \in BOOLEAN : Start(overwrite)
    \/ ParentStep
    \/ WorkerStep
    \/ Environment

Spec == Init /\ [][Next]_vars

\* The parent and each worker go on, and the operator repeats the plain command.
Fairness ==
    /\ WF_vars(Start(FALSE))
    /\ WF_vars(ParentStep)
    /\ WF_vars(Begin)
    /\ \A d \in Dispatches : WF_vars(Finish(d))

FairSpec == Spec /\ Fairness
-----------------------------------------------------------------------------
(***************************************************************************)
(* Types.                                                                  *)
(***************************************************************************)
CheckpointType == [material: Materials, execution: Executions]
RecordType ==
    [declared: Declarations, state: {"Completed", "Failed"},
     diagnostic: Executions, checkpoint: CheckpointType]

ASSUME NoneAssumption ==
    /\ None \notin Executions
    /\ None \notin CheckpointType
    /\ None \notin RecordType

\* The parent from the scan to the run record.
PoolType ==
    [pc: {"reused", "pool", "publish"}, overwrite: BOOLEAN, declared: Declarations,
     workers: 1 .. Workers, result: [Dispatches -> Executions \cup {None}],
     reused: SUBSET Dispatches, pending: SUBSET Dispatches, futures: SUBSET Dispatches,
     running: SUBSET Dispatches, batch: SUBSET Dispatches,
     writing: Cells \cup {0}, stage: {"diagnostic", "checkpoint", "record"},
     slots: [Cells -> Seq(Cells)], failed: BOOLEAN]

ParentOK ==
    \/ parent = Idle
    \/ parent \in [pc: {"check", "scan"}, overwrite: BOOLEAN, declared: Declarations]
    \/ /\ parent \in PoolType
       /\ parent.running \subseteq parent.futures \ Finished
       /\ parent.batch \subseteq Finished

TypeOK ==
    /\ declared \in Declarations
    /\ diagnostic \in [Cells -> Executions \cup {None}]
    /\ checkpoint \in [Cells -> CheckpointType \cup {None}]
    /\ record \in [Cells -> RecordType \cup {None}]
    /\ run \in [state: {"Completed", "Invalid"}, declared: Declarations] \cup {None}
    /\ disturbances \in 0 .. MaxDisturbances
    /\ ParentOK

-----------------------------------------------------------------------------
(***************************************************************************)
(* Safety.                                                                 *)
(***************************************************************************)
\* What a kill can throw away is bounded: finished executions that are not yet
\* published fit in the window of submissions and the one being written,
\* however many cells the experiment has (submit_one and the initial fill).
LostWorkIsBounded ==
    parent.pc = "pool" =>
        LET taken == IF parent.writing = 0 THEN {} ELSE {DispatchOf[parent.writing]}
        IN  Cardinality(Finished \cup taken) <= 2 * Workers + 1

\* README.md: a command that was stopped and is started again executes no cell
\* whose checkpoint was published, wherever the stop fell, and although cells
\* that share a dispatch are published one after the other and only the first
\* one's checkpoint is looked up: unless a run of another configuration, or a
\* failed execution, has replaced that one since.
ResumeNeverRecomputes ==
    [][\A d \in Dispatches :
        /\ Active /\ parent.pc = "pool" /\ ~parent.overwrite
        /\ d \notin parent.running
        /\ Active' /\ parent'.pc = "pool" /\ d \in parent'.running
        => \A c \in CellsFor(d) : CheckpointIsReusable(c, parent.declared) =>
            /\ checkpoint[d] # None
            /\ ~CheckpointIsReusable(d, parent.declared)]_vars

\* The run record says Completed only when every cell of the contract, reused or
\* executed, has a record of this configuration with outputs that verify, and
\* the statistics aggregate all of them in the order of the cells and not in the
\* order in which the pool returned them.
CompletionIsPublishedLast ==
    [][run' # run /\ run'.state = "Completed" =>
        /\ Recorded = Cells
        /\ \A c \in Cells : record[c].declared = run'.declared /\ OutputsVerify(c)
        /\ statistic = [i \in Cells |-> i]]_vars

\* What holds of the parent process and its pool at all times: what it tracks is of its
\* type, and what a kill would throw away is bounded.
PoolInvariant == TypeOK /\ LostWorkIsBounded

(***************************************************************************)
(* The inductive invariant: every dispatch is in one place, and every cell *)
(* that is in none of them is published.                                   *)
(***************************************************************************)
InPool == parent.pc \in {"reused", "pool", "publish"}

\* The dispatches of which nothing is published yet.
Outstanding(me) == me.reused \cup me.pending \cup me.futures

IsInOnePlace(me) ==
    /\ me.reused \cap me.pending = {} /\ me.reused \cap me.futures = {}
    /\ me.pending \cap me.futures = {}
    /\ me.writing # 0 => DispatchOf[me.writing] \notin Outstanding(me)

\* The cell is still to be published, be it the one that is being written.
IsRemaining(me, c) ==
    \/ DispatchOf[c] \in Outstanding(me)
    \/ me.writing # 0 /\ DispatchOf[c] = DispatchOf[me.writing] /\ c >= me.writing

\* The files and the slot of a cell hold the execution of its dispatch.
HasDiagnostic(me, c) == diagnostic[c] = me.result[DispatchOf[c]]
HasCheckpoint(me, c) ==
    checkpoint[c] = [material |-> me.declared.material, execution |-> me.result[DispatchOf[c]]]
HasRecord(me, c) ==
    record[c] = [declared |-> me.declared, state |-> me.result[DispatchOf[c]].state,
                 diagnostic |-> diagnostic[c], checkpoint |-> checkpoint[c]]
HasSlot(me, c) ==
    me.slots[c] = IF me.result[DispatchOf[c]].state = "Completed" THEN <<c>> ELSE <<>>

IsPublished(me, c) ==
    /\ me.result[DispatchOf[c]] # None
    /\ HasDiagnostic(me, c) /\ HasCheckpoint(me, c) /\ HasRecord(me, c) /\ HasSlot(me, c)
    /\ me.failed \/ me.result[DispatchOf[c]].state = "Completed"

\* Each cell is published, or its slot is empty, or it is being written.
CellsArePublished(me) ==
    \A c \in Cells :
        \/ ~IsRemaining(me, c) /\ IsPublished(me, c)
        \/ IsRemaining(me, c) /\ me.slots[c] = <<>>
        \/ c = me.writing /\ me.stage = "record"

\* The stages of the cell that is being written.
CellIsWritten(me) ==
    IF me.writing = 0 THEN me.stage = "diagnostic"
    ELSE /\ me.result[DispatchOf[me.writing]] # None
         /\ me.stage # "diagnostic" => HasDiagnostic(me, me.writing)
         /\ me.stage = "record" => HasCheckpoint(me, me.writing) /\ HasSlot(me, me.writing)

\* The window of submissions is bounded and empty only when nothing is pending.
WindowIsFull(me) ==
    /\ Cardinality(me.futures) <= 2 * me.workers
    /\ me.futures = {} => me.pending = {}

\* The phases follow one another: reused, pool, publish.
PhasesFollow(me) ==
    /\ \A d \in me.reused : me.result[d] # None
    /\ me.pc # "reused" => me.reused = {}
    /\ me.pc = "publish" =>
        /\ me.futures = {} /\ me.writing = 0
        /\ statistic = FlattenSeq(me.slots)

\* What is to be executed has no checkpoint that could be reused.
NothingToReuse(me) ==
    ~me.overwrite => \A d \in me.pending \cup {d \in me.futures : me.result[d] = None} :
        ~CheckpointIsReusable(d, me.declared)

\* The first cell of a dispatch, whose checkpoint is the one looked up, is never lost.
LookedUpIsNotLost == Losable \cap Dispatches = {}

\* Then a dispatch with any checkpoint has that of its first cell.
FirstCellsComeFirst ==
    LookedUpIsNotLost => \A c \in Cells : checkpoint[c] # None => checkpoint[DispatchOf[c]] # None

PoolIsSound(me) ==
    /\ IsInOnePlace(me) /\ CellsArePublished(me) /\ CellIsWritten(me)
    /\ WindowIsFull(me) /\ PhasesFollow(me) /\ NothingToReuse(me)

PoolInduction ==
    /\ TypeOK
    /\ InPool => PoolIsSound(parent)
    /\ FirstCellsComeFirst

(***************************************************************************)
(* Liveness.                                                               *)
(***************************************************************************)
\* Whatever was killed, lost or failed for technical reasons, repeating the
\* plain command completes the experiment, and it stays complete.
PoolConverges == <>[]RunIsReusable(declared)
=============================================================================

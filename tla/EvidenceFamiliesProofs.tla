------------------------ MODULE EvidenceFamiliesProofs ------------------------
(***************************************************************************)
(* Proofs about EvidenceFamilies, for every set of experiments, every      *)
(* number of configurations and of versions of the data, and every bound   *)
(* on disturbances.                                                        *)
(***************************************************************************)
EXTENDS EvidenceFamilies, FiniteSetTheorems, TLAPS

-----------------------------------------------------------------------------
(***************************************************************************)
(* Facts about the parts of the state.                                     *)
(***************************************************************************)

\* There is a first configuration, and each has numbers.
LEMMA ConfigurationsHaveNumbers ==
    /\ 1 \in Configurations
    /\ \A m \in Configurations : EvaluationOf[m] \in Nat /\ AnalysisOf[m] \in Nat
<1> DEFINE N == Cardinality(Configurations)
<1>1. N \in Nat \ {0} /\ Configurations = 1 .. N
  BY ConstantsAssumption
<1>2. \A m \in Configurations : EvaluationOf[m] \in Nat /\ AnalysisOf[m] \in Nat
  BY ConstantsAssumption
<1> HIDE DEF N
<1> QED BY <1>1, <1>2

\* What an evaluation leaves is typed.
LEMMA EvaluationsAreTyped ==
    ASSUME NEW m \in Configurations, NEW d \in 1 .. Data
    PROVE  /\ RawOf(m, d) \in Raws
           /\ d \in WithCampaigns => SummaryOf(m, d) \in Summaries
<1>1. EvaluationOf[m] \in Nat /\ Data \in Nat
  BY ConfigurationsHaveNumbers, ConstantsAssumption
<1> QED BY <1>1 DEF RawOf, SummaryOf, Raws, Summaries

\* A run command under way has a running state.
LEMMA ActiveIsRunning ==
    ASSUME TypeOK, NEW c \in Runners, Active(c)
    PROVE  runner[c] \in Running
  BY DEF TypeOK, Active, At, Idle

\* A report under way has a reporting state.
LEMMA ReportingUnlessIdle ==
    ASSUME TypeOK, reporter.at # "idle"
    PROVE  reporter \in Reporting
  BY DEF TypeOK, Idle

\* The records at paths where there are records are a family of records.
LEMMA RecordsAreThere ==
    ASSUME TypeOK, NEW paths \in Paths, \A e \in Experiments : disk[e][paths[e]] # None
    PROVE  RecordsAt(paths) \in RecordFamilies
<1>1. ASSUME NEW e \in Experiments
      PROVE  disk[e][paths[e]] \in RecordsOf(Summaries) \cup RecordsOf(Raws)
  <2> DEFINE s == paths[e]
  <2>1. s \in {"tested", "notTested"} /\ disk[e][s] # None
    BY DEF Paths, Slots
  <2>2. disk[e] \in Files
    BY DEF TypeOK
  <2>3. disk[e].tested \in OrNone(RecordsOf(Summaries)) /\ disk[e].notTested \in OrNone(RecordsOf(Raws))
    BY <2>2 DEF Files
  <2> HIDE DEF s
  <2>4. CASE s = "tested"
    BY <2>1, <2>3, <2>4 DEF OrNone, s
  <2>5. CASE s = "notTested"
    BY <2>1, <2>3, <2>5 DEF OrNone, s
  <2> QED BY <2>1, <2>4, <2>5
<1> QED BY <1>1 DEF RecordsAt, RecordFamilies

\* Where every experiment has a record, a path to one of each can be chosen.
LEMMA SlotsAreChosen ==
    ASSUME NEW e \in Experiments, Records(e) # {}
    PROVE  TheSlot(e) \in Slots /\ TheSlot(e) # None /\ disk[e][TheSlot(e)] # None
<1>1. PICK s \in Records(e) : s = (CHOOSE x \in Records(e) : TRUE)
  OBVIOUS
<1>2. s \in Slots /\ disk[e][s] # None
  BY DEF Records
<1> QED BY <1>1, <1>2, NoneAssumption DEF TheSlot
-----------------------------------------------------------------------------
(***************************************************************************)
(* What the steps of a run command change.                                 *)
(***************************************************************************)

\* To go on changes where a run command is and nothing else.
LEMMA GoMoves ==
    ASSUME TypeOK, NEW c \in Runners, Active(c), NEW where,
           where \in {"evaluate", "statistics", "publish", "collect", "hash", "write"},
           Go(c, where)
    PROVE  /\ runner' \in [Runners -> {Idle} \cup Running]
           /\ \A d \in Runners \ {c} : runner'[d] = runner[d]
           /\ runner'[c] \in Running
           /\ runner'[c].at = where
           /\ runner'[c].experiment = runner[c].experiment
           /\ runner'[c].material = runner[c].material
           /\ runner'[c].paths = runner[c].paths
           /\ runner'[c].results = runner[c].results
           /\ runner'[c].sources = runner[c].sources
<1>1. runner \in [Runners -> {Idle} \cup Running] /\ runner[c] \in Running
  BY ActiveIsRunning DEF TypeOK
<1>2. runner' = [runner EXCEPT ![c] = [runner[c] EXCEPT !.at = where]]
  BY DEF Go
<1>3. [runner[c] EXCEPT !.at = where] \in Running
  BY <1>1 DEF Running
<1> DEFINE new == [runner[c] EXCEPT !.at = where]
<1>4. /\ new.at = where /\ new.experiment = runner[c].experiment
      /\ new.material = runner[c].material
      /\ new.paths = runner[c].paths
      /\ new.results = runner[c].results /\ new.sources = runner[c].sources
  BY <1>1 DEF Running
<1>5. runner' = [runner EXCEPT ![c] = new]
  BY <1>2
<1>6. new \in Running
  BY <1>3
<1> HIDE DEF new
<1>7. runner'[c] = new /\ \A d \in Runners \ {c} : runner'[d] = runner[d]
  BY <1>1, <1>5
<1>8. runner' \in [Runners -> {Idle} \cup Running]
  BY <1>1, <1>5, <1>6
<1> QED BY <1>4, <1>6, <1>7, <1>8

\* To fail leaves the command idle.
LEMMA FailStops ==
    ASSUME TypeOK, NEW c \in Runners, Fail(c)
    PROVE  /\ runner' \in [Runners -> {Idle} \cup Running]
           /\ \A d \in Runners \ {c} : runner'[d] = runner[d]
           /\ runner'[c] = Idle
  BY DEF TypeOK, Fail

\* An evaluation replaces the evaluation, its summary where there is one, and the cell.
LEMMA EvaluateWrites ==
    ASSUME TypeOK, NEW c \in Runners, Evaluate(c), NEW e, runner[c].experiment = e
    PROVE  /\ e \in Experiments
           /\ disk' \in [Experiments -> Files]
           /\ \A x \in Experiments \ {e} : disk'[x] = disk[x]
           /\ disk'[e].raw = RawOf(runner[c].material, data)
           /\ disk'[e].summary = IF data \in WithCampaigns THEN SummaryOf(runner[c].material, data)
                                 ELSE disk[e].summary
           /\ disk'[e].tested = disk[e].tested
           /\ disk'[e].notTested = disk[e].notTested
           /\ disk'[e].run = disk[e].run
<1> DEFINE m == runner[c].material
           raw == RawOf(m, data)
           summary == IF data \in WithCampaigns THEN SummaryOf(m, data) ELSE None
           cell == [material |-> m, raw |-> raw, summary |-> summary]
           old == disk[e]
           new == [old EXCEPT !.raw = raw, !.summary = IF summary = None THEN @ ELSE summary,
                              !.cell = cell]
<1>1. runner[c] \in Running
  BY ActiveIsRunning DEF Evaluate, EvaluateTo, Active, At
<1>2. e \in Experiments /\ m \in Configurations
  BY <1>1 DEF Running
<1>3. data \in 1 .. Data /\ disk \in [Experiments -> Files]
  BY DEF TypeOK
<1>4. raw \in Raws /\ summary \in OrNone(Summaries)
      /\ (data \in WithCampaigns => summary # None)
  BY <1>2, <1>3, EvaluationsAreTyped, NoneAssumption DEF OrNone
<1>5. cell \in CellRecords
  BY <1>2, <1>4 DEF CellRecords
<1>6. disk' = [disk EXCEPT ![e] = new]
  BY DEF Evaluate, EvaluateTo
<1>7. old \in Files
  BY <1>2, <1>3
<1>8. data \notin WithCampaigns => summary = None
  OBVIOUS
<1>9. data \in WithCampaigns => summary = SummaryOf(m, data)
  OBVIOUS
<1> HIDE DEF summary, raw, cell, old
<1>10. new \in Files
  BY <1>4, <1>5, <1>7 DEF Files, OrNone
<1>11. /\ new.raw = raw /\ new.summary = IF summary = None THEN old.summary ELSE summary
       /\ new.tested = old.tested /\ new.notTested = old.notTested /\ new.run = old.run
  BY <1>7 DEF Files
<1> HIDE DEF new
<1>12. disk'[e] = new /\ disk' \in [Experiments -> Files]
       /\ \A x \in Experiments \ {e} : disk'[x] = disk[x]
  BY <1>2, <1>3, <1>6, <1>10
<1>13. new.summary = IF data \in WithCampaigns THEN SummaryOf(m, data) ELSE old.summary
  BY <1>4, <1>8, <1>9, <1>11
<1> QED BY <1>2, <1>11, <1>12, <1>13 DEF raw, old

\* A record of a test is a record of summaries.
LEMMA RecordsAreTyped ==
    ASSUME NEW of, NEW m \in Configurations, NEW conclusive \in BOOLEAN
    PROVE  LET record == [analysis |-> AnalysisOf[m], of |-> of, conclusive |-> conclusive]
           IN  /\ of \in OrNone(Summaries) => record \in RecordsOf(Summaries)
               /\ of \in OrNone(Raws) => record \in RecordsOf(Raws)
  BY ConfigurationsHaveNumbers DEF RecordsOf

\* A record of a hypothesis without a test is of the evaluation, and not conclusive.
LEMMA WriteNotTestedWrites ==
    ASSUME TypeOK, NEW c \in Runners, WriteNotTested(c), NEW e, runner[c].experiment = e
    PROVE  /\ e \in Experiments
           /\ disk' \in [Experiments -> Files]
           /\ \A x \in Experiments \ {e} : disk'[x] = disk[x]
           /\ disk'[e].raw = disk[e].raw /\ disk'[e].summary = disk[e].summary
           /\ disk'[e].tested = disk[e].tested /\ disk'[e].run = disk[e].run
           /\ disk'[e].notTested # None /\ ~disk'[e].notTested.conclusive
<1> DEFINE record == [analysis |-> AnalysisOf[runner[c].material], of |-> disk[e].raw,
                      conclusive |-> FALSE]
           old == disk[e]
           new == [old EXCEPT !.notTested = record]
<1>1. runner[c] \in Running
  BY ActiveIsRunning DEF WriteNotTested, Active, At
<1>2. e \in Experiments /\ runner[c].material \in Configurations
  BY <1>1 DEF Running
<1>3. disk \in [Experiments -> Files]
  BY DEF TypeOK
<1>4. disk[e].raw \in OrNone(Raws)
  BY <1>2, <1>3 DEF Files
<1>5. record \in RecordsOf(Raws)
  BY <1>2, <1>4, RecordsAreTyped
<1>6. record # None /\ ~record.conclusive
  BY <1>5, NoneAssumption
<1>7. disk' = [disk EXCEPT ![e] = new] /\ old \in Files
  BY <1>2, <1>3 DEF WriteNotTested
<1> HIDE DEF record, old
<1>8. new \in Files
  BY <1>5, <1>7 DEF Files, OrNone
<1>9. /\ new.notTested = record /\ new.raw = old.raw /\ new.summary = old.summary
      /\ new.tested = old.tested /\ new.run = old.run
  BY <1>7 DEF Files
<1> HIDE DEF new
<1>10. disk' \in [Experiments -> Files] /\ disk'[e] = new
       /\ \A x \in Experiments \ {e} : disk'[x] = disk[x]
  BY <1>2, <1>3, <1>7, <1>8
<1> QED BY <1>2, <1>6, <1>9, <1>10 DEF old

\* A test, made or not, of the summary of an experiment.
WritesTest(m, e, conclusive) ==
    disk' = [disk EXCEPT ![e].tested =
        [analysis |-> AnalysisOf[m], of |-> disk[e].summary, conclusive |-> conclusive]]

\* A test writes its record, of the summary there is.
LEMMA TestWrites ==
    ASSUME TypeOK, NEW m \in Configurations, NEW e \in Experiments, NEW conclusive \in BOOLEAN,
           WritesTest(m, e, conclusive)
    PROVE  /\ disk' \in [Experiments -> Files]
           /\ \A x \in Experiments \ {e} : disk'[x] = disk[x]
           /\ disk'[e].raw = disk[e].raw /\ disk'[e].summary = disk[e].summary
           /\ disk'[e].notTested = disk[e].notTested /\ disk'[e].run = disk[e].run
           /\ disk'[e].tested # None /\ disk'[e].tested.of = disk[e].summary
           /\ disk'[e].tested.conclusive = conclusive
<1> DEFINE record == [analysis |-> AnalysisOf[m], of |-> disk[e].summary,
                      conclusive |-> conclusive]
           old == disk[e]
           new == [old EXCEPT !.tested = record]
<1>3. disk \in [Experiments -> Files]
  BY DEF TypeOK
<1>4. disk[e].summary \in OrNone(Summaries)
  BY <1>3 DEF Files
<1>5. record \in RecordsOf(Summaries)
  BY <1>4, RecordsAreTyped
<1>6. record # None /\ record.of = disk[e].summary /\ record.conclusive = conclusive
  BY <1>5, NoneAssumption
<1>7. disk' = [disk EXCEPT ![e] = new] /\ old \in Files
  BY <1>3 DEF WritesTest, record
<1> HIDE DEF record, old
<1>8. new \in Files
  BY <1>5, <1>7 DEF Files, OrNone
<1>9. /\ new.tested = record /\ new.raw = old.raw /\ new.summary = old.summary
      /\ new.notTested = old.notTested /\ new.run = old.run
  BY <1>7 DEF Files
<1> HIDE DEF new
<1>10. disk' \in [Experiments -> Files] /\ disk'[e] = new
       /\ \A x \in Experiments \ {e} : disk'[x] = disk[x]
  BY <1>3, <1>7, <1>8
<1> QED BY <1>6, <1>9, <1>10 DEF old

\* The run record names the configuration the run command started under.
LEMMA PublishRunWrites ==
    ASSUME TypeOK, NEW c \in Runners, PublishRun(c), NEW e, runner[c].experiment = e
    PROVE  /\ e \in Experiments
           /\ disk' \in [Experiments -> Files]
           /\ \A x \in Experiments \ {e} : disk'[x] = disk[x]
           /\ disk'[e].raw = disk[e].raw /\ disk'[e].summary = disk[e].summary
           /\ disk'[e].tested = disk[e].tested /\ disk'[e].notTested = disk[e].notTested
           /\ disk'[e].run = runner[c].material
<1> DEFINE old == disk[e]
           new == [old EXCEPT !.run = runner[c].material]
<1>1. runner[c] \in Running
  BY ActiveIsRunning DEF PublishRun, Active, At
<1>2. e \in Experiments /\ runner[c].material \in Configurations
  BY <1>1 DEF Running
<1>3. disk \in [Experiments -> Files]
  BY DEF TypeOK
<1>7. disk' = [disk EXCEPT ![e] = new] /\ old \in Files
  BY <1>2, <1>3 DEF PublishRun
<1> HIDE DEF old
<1>8. new \in Files
  BY <1>2, <1>7 DEF Files, OrNone
<1>9. /\ new.run = runner[c].material /\ new.raw = old.raw /\ new.summary = old.summary
      /\ new.tested = old.tested /\ new.notTested = old.notTested
  BY <1>7 DEF Files
<1> HIDE DEF new
<1>10. disk' \in [Experiments -> Files] /\ disk'[e] = new
       /\ \A x \in Experiments \ {e} : disk'[x] = disk[x]
  BY <1>2, <1>3, <1>7, <1>8
<1> QED BY <1>2, <1>9, <1>10 DEF old

\* A report writes tables and evidence sources and nothing else.
LEMMA ReportWrites ==
    ASSUME TypeOK, WriteTable \/ WriteSource
    PROVE  /\ disk' \in [Experiments -> Files]
           /\ \A x \in Experiments :
                /\ disk'[x].raw = disk[x].raw /\ disk'[x].summary = disk[x].summary
                /\ disk'[x].tested = disk[x].tested /\ disk'[x].notTested = disk[x].notTested
                /\ disk'[x].run = disk[x].run
<1>1. disk \in [Experiments -> Files]
  BY DEF TypeOK
<1>2. reporter \in Reporting
  BY ReportingUnlessIdle DEF WriteTable, WriteSource
<1>3. CASE Current \in Experiments /\ WriteTable
  <2> DEFINE e == Current
             old == disk[e]
             v == IF old.table = None THEN old.summary ELSE old.table
             new == [old EXCEPT !.table = v]
  <2>1. disk' = [disk EXCEPT ![e] = new] /\ old \in Files /\ e \in Experiments
    BY <1>1, <1>3 DEF WriteTable
  <2> HIDE DEF e, old
  <2>2. v \in OrNone(Summaries)
    BY <1>2, <2>1 DEF Reporting, Files
  <2> HIDE DEF v
  <2>3. new \in Files
    BY <2>1, <2>2 DEF Files, OrNone
  <2>4. /\ new.raw = old.raw /\ new.summary = old.summary /\ new.tested = old.tested
        /\ new.notTested = old.notTested /\ new.run = old.run
    BY <2>1 DEF Files
  <2> HIDE DEF new
  <2>5. disk' \in [Experiments -> Files] /\ disk'[e] = new
        /\ \A x \in Experiments \ {e} : disk'[x] = disk[x]
    BY <1>1, <2>1, <2>3
  <2> QED BY <2>4, <2>5 DEF old
<1>4. CASE Current \in Experiments /\ WriteSource
  <2> DEFINE e == Current
             old == disk[e]
             v == reporter.evidence
             new == [old EXCEPT !.source = v]
  <2>1. disk' = [disk EXCEPT ![e] = new] /\ old \in Files /\ e \in Experiments
    BY <1>1, <1>4 DEF WriteSource
  <2> HIDE DEF e, old
  <2>2. v \in OrNone(Evidences)
    BY <1>2, <2>1 DEF Reporting, Files
  <2> HIDE DEF v
  <2>3. new \in Files
    BY <2>1, <2>2 DEF Files, OrNone
  <2>4. /\ new.raw = old.raw /\ new.summary = old.summary /\ new.tested = old.tested
        /\ new.notTested = old.notTested /\ new.run = old.run
    BY <2>1 DEF Files
  <2> HIDE DEF new
  <2>5. disk' \in [Experiments -> Files] /\ disk'[e] = new
        /\ \A x \in Experiments \ {e} : disk'[x] = disk[x]
    BY <1>1, <2>1, <2>3
  <2> QED BY <2>4, <2>5 DEF old
<1>5. CASE Current \notin Experiments
  <2>1. disk' = disk
    <3> DEFINE T(v) == [disk EXCEPT ![Current].table = v]
               S(v) == [disk EXCEPT ![Current].source = v]
    <3>1. \A v : T(v) = disk /\ S(v) = disk
      BY <1>1, <1>5
    <3> QED BY <3>1 DEF WriteTable, WriteSource
  <2> QED BY <1>1, <2>1
<1> QED BY <1>3, <1>4, <1>5
-----------------------------------------------------------------------------
(***************************************************************************)
(* Type correctness, and that what a command holds is there.               *)
(***************************************************************************)
\* No evaluation and no record is removed, and no record without a test gets one.
RecordsStay ==
    \A e \in Experiments :
        /\ disk[e].raw # None => disk'[e].raw # None
        /\ disk[e].tested # None => disk'[e].tested # None
        /\ disk[e].notTested # None => disk'[e].notTested # None
        /\ \/ disk'[e].notTested = disk[e].notTested
           \/ disk'[e].notTested # None /\ ~disk'[e].notTested.conclusive

\* A step that leaves the records of the other experiments, and replaces or keeps those
\* of one, removes none.
LEMMA RecordsStayWhereKept ==
    ASSUME NEW e \in Experiments,
           \A x \in Experiments \ {e} : disk'[x] = disk[x],
           disk[e].raw # None => disk'[e].raw # None,
           disk[e].tested # None => disk'[e].tested # None,
           \/ disk'[e].notTested = disk[e].notTested
           \/ disk'[e].notTested # None /\ ~disk'[e].notTested.conclusive
    PROVE  RecordsStay
  BY DEF RecordsStay

\* A step of a run command leaves the files typed and removes none.
LEMMA StepKeepsFiles ==
    ASSUME TypeOK, NEW c \in Runners, HoldsItsFiles(c), Step(c)
    PROVE  disk' \in [Experiments -> Files] /\ RecordsStay
<1> DEFINE e == runner[c].experiment
<1>1. disk \in [Experiments -> Files]
  BY DEF TypeOK
<1>2. CASE Evaluate(c)
  <2>1. /\ e \in Experiments /\ disk' \in [Experiments -> Files]
        /\ \A x \in Experiments \ {e} : disk'[x] = disk[x]
        /\ disk'[e].raw = RawOf(runner[c].material, data)
        /\ disk'[e].tested = disk[e].tested /\ disk'[e].notTested = disk[e].notTested
    BY <1>2, EvaluateWrites
  <2>2. runner[c].material \in Configurations /\ data \in 1 .. Data
    BY <1>2, ActiveIsRunning DEF Evaluate, EvaluateTo, Active, At, Running, TypeOK
  <2>3. disk'[e].raw # None
    BY <2>1, <2>2, EvaluationsAreTyped, NoneAssumption
  <2> HIDE DEF e
  <2> QED BY <2>1, <2>3, RecordsStayWhereKept
<1>3. CASE WriteNotTested(c)
  <2>1. /\ e \in Experiments /\ disk' \in [Experiments -> Files]
        /\ \A x \in Experiments \ {e} : disk'[x] = disk[x]
        /\ disk'[e].raw = disk[e].raw /\ disk'[e].tested = disk[e].tested
        /\ disk'[e].notTested # None /\ ~disk'[e].notTested.conclusive
    BY <1>3, WriteNotTestedWrites
  <2> HIDE DEF e
  <2> QED BY <2>1, RecordsStayWhereKept
<1>4. ASSUME disk' = disk PROVE RecordsStay
  BY <1>4 DEF RecordsStay
<1>5. ASSUME NEW conclusive \in BOOLEAN, e \in Experiments, runner[c].material \in Configurations,
             WritesTest(runner[c].material, e, conclusive)
      PROVE  disk' \in [Experiments -> Files] /\ RecordsStay
  <2>1. /\ disk' \in [Experiments -> Files]
        /\ \A x \in Experiments \ {e} : disk'[x] = disk[x]
        /\ disk'[e].raw = disk[e].raw
        /\ disk'[e].notTested = disk[e].notTested
        /\ disk'[e].tested # None
    BY <1>5, TestWrites
  <2> HIDE DEF e
  <2> QED BY <1>5, <2>1, RecordsStayWhereKept
<1>6. CASE WriteContrast(c)
  <2>1. disk' = disk \/ WritesTest(runner[c].material, e, disk[e].summary # None)
    BY <1>6 DEF WriteContrast, WritesTest
  <2>2. e \in Experiments /\ runner[c].material \in Configurations
    BY <1>6, ActiveIsRunning DEF WriteContrast, Active, At, Running
  <2>3. (disk[e].summary # None) \in BOOLEAN
    OBVIOUS
  <2> QED BY <1>1, <1>4, <1>5, <2>1, <2>2, <2>3
<1>7. CASE WriteStrongLocal(c)
  <2>1. Active(c) /\ At(c, "statistics")
    BY <1>7 DEF WriteStrongLocal, Active, At
  <2>2. e \in Experiments /\ runner[c].material \in Configurations
    BY <2>1, ActiveIsRunning DEF Running
  <2>3. disk[e].raw \in OrNone(Raws) /\ disk[e].raw # None
    <3>1. disk[e] \in Files
      BY <1>1, <2>2
    <3> QED BY <2>1, <3>1 DEF Files, HoldsItsFiles
  <2>4. disk[e].raw.tested \in BOOLEAN
    BY <2>3 DEF OrNone, Raws
  <2>5. disk' = disk \/ WritesTest(runner[c].material, e, disk[e].raw.tested)
    BY <1>7 DEF WriteStrongLocal, WritesTest
  <2> QED BY <1>1, <1>4, <1>5, <2>2, <2>4, <2>5
<1>8. CASE PublishRun(c)
  <2>1. /\ e \in Experiments /\ disk' \in [Experiments -> Files]
        /\ \A x \in Experiments \ {e} : disk'[x] = disk[x]
        /\ disk'[e].raw = disk[e].raw
        /\ disk'[e].tested = disk[e].tested /\ disk'[e].notTested = disk[e].notTested
    BY <1>8, PublishRunWrites
  <2> HIDE DEF e
  <2> QED BY <2>1, RecordsStayWhereKept
<1>9. CASE Collect(c) \/ HashSources(c) \/ WriteFamily(c)
  BY <1>1, <1>4, <1>9 DEF Collect, HashSources, WriteFamily
<1> QED BY <1>2, <1>3, <1>6, <1>7, <1>8, <1>9 DEF Step

\* A run starts in a running state.
LEMMA StartIsTyped ==
    ASSUME TypeOK, NEW c \in Runners, NEW e \in Experiments,
           NEW where \in {"collect", "evaluate"},
           runner' = [runner EXCEPT ![c] = Runner(e, where)]
    PROVE  /\ runner' \in [Runners -> {Idle} \cup Running]
           /\ \A d \in Runners \ {c} : runner'[d] = runner[d]
           /\ runner'[c] = Runner(e, where)
           /\ runner'[c] \in Running
<1>1. runner \in [Runners -> {Idle} \cup Running] /\ material \in Configurations
  BY DEF TypeOK
<1>2. Runner(e, where) \in Running
  BY <1>1 DEF Runner, Running, OrNone
<1> QED BY <1>1, <1>2

\* What a run command holds of what it collected: the paths, and the records there.
LEMMA CollectHolds ==
    ASSUME TypeOK, NEW c \in Runners, Collect(c)
    PROVE  \/ Fail(c)
           \/ /\ IsAvailable(runner[c].material) /\ IsCollectable(runner[c].material)
              /\ \A e \in Experiments : Records(e) # {}
              /\ Chosen \in Paths /\ RecordsAt(Chosen) \in RecordFamilies
              /\ runner' \in [Runners -> {Idle} \cup Running]
              /\ \A d \in Runners \ {c} : runner'[d] = runner[d]
              /\ runner'[c].at = "hash" /\ runner'[c].paths = Chosen
              /\ runner'[c].results = RecordsAt(Chosen)
              /\ runner'[c].material = runner[c].material
<1> SUFFICES ASSUME ~Fail(c)
             PROVE  /\ IsAvailable(runner[c].material) /\ IsCollectable(runner[c].material)
                    /\ \A e \in Experiments : Records(e) # {}
                    /\ Chosen \in Paths /\ RecordsAt(Chosen) \in RecordFamilies
                    /\ runner' \in [Runners -> {Idle} \cup Running]
                    /\ \A d \in Runners \ {c} : runner'[d] = runner[d]
                    /\ runner'[c].at = "hash" /\ runner'[c].paths = Chosen
                    /\ runner'[c].results = RecordsAt(Chosen)
                    /\ runner'[c].material = runner[c].material
  OBVIOUS
<1> DEFINE new == [runner[c] EXCEPT !.at = "hash", !.paths = Chosen, !.results = RecordsAt(Chosen)]
<1>1. runner[c] \in Running /\ runner \in [Runners -> {Idle} \cup Running]
  BY ActiveIsRunning DEF Collect, Active, At, TypeOK
<1>2. IsAvailable(runner[c].material) /\ IsCollectable(runner[c].material)
  BY DEF Collect
<1>3. runner' = [runner EXCEPT ![c] = new]
  BY <1>2 DEF Collect
<1>4. \A e \in Experiments : Records(e) # {}
  BY <1>2 DEF IsAvailable
<1>5. Chosen \in Paths /\ \A e \in Experiments : disk[e][Chosen[e]] # None
  BY <1>4, SlotsAreChosen DEF Chosen, Paths
<1>6. RecordsAt(Chosen) \in RecordFamilies
  BY <1>5, RecordsAreThere
<1>7. new \in Running /\ new.at = "hash" /\ new.paths = Chosen /\ new.results = RecordsAt(Chosen)
      /\ new.material = runner[c].material
  BY <1>1, <1>5, <1>6 DEF Running, OrNone
<1> HIDE DEF new
<1>8. runner' \in [Runners -> {Idle} \cup Running] /\ runner'[c] = new
      /\ \A d \in Runners \ {c} : runner'[d] = runner[d]
  BY <1>1, <1>3, <1>7
<1> QED BY <1>2, <1>4, <1>5, <1>6, <1>7, <1>8

\* The sources that are hashed are the records at the paths the command holds.
LEMMA HashSourcesHolds ==
    ASSUME TypeOK, NEW c \in Runners, HoldsItsFiles(c), HashSources(c)
    PROVE  /\ runner[c].paths \in Paths /\ RecordsAt(runner[c].paths) \in RecordFamilies
           /\ runner' \in [Runners -> {Idle} \cup Running]
           /\ \A d \in Runners \ {c} : runner'[d] = runner[d]
           /\ runner'[c].at = "write"
           /\ runner'[c].sources = RecordsAt(runner[c].paths)
           /\ runner'[c].results = runner[c].results
           /\ runner'[c].material = runner[c].material
<1> DEFINE paths == runner[c].paths
           new == [runner[c] EXCEPT !.at = "write", !.sources = RecordsAt(paths)]
<1>1. runner[c] \in Running /\ runner \in [Runners -> {Idle} \cup Running] /\ At(c, "hash")
  BY ActiveIsRunning DEF HashSources, Active, At, TypeOK
<1>2. paths \in Paths /\ \A e \in Experiments : disk[e][paths[e]] # None
  BY <1>1 DEF HoldsItsFiles, Running, OrNone
<1>3. runner' = [runner EXCEPT ![c] = new]
  BY DEF HashSources
<1> HIDE DEF paths
<1>4. RecordsAt(paths) \in RecordFamilies
  BY <1>2, RecordsAreThere
<1>5. /\ new \in Running /\ new.at = "write" /\ new.sources = RecordsAt(paths)
      /\ new.results = runner[c].results /\ new.material = runner[c].material
  BY <1>1, <1>4 DEF Running, OrNone
<1> HIDE DEF new
<1>6. runner' \in [Runners -> {Idle} \cup Running] /\ runner'[c] = new
      /\ \A d \in Runners \ {c} : runner'[d] = runner[d]
  BY <1>1, <1>3, <1>5
<1> QED BY <1>2, <1>4, <1>5, <1>6 DEF paths

\* A run command that stays where it is still holds its files.
LEMMA HoldsIfKept ==
    ASSUME TypeOK, NEW d \in Runners, HoldsItsFiles(d), RecordsStay, runner'[d] = runner[d]
    PROVE  HoldsItsFiles(d)'
<1>1. CASE ~Active(d)
  BY <1>1 DEF Active, At, HoldsItsFiles
<1>2. CASE Active(d)
  <2>1. runner[d] \in Running
    BY <1>2, ActiveIsRunning
  <2>2. At(d, "statistics") => disk'[runner[d].experiment].raw # None
    BY <2>1 DEF HoldsItsFiles, RecordsStay, Running
  <2>3. ASSUME At(d, "hash"), NEW e \in Experiments PROVE disk'[e][runner[d].paths[e]] # None
    <3> DEFINE s == runner[d].paths[e]
    <3>1. disk[e][s] # None
      BY <2>3 DEF HoldsItsFiles
    <3>2. runner[d].paths \in Paths
      BY <2>1, <2>3 DEF HoldsItsFiles, Running, OrNone
    <3>3. s \in {"tested", "notTested"}
      BY <3>2 DEF Paths, Slots
    <3> HIDE DEF s
    <3> QED BY <3>1, <3>3 DEF RecordsStay, s
  <2> QED BY <2>2, <2>3 DEF HoldsItsFiles, At
<1> QED BY <1>1, <1>2

\* A step of a run command leaves the commands typed, and each holds its files.
LEMMA StepKeepsRunners ==
    ASSUME TypeOK, NEW c \in Runners, \A d \in Runners : HoldsItsFiles(d), Step(c)
    PROVE  /\ runner' \in [Runners -> {Idle} \cup Running]
           /\ \A d \in Runners : HoldsItsFiles(d)'
<1>1. HoldsItsFiles(c) /\ RecordsStay
  BY StepKeepsFiles
<1>2. SUFFICES /\ runner' \in [Runners -> {Idle} \cup Running]
               /\ \A d \in Runners \ {c} : runner'[d] = runner[d]
               /\ HoldsItsFiles(c)'
  <2>1. ASSUME NEW d \in Runners PROVE HoldsItsFiles(d)'
    <3>1. CASE d = c
      BY <1>2, <3>1
    <3>2. CASE d # c
      BY <1>1, <1>2, <3>2, HoldsIfKept
    <3> QED BY <3>1, <3>2
  <2> QED BY <1>2, <2>1
<1>3. ASSUME Active(c), NEW where \in {"publish", "collect"}, Go(c, where)
      PROVE  /\ runner' \in [Runners -> {Idle} \cup Running]
             /\ \A d \in Runners \ {c} : runner'[d] = runner[d]
             /\ HoldsItsFiles(c)'
  <2>1. /\ runner' \in [Runners -> {Idle} \cup Running]
        /\ \A d \in Runners \ {c} : runner'[d] = runner[d]
        /\ runner'[c].at = where
    BY <1>3, GoMoves
  <2> QED BY <2>1 DEF HoldsItsFiles, At
<1>4. ASSUME Fail(c)
      PROVE  /\ runner' \in [Runners -> {Idle} \cup Running]
             /\ \A d \in Runners \ {c} : runner'[d] = runner[d]
             /\ HoldsItsFiles(c)'
  <2>1. /\ runner' \in [Runners -> {Idle} \cup Running]
        /\ \A d \in Runners \ {c} : runner'[d] = runner[d]
        /\ runner'[c].at = "idle"
    BY <1>4, FailStops DEF Idle
  <2> QED BY <2>1 DEF HoldsItsFiles, At
<1>5. CASE Evaluate(c)
  <2>1. Active(c) /\ Go(c, "statistics")
    BY <1>5 DEF Evaluate, EvaluateTo, Active, At
  <2>2. /\ runner' \in [Runners -> {Idle} \cup Running]
        /\ \A d \in Runners \ {c} : runner'[d] = runner[d]
        /\ runner'[c].at = "statistics" /\ runner'[c].experiment = runner[c].experiment
    BY <2>1, GoMoves
  <2>3. disk'[runner[c].experiment].raw = RawOf(runner[c].material, data)
    BY <1>5, EvaluateWrites
  <2>4. runner[c].material \in Configurations /\ data \in 1 .. Data
    BY <2>1, ActiveIsRunning DEF Running, TypeOK
  <2>5. RawOf(runner[c].material, data) # None
    BY <2>4, EvaluationsAreTyped, NoneAssumption
  <2> QED BY <2>2, <2>3, <2>5 DEF HoldsItsFiles, At
<1>6. CASE WriteNotTested(c) \/ WriteStrongLocal(c) \/ PublishRun(c)
  <2>1. Active(c)
    BY <1>6 DEF WriteNotTested, WriteStrongLocal, PublishRun, Active, At
  <2>2. PICK where \in {"publish", "collect"} : Go(c, where)
    BY <1>6 DEF WriteNotTested, WriteStrongLocal, PublishRun
  <2> QED BY <1>3, <2>1, <2>2
<1>7. CASE WriteContrast(c)
  <2>1. Active(c)
    BY <1>7 DEF WriteContrast, Active, At
  <2>2. Fail(c) \/ Go(c, "publish")
    BY <1>7 DEF WriteContrast
  <2> QED BY <1>3, <1>4, <2>1, <2>2
<1>8. CASE WriteFamily(c)
  BY <1>4, <1>8 DEF WriteFamily
<1>9. CASE Collect(c) /\ ~Fail(c)
  <2>1. /\ \A e \in Experiments : Records(e) # {}
        /\ Chosen \in Paths /\ RecordsAt(Chosen) \in RecordFamilies
        /\ runner' \in [Runners -> {Idle} \cup Running]
        /\ \A d \in Runners \ {c} : runner'[d] = runner[d]
        /\ runner'[c].at = "hash" /\ runner'[c].paths = Chosen
        /\ runner'[c].results = RecordsAt(Chosen)
    BY <1>9, CollectHolds
  <2>2. \A e \in Experiments : disk[e][Chosen[e]] # None
    BY <2>1, SlotsAreChosen DEF Chosen
  <2>3. disk' = disk
    BY <1>9 DEF Collect
  <2> HIDE DEF Chosen
  <2>4. \A e \in Experiments : disk'[e][runner'[c].paths[e]] # None
    BY <2>1, <2>2, <2>3
  <2>5. runner'[c].paths # None /\ runner'[c].results # None
    BY <2>1, NoneAssumption
  <2> QED BY <2>1, <2>4, <2>5 DEF HoldsItsFiles, At
<1>10. CASE HashSources(c)
  <2>1. /\ RecordsAt(runner[c].paths) \in RecordFamilies
        /\ runner' \in [Runners -> {Idle} \cup Running]
        /\ \A d \in Runners \ {c} : runner'[d] = runner[d]
        /\ runner'[c].at = "write"
        /\ runner'[c].sources = RecordsAt(runner[c].paths)
        /\ runner'[c].results = runner[c].results
    BY <1>1, <1>10, HashSourcesHolds
  <2>2. runner[c].results # None
    BY <1>1, <1>10 DEF HoldsItsFiles, HashSources
  <2>3. runner'[c].sources # None
    BY <2>1, NoneAssumption
  <2> QED BY <2>1, <2>2, <2>3 DEF HoldsItsFiles, At
<1> QED BY <1>4, <1>5, <1>6, <1>7, <1>8, <1>9, <1>10 DEF Step

\* An experiment whose evidence is accepted has one record, which has a slot.
LEMMA AcceptedHasSlot ==
    ASSUME NEW e \in Experiments, NEW m, ReportAccepts(e, m)
    PROVE  TheSlot(e) \in Slots /\ TheSlot(e) # None
<1>1. Cardinality(Records(e)) = 1
  BY DEF ReportAccepts
<1>2. Records(e) # {}
  BY <1>1, FS_EmptySet
<1> QED BY <1>2, SlotsAreChosen

\* What accepting the evidence of an experiment changes in the report command.
LEMMA AcceptEvidenceMoves ==
    ASSUME TypeOK, AcceptEvidence
    PROVE  /\ reporter \in Reporting /\ Current \in reporter.todo /\ Current \in Experiments
           /\ \/ reporter' = Idle
              \/ /\ ReportAccepts(Current, reporter.material)
                 /\ reporter' \in Reporting /\ reporter'.at = "accept"
                 /\ reporter'.material = reporter.material
                 /\ reporter'.todo = reporter.todo \ {Current}
                 /\ reporter'.paths = [reporter.paths EXCEPT ![Current] = TheSlot(Current)]
<1> DEFINE new == [reporter EXCEPT !.todo = reporter.todo \ {Current},
                       !.paths = [reporter.paths EXCEPT ![Current] = TheSlot(Current)]]
<1>1. reporter \in Reporting /\ reporter.at = "accept"
  BY ReportingUnlessIdle DEF AcceptEvidence
<1>2. reporter.todo \in SUBSET Experiments /\ reporter.todo # {}
  BY <1>1 DEF AcceptEvidence, Reporting
<1>3. Current \in reporter.todo /\ Current \in Experiments
  BY <1>2 DEF Current
<1>4. ASSUME ReportAccepts(Current, reporter.material)
      PROVE  /\ reporter' \in Reporting /\ reporter'.at = "accept"
             /\ reporter'.material = reporter.material
             /\ reporter'.todo = reporter.todo \ {Current}
             /\ reporter'.paths = [reporter.paths EXCEPT ![Current] = TheSlot(Current)]
  <2>1. TheSlot(Current) \in Slots
    BY <1>3, <1>4, AcceptedHasSlot
  <2>2. reporter' = new
    BY <1>4 DEF AcceptEvidence
  <2>3. reporter.paths \in [Experiments -> OrNone(Slots)]
    BY <1>1 DEF Reporting
  <2>4. [reporter.paths EXCEPT ![Current] = TheSlot(Current)] \in [Experiments -> OrNone(Slots)]
    BY <2>1, <2>3 DEF OrNone
  <2>5. reporter.todo \ {Current} \in SUBSET Experiments
    BY <1>2
  <2>6. new \in Reporting
    BY <1>1, <2>4, <2>5 DEF Reporting
  <2>7. /\ new.at = reporter.at /\ new.material = reporter.material
        /\ new.todo = reporter.todo \ {Current}
        /\ new.paths = [reporter.paths EXCEPT ![Current] = TheSlot(Current)]
    BY <1>1 DEF Reporting
  <2> HIDE DEF new
  <2> QED BY <1>1, <2>2, <2>6, <2>7
<1> QED BY <1>1, <1>3, <1>4 DEF AcceptEvidence

\* A report command that takes a step is in a state of its own, and stays typed.
LEMMA ReportKeepsReporterTyped ==
    ASSUME TypeOK, StartReport \/ ReportStep
    PROVE  reporter' \in {Idle} \cup Reporting
<1>1. material \in Configurations /\ family \in OrNone(Families) /\ disk \in [Experiments -> Files]
  BY DEF TypeOK
<1>2. NoPaths \in [Experiments -> OrNone(Slots)]
  BY DEF NoPaths, OrNone
<1>3. CASE StartReport
  <2> HIDE DEF NoPaths
  <2> QED BY <1>1, <1>2, <1>3 DEF StartReport, Reporting, OrNone
<1>4. CASE AcceptEvidence
  BY <1>4, AcceptEvidenceMoves
<1>5. CASE ReadFamily
  <2>1. reporter \in Reporting
    BY <1>5, ReportingUnlessIdle DEF ReadFamily
  <2>2. [reporter EXCEPT !.at = "export", !.family = family] \in Reporting
    BY <1>1, <2>1 DEF Reporting
  <2> QED BY <1>5, <2>2 DEF ReadFamily
<1>6. CASE Export
  <2>1. reporter \in Reporting
    BY <1>6, ReportingUnlessIdle DEF Export
  <2>2. [reporter EXCEPT !.at = "select", !.todo = Experiments, !.paths = NoPaths] \in Reporting
    BY <1>2, <2>1 DEF Reporting
  <2> QED BY <1>6, <2>2 DEF Export
<1>7. CASE SelectEvidence
  <2>1. reporter \in Reporting
    BY <1>7, ReportingUnlessIdle DEF SelectEvidence
  <2>2. reporter.todo \in SUBSET Experiments /\ reporter.todo # {}
    BY <1>7, <2>1 DEF SelectEvidence, Reporting
  <2>3. Current \in Experiments
    BY <2>2 DEF Current
  <2>4. disk[Current] \in Files
    BY <1>1, <2>3
  <2>5. disk[Current].summary \in OrNone(Summaries) /\ disk[Current].cell \in OrNone(CellRecords)
    BY <2>4 DEF Files
  <2>6. Evidence(Current) \in Evidences
    BY <2>5 DEF Evidence, Evidences
  <2>7. [reporter EXCEPT !.todo = @ \ {Current}] \in Reporting
    BY <2>1 DEF Reporting
  <2>8. [reporter EXCEPT !.at = "table", !.evidence = Evidence(Current)] \in Reporting
    BY <2>1, <2>6 DEF Reporting, OrNone
  <2> QED BY <1>7, <2>7, <2>8 DEF SelectEvidence
<1>8. CASE WriteTable
  <2>1. reporter \in Reporting
    BY <1>8, ReportingUnlessIdle DEF WriteTable
  <2>2. [reporter EXCEPT !.at = "source"] \in Reporting
    BY <2>1 DEF Reporting
  <2> QED BY <1>8, <2>2 DEF WriteTable
<1>9. CASE WriteSource
  <2>1. reporter \in Reporting
    BY <1>9, ReportingUnlessIdle DEF WriteSource
  <2>2. [reporter EXCEPT !.at = "select", !.todo = @ \ {Current}] \in Reporting
    BY <2>1 DEF Reporting
  <2> QED BY <1>9, <2>2 DEF WriteSource
<1>10. CASE EndReport
  BY <1>10 DEF EndReport
<1> QED BY <1>3, <1>4, <1>5, <1>6, <1>7, <1>8, <1>9, <1>10 DEF ReportStep

\* What a report has selected when it reads the family are the paths of all experiments.
LEMMA ReportKeepsItsFiles ==
    ASSUME TypeOK, ReporterHoldsItsFiles, StartReport \/ ReportStep
    PROVE  ReporterHoldsItsFiles'
<1>1. ASSUME reporter'.at \notin {"accept", "export"} PROVE ReporterHoldsItsFiles'
  BY <1>1 DEF ReporterHoldsItsFiles
<1>2. CASE StartReport
  <2>1. reporter'.at = "accept" /\ reporter'.todo = Experiments
    BY <1>2 DEF StartReport
  <2> QED BY <2>1 DEF ReporterHoldsItsFiles
<1>3. CASE AcceptEvidence
  <2>1. CASE reporter' = Idle
    BY <1>1, <2>1 DEF Idle
  <2>2. CASE reporter' # Idle
    <3>1. /\ reporter \in Reporting /\ Current \in Experiments
          /\ ReportAccepts(Current, reporter.material)
          /\ reporter'.at = "accept" /\ reporter'.todo = reporter.todo \ {Current}
          /\ reporter'.paths = [reporter.paths EXCEPT ![Current] = TheSlot(Current)]
      BY <1>3, <2>2, AcceptEvidenceMoves
    <3>2. TheSlot(Current) # None
      BY <3>1, AcceptedHasSlot
    <3>3. reporter.paths \in [Experiments -> OrNone(Slots)]
      BY <3>1 DEF Reporting
    <3>4. ASSUME NEW e \in Experiments \ reporter'.todo PROVE reporter'.paths[e] # None
      <4>1. CASE e = Current
        BY <3>1, <3>2, <3>3, <4>1
      <4>2. CASE e # Current
        <5>1. reporter.paths[e] # None
          BY <1>3, <3>1, <3>4, <4>2 DEF ReporterHoldsItsFiles, AcceptEvidence
        <5> QED BY <3>1, <3>3, <4>2, <5>1
      <4> QED BY <4>1, <4>2
    <3> QED BY <3>1, <3>4 DEF ReporterHoldsItsFiles
  <2> QED BY <2>1, <2>2
<1>4. CASE ReadFamily
  <2>1. CASE reporter' = Idle
    BY <1>1, <2>1 DEF Idle
  <2>2. CASE reporter' # Idle
    <3> DEFINE new == [reporter EXCEPT !.at = "export", !.family = family]
    <3>1. reporter \in Reporting /\ reporter' = new /\ family # None
      BY <1>4, <2>2, ReportingUnlessIdle DEF ReadFamily
    <3>2. new.at = "export" /\ new.family = family /\ new.paths = reporter.paths
      BY <3>1 DEF Reporting
    <3> HIDE DEF new
    <3>3. \A e \in Experiments : reporter.paths[e] # None
      BY <1>4 DEF ReporterHoldsItsFiles, ReadFamily
    <3>4. reporter.paths \in [Experiments -> OrNone(Slots)]
      BY <3>1 DEF Reporting
    <3>5. reporter.paths \in Paths
      BY <3>3, <3>4 DEF Paths, OrNone
    <3> QED BY <3>1, <3>2, <3>5 DEF ReporterHoldsItsFiles
  <2> QED BY <2>1, <2>2
<1>5. CASE Export \/ SelectEvidence \/ WriteTable \/ WriteSource \/ EndReport
  <2>1. reporter \in Reporting
    BY <1>5, ReportingUnlessIdle DEF Export, SelectEvidence, WriteTable, WriteSource, EndReport
  <2>2. \A todo, paths, evidence :
            /\ [reporter EXCEPT !.at = "select", !.todo = todo, !.paths = paths].at = "select"
            /\ [reporter EXCEPT !.todo = todo].at = reporter.at
            /\ [reporter EXCEPT !.at = "table", !.evidence = evidence].at = "table"
            /\ [reporter EXCEPT !.at = "source"].at = "source"
            /\ [reporter EXCEPT !.at = "select", !.todo = todo].at = "select"
    BY <2>1 DEF Reporting
  <2>3. CASE Export
    <3> DEFINE new == [reporter EXCEPT !.at = "select", !.todo = Experiments, !.paths = NoPaths]
    <3>1. new.at = "select"
      BY <2>2
    <3>2. reporter' = new \/ reporter' = Idle
      BY <2>3 DEF Export
    <3> HIDE DEF new
    <3> QED BY <1>1, <3>1, <3>2 DEF Idle
  <2>4. CASE SelectEvidence
    BY <1>1, <2>2, <2>4 DEF SelectEvidence, Idle
  <2>5. CASE WriteTable
    BY <1>1, <2>2, <2>5 DEF WriteTable
  <2>6. CASE WriteSource
    BY <1>1, <2>2, <2>6 DEF WriteSource
  <2>7. CASE EndReport
    BY <1>1, <2>7 DEF EndReport, Idle
  <2> QED BY <1>5, <2>3, <2>4, <2>5, <2>6, <2>7
<1> QED BY <1>2, <1>3, <1>4, <1>5 DEF ReportStep

\* The histories are typed, and what was not orderly does not become so.
LEMMA HistoryIsKept ==
    ASSUME TypeOK, [Next]_vars
    PROVE  /\ orderly' \in BOOLEAN /\ (orderly' => orderly)
           /\ left' \subseteq Experiments /\ leftAtExport' \subseteq Experiments
<1>1. orderly \in BOOLEAN /\ left \subseteq Experiments /\ leftAtExport \subseteq Experiments
  BY DEF TypeOK
<1>2. ASSUME NEW c \in Runners, Step(c)
      PROVE  UNCHANGED <<orderly, leftAtExport>> /\ left' \subseteq Experiments
  <2>1. CASE WriteContrast(c) \/ WriteStrongLocal(c)
    <3> DEFINE e == runner[c].experiment
    <3>1. e \in Experiments
      BY <2>1, ActiveIsRunning DEF WriteContrast, WriteStrongLocal, Active, At, Running, TypeOK
    <3>2. UNCHANGED <<orderly, leftAtExport>> /\ (left' = left \/ Remember(e))
      BY <2>1 DEF WriteContrast, WriteStrongLocal
    <3> HIDE DEF e
    <3>3. left' \subseteq Experiments
      BY <1>1, <3>1, <3>2 DEF Remember
    <3> QED BY <3>2, <3>3
  <2>2. CASE ~(WriteContrast(c) \/ WriteStrongLocal(c))
    <3>1. UNCHANGED history
      BY <1>2, <2>2
         DEF Step, Evaluate, EvaluateTo, WriteNotTested, PublishRun, Collect, HashSources, WriteFamily
    <3> QED BY <1>1, <3>1 DEF history
  <2> QED BY <2>1, <2>2
<1>3. ASSUME NEW c \in Runners, NEW e \in Experiments, StartRun(c, e) \/ ForceRun(c, e)
      PROVE  UNCHANGED <<left, leftAtExport>> /\ orderly' \in BOOLEAN /\ (orderly' => orderly)
  <2>1. StartsAlone /\ UNCHANGED <<left, leftAtExport>>
    BY <1>3 DEF StartRun, ForceRun
  <2> QED BY <1>1, <2>1, Zenon DEF StartsAlone
<1>4. ASSUME Export PROVE UNCHANGED orderly /\ left' = left /\ leftAtExport' \in {left, leftAtExport}
  BY <1>4 DEF Export
<1>5. ASSUME EditConfiguration
      PROVE  UNCHANGED <<left, leftAtExport>> /\ orderly' \in BOOLEAN /\ (orderly' => orderly)
  <2>1. UNCHANGED <<left, leftAtExport>>
        /\ \E m \in Configurations : orderly' = (orderly /\ EvaluationOf[material] <= EvaluationOf[m])
    BY <1>5 DEF EditConfiguration
  <2>2. orderly' \in BOOLEAN /\ (orderly' => orderly)
    BY <1>1, <2>1, Zenon
  <2> QED BY <2>1, <2>2
<1>6. CASE \/ StartReport \/ AcceptEvidence \/ ReadFamily \/ SelectEvidence \/ WriteTable
           \/ WriteSource \/ EndReport \/ ReplaceData \/ KillReport \/ UNCHANGED vars
           \/ \E c \in Runners : KillRun(c)
  <2>1. UNCHANGED history
    BY <1>6 DEF StartReport, AcceptEvidence, ReadFamily, SelectEvidence, WriteTable, WriteSource,
                EndReport, ReplaceData, KillReport, KillRun, vars
  <2> QED BY <1>1, <2>1 DEF history
<1>7. CASE \E c \in Runners : Step(c)
  BY <1>1, <1>2, <1>7
<1>8. CASE \E c \in Runners, e \in Experiments : StartRun(c, e) \/ ForceRun(c, e)
  BY <1>1, <1>3, <1>8
<1>9. CASE Export
  BY <1>1, <1>4, <1>9
<1>10. CASE EditConfiguration
  BY <1>1, <1>5, <1>10
<1> QED BY <1>6, <1>7, <1>8, <1>9, <1>10 DEF Next, ReportStep, Environment

\* Every step keeps the state typed, and what the commands hold.
LEMMA TypeStep ==
    ASSUME TypeOK, HeldFilesAreThere, [Next]_vars
    PROVE  TypeOK' /\ HeldFilesAreThere'
<1>1. /\ \A d \in Runners : HoldsItsFiles(d)
      /\ ReporterHoldsItsFiles
      /\ NotTestedIsNotConclusive
  BY DEF HeldFilesAreThere
<1>2. /\ data \in 1 .. Data /\ material \in Configurations
      /\ disk \in [Experiments -> Files]
      /\ family \in OrNone(Families) /\ exported \in OrNone(Families)
      /\ runner \in [Runners -> {Idle} \cup Running]
      /\ reporter \in {Idle} \cup Reporting
      /\ disturbances \in 0 .. MaxDisturbances
  BY DEF TypeOK
<1>3. orderly' \in BOOLEAN /\ left' \subseteq Experiments /\ leftAtExport' \subseteq Experiments
  BY HistoryIsKept
<1>4. ASSUME NotTestedIsNotConclusive, RecordsStay PROVE NotTestedIsNotConclusive'
  BY <1>4 DEF NotTestedIsNotConclusive, RecordsStay
<1>5. ASSUME runner' = runner, RecordsStay PROVE \A d \in Runners : HoldsItsFiles(d)'
  BY <1>1, <1>5, HoldsIfKept
<1>6. ASSUME disk' = disk PROVE RecordsStay
  BY <1>6 DEF RecordsStay
<1>7. ASSUME reporter' = reporter PROVE ReporterHoldsItsFiles'
  BY <1>1, <1>7 DEF ReporterHoldsItsFiles
<1>8. ASSUME NEW c \in Runners, Step(c) PROVE TypeOK' /\ HeldFilesAreThere'
  <2>1. disk' \in [Experiments -> Files] /\ RecordsStay
    BY <1>1, <1>8, StepKeepsFiles
  <2>2. runner' \in [Runners -> {Idle} \cup Running] /\ \A d \in Runners : HoldsItsFiles(d)'
    BY <1>1, <1>8, StepKeepsRunners
  <2>3. UNCHANGED <<data, material, exported, reporter, disturbances>>
    BY <1>8 DEF Step, Evaluate, EvaluateTo, WriteNotTested, WriteContrast, WriteStrongLocal,
                PublishRun, Collect, HashSources, WriteFamily
  <2>4. family' \in OrNone(Families)
    <3>1. CASE family' = family
      BY <1>2, <3>1
    <3>2. CASE family' # family
      <4>1. WriteFamily(c)
        BY <1>8, <3>2
           DEF Step, Evaluate, EvaluateTo, WriteNotTested, WriteContrast, WriteStrongLocal,
               PublishRun, Collect, HashSources
      <4>2. runner[c] \in Running /\ At(c, "write")
        BY <4>1, ActiveIsRunning DEF WriteFamily, Active, At
      <4>3. runner[c].results # None /\ runner[c].sources # None
        BY <1>1, <4>2 DEF HoldsItsFiles
      <4>4. /\ runner[c].results \in RecordFamilies /\ runner[c].sources \in RecordFamilies
            /\ runner[c].material \in Configurations
        BY <4>2, <4>3 DEF Running, OrNone
      <4> QED BY <4>1, <4>4 DEF WriteFamily, Families, OrNone
    <3> QED BY <3>1, <3>2
  <2>5. TypeOK'
    BY <1>2, <1>3, <2>1, <2>2, <2>3, <2>4 DEF TypeOK
  <2> QED BY <1>1, <1>4, <1>7, <2>1, <2>2, <2>3, <2>5 DEF HeldFilesAreThere
<1>9. ASSUME NEW c \in Runners, NEW e \in Experiments, StartRun(c, e) \/ ForceRun(c, e)
      PROVE  TypeOK' /\ HeldFilesAreThere'
  <2>1. PICK where \in {"collect", "evaluate"} : runner' = [runner EXCEPT ![c] = Runner(e, where)]
    BY <1>9 DEF StartRun, ForceRun
  <2>2. /\ runner' \in [Runners -> {Idle} \cup Running]
        /\ \A d \in Runners \ {c} : runner'[d] = runner[d]
        /\ runner'[c].at = where
    BY <2>1, StartIsTyped DEF Runner
  <2>3. disturbances' \in 0 .. MaxDisturbances
    BY <1>2, <1>9, ConstantsAssumption DEF StartRun, ForceRun, Disturb
  <2>4. UNCHANGED <<data, material, disk, family, exported, reporter>>
    BY <1>9 DEF StartRun, ForceRun
  <2>5. TypeOK'
    BY <1>2, <1>3, <2>2, <2>3, <2>4 DEF TypeOK
  <2>6. ASSUME NEW d \in Runners PROVE HoldsItsFiles(d)'
    <3>1. CASE d = c
      BY <2>2, <3>1 DEF HoldsItsFiles, At
    <3>2. CASE d # c
      BY <1>1, <1>6, <2>2, <2>4, <3>2, HoldsIfKept
    <3> QED BY <3>1, <3>2
  <2> QED BY <1>1, <1>4, <1>6, <1>7, <2>4, <2>5, <2>6 DEF HeldFilesAreThere
<1>10. CASE StartReport \/ ReportStep
  <2>1. reporter' \in {Idle} \cup Reporting /\ ReporterHoldsItsFiles'
    BY <1>1, <1>10, ReportKeepsReporterTyped, ReportKeepsItsFiles
  <2>2. disk' \in [Experiments -> Files] /\ RecordsStay
    <3>1. CASE WriteTable \/ WriteSource
      BY <3>1, ReportWrites DEF RecordsStay
    <3>2. CASE ~(WriteTable \/ WriteSource)
      <4>1. disk' = disk
        BY <1>10, <3>2
           DEF StartReport, ReportStep, AcceptEvidence, ReadFamily, Export, SelectEvidence, EndReport
      <4> QED BY <1>2, <1>6, <4>1
    <3> QED BY <3>1, <3>2
  <2>3. exported' \in OrNone(Families)
    <3>1. CASE exported' = exported
      BY <1>2, <3>1
    <3>2. CASE exported' # exported
      <4>1. Export /\ exported' = reporter.family
        BY <1>10, <3>2
           DEF StartReport, ReportStep, AcceptEvidence, ReadFamily, Export, SelectEvidence,
               WriteTable, WriteSource, EndReport
      <4>2. reporter \in Reporting
        BY <4>1, ReportingUnlessIdle DEF Export
      <4> QED BY <4>1, <4>2 DEF Reporting
    <3> QED BY <3>1, <3>2
  <2>4. UNCHANGED <<data, material, family, runner, disturbances>>
    BY <1>10 DEF StartReport, ReportStep, AcceptEvidence, ReadFamily, Export, SelectEvidence,
                 WriteTable, WriteSource, EndReport
  <2>5. TypeOK'
    BY <1>2, <1>3, <2>1, <2>2, <2>3, <2>4 DEF TypeOK
  <2> QED BY <1>1, <1>4, <1>5, <2>1, <2>2, <2>4, <2>5 DEF HeldFilesAreThere
<1>11. CASE ReplaceData \/ EditConfiguration \/ KillReport
  <2>1. data' \in 1 .. Data
    BY <1>2, <1>11, ConstantsAssumption DEF ReplaceData, EditConfiguration, KillReport
  <2>2. material' \in Configurations
    BY <1>2, <1>11 DEF ReplaceData, EditConfiguration, KillReport
  <2>3. disturbances' \in 0 .. MaxDisturbances
    BY <1>2, <1>11, ConstantsAssumption DEF Disturb, ReplaceData, EditConfiguration, KillReport
  <2>4. reporter' = reporter \/ reporter' = Idle
    BY <1>11 DEF ReplaceData, EditConfiguration, KillReport
  <2>5. UNCHANGED <<disk, family, exported, runner>>
    BY <1>11 DEF ReplaceData, EditConfiguration, KillReport
  <2>6. TypeOK'
    BY <1>2, <1>3, <2>1, <2>2, <2>3, <2>4, <2>5 DEF TypeOK
  <2>7. ReporterHoldsItsFiles'
    <3>1. CASE reporter' = Idle
      BY <3>1 DEF ReporterHoldsItsFiles, Idle
    <3> QED BY <1>7, <2>4, <3>1
  <2> QED BY <1>1, <1>4, <1>5, <1>6, <2>5, <2>6, <2>7 DEF HeldFilesAreThere
<1>12. ASSUME NEW c \in Runners, KillRun(c) PROVE TypeOK' /\ HeldFilesAreThere'
  <2>1. /\ runner' \in [Runners -> {Idle} \cup Running]
        /\ \A d \in Runners \ {c} : runner'[d] = runner[d]
        /\ runner'[c].at = "idle"
    BY <1>12, FailStops DEF KillRun, Idle
  <2>2. disturbances' \in 0 .. MaxDisturbances
    BY <1>2, <1>12, ConstantsAssumption DEF KillRun, Disturb
  <2>3. UNCHANGED <<data, material, disk, family, exported, reporter>>
    BY <1>12 DEF KillRun
  <2>4. TypeOK'
    BY <1>2, <1>3, <2>1, <2>2, <2>3 DEF TypeOK
  <2>5. ASSUME NEW d \in Runners PROVE HoldsItsFiles(d)'
    <3>1. CASE d = c
      BY <2>1, <3>1 DEF HoldsItsFiles, At
    <3>2. CASE d # c
      BY <1>1, <1>6, <2>1, <2>3, <3>2, HoldsIfKept
    <3> QED BY <3>1, <3>2
  <2> QED BY <1>1, <1>4, <1>6, <1>7, <2>3, <2>4, <2>5 DEF HeldFilesAreThere
<1>13. CASE UNCHANGED vars
  <2>1. UNCHANGED <<data, material, disk, family, exported, runner, reporter, disturbances>>
    BY <1>13 DEF vars
  <2>2. TypeOK'
    BY <1>2, <1>3, <2>1 DEF TypeOK
  <2> QED BY <1>1, <1>4, <1>5, <1>6, <1>7, <2>1, <2>2 DEF HeldFilesAreThere
<1> QED BY <1>8, <1>9, <1>10, <1>11, <1>12, <1>13 DEF Next, Environment
-----------------------------------------------------------------------------
(***************************************************************************)
(* Evaluations are compared by their numbers.                              *)
(***************************************************************************)
\* What a file is of is a configuration or an evaluation.
LEMMA FilesHaveNumbers ==
    ASSUME NEW files \in Files
    PROVE  /\ files.run # None => files.run \in Configurations
           /\ files.summary # None => files.summary.evaluation \in Nat
           /\ IsConclusive(files) /\ files.tested.of # None => files.tested.of.evaluation \in Nat
  BY DEF Files, OrNone, IsConclusive, RecordsOf, Summaries

\* A command is of a configuration.
LEMMA CommandsHaveNumbers ==
    ASSUME TypeOK
    PROVE  /\ material \in Configurations
           /\ \A c \in Runners : Active(c) =>
                runner[c].material \in Configurations /\ runner[c].experiment \in Experiments
           /\ reporter.at # "idle" => reporter.material \in Configurations
  BY ActiveIsRunning, ReportingUnlessIdle DEF TypeOK, Running, Reporting

\* Configurations are ordered by their evaluations.
LEMMA PrecedesIsOrder ==
    ASSUME NEW m \in Configurations, NEW n \in Configurations, NEW k \in Configurations
    PROVE  Precedes(m, m) /\ (Precedes(m, n) /\ Precedes(n, k) => Precedes(m, k))
<1>1. EvaluationOf[m] \in Nat /\ EvaluationOf[n] \in Nat /\ EvaluationOf[k] \in Nat
  BY ConfigurationsHaveNumbers
<1> QED BY <1>1 DEF Precedes

\* Files up to a configuration are up to a later one.
LEMMA UpToLater ==
    ASSUME NEW files \in Files, NEW m \in Configurations, NEW n \in Configurations,
           Precedes(m, n), AreUpTo(files, m)
    PROVE  AreUpTo(files, n)
<1>1. EvaluationOf[m] \in Nat /\ EvaluationOf[n] \in Nat /\ EvaluationOf[m] <= EvaluationOf[n]
  BY ConfigurationsHaveNumbers DEF Precedes
<1>2. files.run # None => Precedes(files.run, n)
  BY FilesHaveNumbers, PrecedesIsOrder DEF AreUpTo
<1>3. files.summary # None => files.summary.evaluation <= EvaluationOf[n]
  BY <1>1, FilesHaveNumbers DEF AreUpTo
<1>4. IsConclusive(files) => IsUpTo(files.tested, n) /\ files.summary # None
  BY <1>1, FilesHaveNumbers DEF AreUpTo, IsUpTo
<1> QED BY <1>2, <1>3, <1>4 DEF AreUpTo

\* A test that is not of an earlier configuration is not of one that precedes it.
LEMMA FromEarlier ==
    ASSUME NEW files \in Files, NEW m \in Configurations, NEW n \in Configurations,
           Precedes(m, n), IsConclusive(files), IsFrom(files.tested, n)
    PROVE  IsFrom(files.tested, m)
<1>1. EvaluationOf[m] \in Nat /\ EvaluationOf[n] \in Nat /\ EvaluationOf[m] <= EvaluationOf[n]
  BY ConfigurationsHaveNumbers DEF Precedes
<1>2. files.tested.of # None /\ files.tested.of.evaluation \in Nat
  BY FilesHaveNumbers DEF IsFrom
<1> QED BY <1>1, <1>2 DEF IsFrom

-----------------------------------------------------------------------------
(***************************************************************************)
(* The parts of the invariant, where the files of the runs are kept.       *)
(***************************************************************************)
\* The files that the runs write, and what is known of them, stay as they are.
EvidenceIsKept ==
    /\ \A e \in Experiments :
        /\ disk'[e].raw = disk[e].raw /\ disk'[e].summary = disk[e].summary
        /\ disk'[e].tested = disk[e].tested /\ disk'[e].notTested = disk[e].notTested
        /\ disk'[e].run = disk[e].run
    /\ left' = left

\* What IsCurrent says of the next state, of a configuration known in this one.
WillBeCurrent(e, m) ==
    e \in left' \/ (IsConclusive(disk'[e]) => IsFrom(disk'[e].tested, m))

\* Files that are kept are of the evaluations they were of.
LEMMA KeptEvidence ==
    ASSUME EvidenceIsKept, NEW e \in Experiments, NEW m
    PROVE  /\ AreUpTo(disk'[e], m) <=> AreUpTo(disk[e], m)
           /\ WillBeCurrent(e, m) <=> IsCurrent(e, m)
<1>1. disk'[e].summary = disk[e].summary /\ disk'[e].tested = disk[e].tested
      /\ disk'[e].run = disk[e].run /\ left' = left
  BY DEF EvidenceIsKept
<1>2. IsConclusive(disk'[e]) <=> IsConclusive(disk[e])
  BY <1>1 DEF IsConclusive
<1>3. AreUpTo(disk'[e], m) <=> AreUpTo(disk[e], m)
  BY <1>1, <1>2 DEF AreUpTo
<1>4. WillBeCurrent(e, m) <=> IsCurrent(e, m)
  BY <1>1, <1>2 DEF WillBeCurrent, IsCurrent
<1> QED BY <1>3, <1>4

\* Run commands go on under the configuration they started with, or start now.
MaterialsAreKept ==
    \A c \in Runners : (Active(c))' =>
        \/ runner'[c].material = material
        \/ Active(c) /\ runner'[c].material = runner[c].material

\* Nothing becomes of a later configuration, and the records of published runs stay
\* current.
LEMMA FilesIfKept ==
    ASSUME TypeOK, TypeOK', OrderlyFiles, EvidenceIsKept, MaterialsAreKept,
           Precedes(material, material')
    PROVE  NothingIsOfLater' /\ PublishedRunsAreCurrent'
<1>1. material \in Configurations /\ material' \in Configurations
      /\ disk \in [Experiments -> Files]
  BY DEF TypeOK
<1>2. NothingIsOfLater /\ PublishedRunsAreCurrent
  BY DEF OrderlyFiles
<1>3. ASSUME NEW e \in Experiments PROVE AreUpTo(disk'[e], material')
  <2>1. AreUpTo(disk[e], material')
    BY <1>1, <1>2, UpToLater DEF NothingIsOfLater
  <2> QED BY <2>1, KeptEvidence
<1>4. ASSUME NEW c \in Runners, (Active(c))'
      PROVE  /\ Precedes(runner'[c].material, material')
             /\ \A e \in Experiments : AreUpTo(disk'[e], runner'[c].material)
  <2>1. CASE runner'[c].material = material
    BY <1>2, <2>1, KeptEvidence DEF NothingIsOfLater
  <2>2. CASE Active(c) /\ runner'[c].material = runner[c].material
    <3>1. runner[c].material \in Configurations /\ Precedes(runner[c].material, material)
      BY <1>2, <2>2, CommandsHaveNumbers DEF NothingIsOfLater
    <3>2. Precedes(runner[c].material, material')
      BY <1>1, <3>1, PrecedesIsOrder
    <3>3. \A e \in Experiments : AreUpTo(disk[e], runner[c].material)
      BY <1>2, <2>2 DEF NothingIsOfLater
    <3> QED BY <2>2, <3>2, <3>3, KeptEvidence
  <2> QED BY <1>4, <2>1, <2>2 DEF MaterialsAreKept
<1>5. NothingIsOfLater'
  BY <1>3, <1>4 DEF NothingIsOfLater
<1>6. ASSUME NEW e \in Experiments, disk'[e].run # None, disk'[e].notTested = None
      PROVE  WillBeCurrent(e, disk'[e].run)
  <2>1. disk'[e].run = disk[e].run /\ disk'[e].notTested = disk[e].notTested
    BY DEF EvidenceIsKept
  <2>2. IsCurrent(e, disk[e].run)
    BY <1>2, <1>6, <2>1 DEF PublishedRunsAreCurrent
  <2> QED BY <2>1, <2>2, KeptEvidence
<1>7. PublishedRunsAreCurrent'
  BY <1>6 DEF PublishedRunsAreCurrent, IsCurrent, WillBeCurrent
<1> QED BY <1>5, <1>7

\* A run command that stays where it is, or has nothing to show yet, stays honest.
LEMMA HonestIfKept ==
    ASSUME TypeOK, EvidenceIsKept, NEW c \in Runners, HoldsItsFiles(c), IsHonest(c),
           \/ runner'[c] = runner[c]
           \/ runner'[c].at \in {"idle", "evaluate", "collect"}
    PROVE  IsHonest(c)'
<1>1. CASE runner'[c].at \in {"idle", "evaluate", "collect"}
  BY <1>1 DEF IsHonest, At
<1>2. CASE runner'[c] = runner[c] /\ ~Active(c)
  BY <1>2 DEF IsHonest, At, Active
<1>3. CASE runner'[c] = runner[c] /\ Active(c)
  <2> DEFINE e == runner[c].experiment
             m == runner[c].material
             paths == runner[c].paths
  <2>1. runner[c] \in Running /\ e \in Experiments
    BY <1>3, ActiveIsRunning DEF Running
  <2>2. disk'[e].raw = disk[e].raw /\ disk'[e].notTested = disk[e].notTested
    BY <2>1 DEF EvidenceIsKept
  <2>3. WillBeCurrent(e, m) <=> IsCurrent(e, m)
    BY <2>1, KeptEvidence
  <2>4. At(c, "statistics") => disk'[e].raw.evaluation = EvaluationOf[m]
    BY <2>2 DEF IsHonest
  <2>5. At(c, "publish") /\ disk'[e].notTested = None => WillBeCurrent(e, m)
    BY <2>2, <2>3 DEF IsHonest
  <2>6. At(c, "hash") => runner[c].results = [x \in Experiments |-> disk'[x][paths[x]]]
    <3>1. ASSUME At(c, "hash"), NEW x \in Experiments PROVE disk'[x][paths[x]] = disk[x][paths[x]]
      <4>1. paths \in Paths
        BY <2>1, <3>1 DEF HoldsItsFiles, Running, OrNone
      <4>2. paths[x] \in {"tested", "notTested"}
        BY <4>1 DEF Paths, Slots
      <4> QED BY <4>2 DEF EvidenceIsKept
    <3> QED BY <3>1 DEF IsHonest, RecordsAt
  <2>7. At(c, "hash") \/ At(c, "write") =>
            \A x \in Experiments : runner[c].results[x].conclusive => IsUpTo(runner[c].results[x], m)
    BY DEF IsHonest
  <2>8. At(c, "write") => runner[c].sources = runner[c].results
    BY DEF IsHonest
  <2>9. \A where : At(c, where)' <=> At(c, where)
    BY <1>3 DEF At
  <2> QED BY <1>3, <2>4, <2>5, <2>6, <2>7, <2>8, <2>9 DEF IsHonest, RecordsAt, WillBeCurrent, IsCurrent
<1> QED BY <1>1, <1>2, <1>3

\* What a report has selected stays of its configuration or a later one.
LEMMA ReporterIfKept ==
    ASSUME TypeOK, TypeOK', ReporterIsHonest, EvidenceIsKept, MaterialsAreKept,
           Precedes(material, material'), reporter' = reporter
    PROVE  ReporterIsHonest'
<1> DEFINE m == reporter.material
<1>1. material \in Configurations /\ material' \in Configurations
  BY DEF TypeOK
<1>2. Selected' = Selected
  BY DEF Selected
<1>3. ASSUME reporter.at \in {"accept", "export"} PROVE Precedes(m, material')
  <2>1. m \in Configurations
    BY <1>3, CommandsHaveNumbers
  <2>2. Precedes(m, material)
    BY <1>3 DEF ReporterIsHonest
  <2> QED BY <1>1, <2>1, <2>2, PrecedesIsOrder
<1>4. ASSUME NEW e \in Selected
      PROVE  /\ WillBeCurrent(e, m)
             /\ \A c \in Runners : (Active(c))' => Precedes(m, runner'[c].material)
  <2>1. e \in Experiments /\ reporter.at \in {"accept", "export"}
    BY <1>4 DEF Selected
  <2>2. IsCurrent(e, m) /\ Precedes(m, material)
        /\ \A c \in Runners : Active(c) => Precedes(m, runner[c].material)
    BY <1>4, <2>1 DEF ReporterIsHonest
  <2>3. WillBeCurrent(e, m)
    BY <2>1, <2>2, KeptEvidence
  <2> QED BY <2>2, <2>3 DEF MaterialsAreKept
<1>5. reporter.at = "export" => reporter.family.material = m /\ IsHonestFamily(reporter.family)
  BY DEF ReporterIsHonest
<1> QED BY <1>2, <1>3, <1>4, <1>5 DEF ReporterIsHonest, IsHonestFamily, IsCurrent, WillBeCurrent

\* A family that is honest stays so.
LEMMA FamilyIfKept ==
    ASSUME FamilyIsHonest, family' = family
    PROVE  FamilyIsHonest'
<1>1. FamilyIsHonest' <=> FamilyIsHonest
  BY DEF FamilyIsHonest, IsHonestFamily, IsUpTo
<1> QED BY <1>1

\* With one run command at a time, no other starts with one that goes on.
LEMMA OneAtATimeIfKept ==
    ASSUME RunsComeOneAtATime, \A c \in Runners : (Active(c))' => Active(c)
    PROVE  RunsComeOneAtATime'
  BY DEF RunsComeOneAtATime

\* A step that keeps the files, and leaves every command honest.
LEMMA QuietStep ==
    ASSUME TypeOK, TypeOK', OrderlyFiles, EvidenceIsKept, MaterialsAreKept,
           Precedes(material, material'), RunsComeOneAtATime', FamilyIsHonest',
           ReporterIsHonest', \A c \in Runners : IsHonest(c)'
    PROVE  OrderlyFiles'
<1>1. NothingIsOfLater' /\ PublishedRunsAreCurrent'
  BY FilesIfKept
<1>2. RunnersAreHonest'
  BY DEF RunnersAreHonest
<1> QED BY <1>1, <1>2 DEF OrderlyFiles
-----------------------------------------------------------------------------
(***************************************************************************)
(* The steps of a run command, while the use is orderly.                   *)
(***************************************************************************)
\* The conditions under which a step is considered.
Orderly == TypeOK /\ HeldFilesAreThere /\ OrderlyFiles

\* While one run command is under way the others are idle.
LEMMA OthersAreIdle ==
    ASSUME Orderly, NEW c \in Runners, Active(c)
    PROVE  \A d \in Runners \ {c} : runner[d].at = "idle"
  BY DEF Orderly, OrderlyFiles, RunsComeOneAtATime, Active, At

\* A step that writes files of the experiment its command runs, and goes on: what is to
\* be shown of it is what it writes.
LEMMA WritingStep ==
    ASSUME Orderly, TypeOK', NEW c \in Runners, Active(c),
           NEW e \in Experiments, NEW m \in Configurations,
           e = runner[c].experiment, m = runner[c].material,
           NEW where \in {"statistics", "publish", "collect"}, Go(c, where),
           UNCHANGED <<material, family, reporter>>,
           \A x \in Experiments \ {e} : disk'[x] = disk[x] /\ (x \in left' <=> x \in left),
           \* What is written is of this command or an earlier one.
           AreUpTo(disk'[e], m),
           \* A test that is written is of this command, if not of a summary left behind.
           \/ disk'[e].tested = disk[e].tested /\ (e \in left' <=> e \in left)
           \/ WillBeCurrent(e, m),
           \* So is a test beside a new run record, or new beside an old one.
           \/ /\ disk'[e].run = disk[e].run /\ disk'[e].notTested = disk[e].notTested
              /\ disk'[e].tested = disk[e].tested /\ (e \in left' <=> e \in left)
           \/ disk'[e].notTested # None
           \/ WillBeCurrent(e, m),
           where = "statistics" => disk'[e].raw.evaluation = EvaluationOf[m],
           where = "publish" /\ disk'[e].notTested = None => WillBeCurrent(e, m)
    PROVE  OrderlyFiles'
<1>1. TypeOK /\ RunsComeOneAtATime /\ NothingIsOfLater /\ PublishedRunsAreCurrent
      /\ RunnersAreHonest /\ FamilyIsHonest /\ ReporterIsHonest
  BY DEF Orderly, OrderlyFiles
<1>2. /\ \A d \in Runners \ {c} : runner'[d] = runner[d]
      /\ runner'[c].at = where /\ runner'[c].experiment = e /\ runner'[c].material = m
  BY <1>1, GoMoves
<1>3. \A d \in Runners \ {c} : runner'[d].at = "idle"
  BY <1>2, OthersAreIdle
<1>4. material \in Configurations /\ Precedes(m, material)
  BY <1>1 DEF NothingIsOfLater, TypeOK
<1>5. disk \in [Experiments -> Files] /\ disk' \in [Experiments -> Files]
  BY <1>1 DEF TypeOK
<1>6. ASSUME NEW x \in Experiments PROVE AreUpTo(disk'[x], m) /\ AreUpTo(disk'[x], material)
  <2>1. AreUpTo(disk'[x], m)
    <3>1. CASE x = e
      BY <3>1
    <3>2. CASE x # e
      BY <1>1, <3>2 DEF NothingIsOfLater
    <3> QED BY <3>1, <3>2
  <2>2. disk'[x] \in Files
    BY <1>5
  <2> QED BY <1>4, <2>1, <2>2, UpToLater
<1>7. NothingIsOfLater'
  <2>1. ASSUME NEW d \in Runners, (Active(d))' PROVE runner'[d].material = m
    BY <1>2, <1>3, <2>1 DEF Active, At
  <2> QED BY <1>4, <1>6, <2>1 DEF NothingIsOfLater
<1>8. ASSUME NEW x \in Experiments, NEW k \in Configurations, IsCurrent(x, k),
             \/ disk'[x].tested = disk[x].tested /\ (x \in left' <=> x \in left)
             \/ WillBeCurrent(x, k)
      PROVE  WillBeCurrent(x, k)
  BY <1>8 DEF IsCurrent, WillBeCurrent, IsConclusive
<1>9. ASSUME NEW k \in Configurations, Precedes(k, m), WillBeCurrent(e, m)
      PROVE  WillBeCurrent(e, k)
  <2>1. disk'[e] \in Files
    BY <1>5
  <2> QED BY <1>9, <2>1, FromEarlier DEF WillBeCurrent
<1>10. PublishedRunsAreCurrent'
  <2>1. ASSUME NEW x \in Experiments, disk'[x].run # None, disk'[x].notTested = None
        PROVE  WillBeCurrent(x, disk'[x].run)
    <3>1. disk'[x].run \in Configurations /\ Precedes(disk'[x].run, m)
      <4>1. disk'[x] \in Files
        BY <1>5
      <4> QED BY <1>6, <2>1, <4>1, FilesHaveNumbers DEF AreUpTo
    <3>2. CASE /\ disk'[x].run = disk[x].run /\ disk'[x].notTested = disk[x].notTested
               /\ disk'[x].tested = disk[x].tested /\ (x \in left' <=> x \in left)
      <4>1. IsCurrent(x, disk[x].run)
        BY <1>1, <2>1, <3>2 DEF PublishedRunsAreCurrent
      <4> QED BY <1>8, <3>1, <3>2, <4>1
    <3>3. CASE ~(/\ disk'[x].run = disk[x].run /\ disk'[x].notTested = disk[x].notTested
                 /\ disk'[x].tested = disk[x].tested /\ (x \in left' <=> x \in left))
      <4>1. x = e
        BY <3>3
      <4>2. WillBeCurrent(e, m)
        BY <2>1, <3>3, <4>1
      <4> QED BY <1>9, <3>1, <4>1, <4>2
    <3> QED BY <3>2, <3>3
  <2> QED BY <2>1 DEF PublishedRunsAreCurrent, IsCurrent, WillBeCurrent
<1>11. RunnersAreHonest'
  <2>1. IsHonest(c)'
    BY <1>2 DEF IsHonest, At, IsCurrent, WillBeCurrent
  <2>2. \A d \in Runners \ {c} : IsHonest(d)'
    BY <1>3 DEF IsHonest, At
  <2> QED BY <2>1, <2>2 DEF RunnersAreHonest
<1>12. ReporterIsHonest'
  <2> DEFINE r == reporter.material
  <2>1. Selected' = Selected
    BY DEF Selected
  <2>2. ASSUME NEW x \in Selected
        PROVE  /\ WillBeCurrent(x, r)
               /\ \A d \in Runners : (Active(d))' => Precedes(r, runner'[d].material)
    <3>1. x \in Experiments /\ reporter.at # "idle"
      BY <2>2 DEF Selected
    <3>2. r \in Configurations
      BY <1>1, <3>1, CommandsHaveNumbers
    <3>3. IsCurrent(x, r) /\ Precedes(r, m)
      BY <1>1, <2>2 DEF ReporterIsHonest
    <3>4. \A d \in Runners : (Active(d))' => runner'[d].material = m
      BY <1>2, <1>3 DEF Active, At
    <3>5. WillBeCurrent(x, r)
      <4>1. CASE disk'[x].tested = disk[x].tested /\ (x \in left' <=> x \in left)
        BY <1>8, <3>1, <3>2, <3>3, <4>1
      <4>2. CASE ~(disk'[x].tested = disk[x].tested /\ (x \in left' <=> x \in left))
        <5>1. x = e
          BY <3>1, <4>2
        <5> QED BY <1>9, <3>2, <3>3, <4>2, <5>1
      <4> QED BY <4>1, <4>2
    <3> QED BY <3>3, <3>4, <3>5
  <2>3. reporter.at \in {"accept", "export"} => Precedes(r, material)
    BY <1>1 DEF ReporterIsHonest
  <2>4. reporter.at = "export" => reporter.family.material = r /\ IsHonestFamily(reporter.family)
    BY <1>1 DEF ReporterIsHonest
  <2> QED BY <2>1, <2>2, <2>3, <2>4
          DEF ReporterIsHonest, IsHonestFamily, IsCurrent, WillBeCurrent
<1>13. RunsComeOneAtATime'
  BY <1>3 DEF RunsComeOneAtATime, Active, At
<1>14. FamilyIsHonest'
  BY <1>1, FamilyIfKept
<1> QED BY <1>7, <1>10, <1>11, <1>12, <1>13, <1>14 DEF OrderlyFiles

\* An evaluation is of the configuration its command started with.
LEMMA EvaluateStep ==
    ASSUME Orderly, TypeOK', NEW c \in Runners, Evaluate(c)
    PROVE  OrderlyFiles'
<1>1. TypeOK /\ NothingIsOfLater
  BY DEF Orderly, OrderlyFiles
<1>2. Active(c) /\ Go(c, "statistics") /\ UNCHANGED <<material, family, reporter, left>>
  BY DEF Evaluate, EvaluateTo, Active, At, history
<1>3. PICK e, m : e = runner[c].experiment /\ m = runner[c].material
  OBVIOUS
<1>4. e \in Experiments /\ m \in Configurations /\ data \in 1 .. Data
  BY <1>1, <1>2, <1>3, CommandsHaveNumbers DEF TypeOK
<1>5. /\ \A x \in Experiments \ {e} : disk'[x] = disk[x]
      /\ disk'[e].raw = RawOf(m, data)
      /\ disk'[e].summary = IF data \in WithCampaigns THEN SummaryOf(m, data)
                            ELSE disk[e].summary
      /\ disk'[e].tested = disk[e].tested /\ disk'[e].notTested = disk[e].notTested
      /\ disk'[e].run = disk[e].run
  BY <1>1, <1>3, EvaluateWrites
<1>6. disk'[e].raw.evaluation = EvaluationOf[m]
  BY <1>5 DEF RawOf
<1>7. AreUpTo(disk[e], m)
  BY <1>1, <1>2, <1>3, <1>4 DEF NothingIsOfLater
<1>8. data \in WithCampaigns =>
        SummaryOf(m, data) # None /\ SummaryOf(m, data).evaluation = EvaluationOf[m]
  BY <1>4, EvaluationsAreTyped, NoneAssumption DEF SummaryOf
<1>9. EvaluationOf[m] \in Nat
  BY <1>4, ConfigurationsHaveNumbers
<1>10. disk'[e].summary # None => disk'[e].summary.evaluation <= EvaluationOf[m]
  BY <1>5, <1>7, <1>8, <1>9 DEF AreUpTo
<1>11. AreUpTo(disk'[e], m)
  BY <1>5, <1>7, <1>8, <1>10 DEF AreUpTo, IsConclusive
<1> QED BY <1>2, <1>3, <1>4, <1>5, <1>6, <1>11, WritingStep

\* Beside the record of a hypothesis that was not tested no test counts.
LEMMA WriteNotTestedStep ==
    ASSUME Orderly, TypeOK', NEW c \in Runners, WriteNotTested(c)
    PROVE  OrderlyFiles'
<1>1. TypeOK /\ NothingIsOfLater
  BY DEF Orderly, OrderlyFiles
<1>2. Active(c) /\ Go(c, "publish") /\ UNCHANGED <<material, family, reporter, left>>
  BY DEF WriteNotTested, Active, At, history
<1>3. PICK e, m : e = runner[c].experiment /\ m = runner[c].material
  OBVIOUS
<1>4. e \in Experiments /\ m \in Configurations
  BY <1>1, <1>2, <1>3, CommandsHaveNumbers
<1>5. /\ \A x \in Experiments \ {e} : disk'[x] = disk[x]
      /\ disk'[e].summary = disk[e].summary
      /\ disk'[e].tested = disk[e].tested /\ disk'[e].run = disk[e].run
      /\ disk'[e].notTested # None
  BY <1>1, <1>3, WriteNotTestedWrites
<1>6. AreUpTo(disk[e], m)
  BY <1>1, <1>2, <1>3, <1>4 DEF NothingIsOfLater
<1>7. AreUpTo(disk'[e], m)
  BY <1>5, <1>6 DEF AreUpTo, IsConclusive
<1> QED BY <1>2, <1>3, <1>4, <1>5, <1>7, WritingStep

\* A test of a summary that is of the evaluation beside it is of this command.
LEMMA TestStep ==
    ASSUME Orderly, TypeOK', NEW c \in Runners, At(c, "statistics"), Go(c, "publish"),
           UNCHANGED <<material, family, reporter>>, NEW e, e = runner[c].experiment,
           Remember(e),
           NEW conclusive \in BOOLEAN, conclusive => disk[e].summary # None,
           WritesTest(runner[c].material, e, conclusive)
    PROVE  OrderlyFiles'
<1>1. TypeOK /\ NothingIsOfLater /\ RunnersAreHonest
  BY DEF Orderly, OrderlyFiles
<1>2. PICK m : m = runner[c].material
  OBVIOUS
<1>3. Active(c) /\ e \in Experiments /\ m \in Configurations
  BY <1>1, <1>2, CommandsHaveNumbers DEF Active, At
<1>4. /\ \A x \in Experiments \ {e} : disk'[x] = disk[x]
      /\ disk'[e].raw = disk[e].raw /\ disk'[e].summary = disk[e].summary
      /\ disk'[e].run = disk[e].run
      /\ disk'[e].tested # None /\ disk'[e].tested.of = disk[e].summary
      /\ disk'[e].tested.conclusive = conclusive
  BY <1>1, <1>2, <1>3, TestWrites
<1>5. disk[e].raw.evaluation = EvaluationOf[m]
  BY <1>1, <1>2 DEF RunnersAreHonest, IsHonest
<1>6. AreUpTo(disk[e], m) /\ EvaluationOf[m] \in Nat
  BY <1>1, <1>2, <1>3, ConfigurationsHaveNumbers DEF NothingIsOfLater
<1>7. IsConclusive(disk'[e]) =>
        disk'[e].tested.of = disk[e].summary /\ disk[e].summary # None
  BY <1>4 DEF IsConclusive
<1>8. AreUpTo(disk'[e], m)
  BY <1>4, <1>6, <1>7 DEF AreUpTo, IsUpTo
<1>9. WillBeCurrent(e, m)
  <2>1. ASSUME e \notin left', IsConclusive(disk'[e]) PROVE IsFrom(disk'[e].tested, m)
    <3>1. ~IsLeftBehind(e)
      BY <1>3, <2>1 DEF Remember
    <3>2. disk[e].summary.evaluation = EvaluationOf[m]
      BY <1>5, <1>7, <2>1, <3>1 DEF IsLeftBehind
    <3> QED BY <1>6, <1>7, <2>1, <3>2 DEF IsFrom
  <2> QED BY <2>1 DEF WillBeCurrent
<1>10. \A x \in Experiments \ {e} : x \in left' <=> x \in left
  BY DEF Remember
<1> QED BY <1>2, <1>3, <1>4, <1>8, <1>9, <1>10, WritingStep

\* A command that ends or is killed, whatever it has done.
LEMMA StopStep ==
    ASSUME Orderly, TypeOK', NEW c \in Runners, Fail(c), FamilyIsHonest',
           UNCHANGED <<material, disk, reporter, left>>
    PROVE  OrderlyFiles'
<1>1. TypeOK /\ HeldFilesAreThere /\ OrderlyFiles
  BY DEF Orderly
<1>2. runner'[c] = Idle /\ \A d \in Runners \ {c} : runner'[d] = runner[d]
  BY <1>1, FailStops
<1>3. EvidenceIsKept
  BY DEF EvidenceIsKept
<1>4. \A d \in Runners : runner'[d].at = "idle" \/ runner'[d] = runner[d]
  BY <1>2 DEF Idle
<1>5. MaterialsAreKept /\ RunsComeOneAtATime'
  BY <1>1, <1>4, OneAtATimeIfKept DEF MaterialsAreKept, Active, At, OrderlyFiles
<1>6. Precedes(material, material')
  BY <1>1, PrecedesIsOrder DEF TypeOK
<1>7. \A d \in Runners : IsHonest(d)'
  BY <1>1, <1>3, <1>4, HonestIfKept DEF HeldFilesAreThere, OrderlyFiles, RunnersAreHonest
<1>8. ReporterIsHonest'
  BY <1>1, <1>3, <1>5, <1>6, ReporterIfKept DEF OrderlyFiles
<1> QED BY <1>1, <1>3, <1>5, <1>6, <1>7, <1>8, QuietStep

\* A contrast is written of the summaries it could pair, or the command fails.
LEMMA WriteContrastStep ==
    ASSUME Orderly, TypeOK', NEW c \in Runners, WriteContrast(c)
    PROVE  OrderlyFiles'
<1>1. PICK e : e = runner[c].experiment
  OBVIOUS
<1>2. At(c, "statistics") /\ UNCHANGED <<material, family, reporter>>
  BY DEF WriteContrast
<1>3. CASE disk[e].summary # None /\ ~disk[e].raw.tested
  <2>1. Fail(c) /\ UNCHANGED <<disk, left>>
    BY <1>1, <1>3 DEF WriteContrast
  <2>2. FamilyIsHonest'
    BY <1>2, FamilyIfKept DEF Orderly, OrderlyFiles
  <2> QED BY <1>2, <2>1, <2>2, StopStep
<1>4. CASE ~(disk[e].summary # None /\ ~disk[e].raw.tested)
  <2>1. PICK conclusive \in BOOLEAN : conclusive = (disk[e].summary # None)
    OBVIOUS
  <2>2. /\ Go(c, "publish") /\ Remember(e)
        /\ WritesTest(runner[c].material, e, disk[e].summary # None)
    BY <1>1, <1>4 DEF WriteContrast, WritesTest
  <2>3. WritesTest(runner[c].material, e, conclusive)
    BY <2>1, <2>2
  <2> QED BY <1>1, <1>2, <2>1, <2>2, <2>3, TestStep
<1> QED BY <1>3, <1>4

\* A test against a minimum is written of an evaluation and its summary, or left out:
\* then there is another record, or never was a test.
LEMMA WriteStrongLocalStep ==
    ASSUME Orderly, TypeOK', NEW c \in Runners, WriteStrongLocal(c)
    PROVE  OrderlyFiles'
<1>1. PICK e, m : e = runner[c].experiment /\ m = runner[c].material
  OBVIOUS
<1>2. /\ At(c, "statistics") /\ Active(c) /\ Go(c, "publish")
      /\ UNCHANGED <<material, family, reporter>>
  BY DEF WriteStrongLocal, Active, At
<1>3. TypeOK /\ NothingIsOfLater
  BY DEF Orderly, OrderlyFiles
<1>4. e \in Experiments /\ m \in Configurations
  BY <1>1, <1>2, <1>3, CommandsHaveNumbers
<1>5. CASE disk[e].notTested # None \/ disk[e].summary = None
  <2>1. disk' = disk /\ left' = left
    BY <1>1, <1>5 DEF WriteStrongLocal
  <2>2. AreUpTo(disk[e], m)
    BY <1>1, <1>2, <1>3, <1>4 DEF NothingIsOfLater
  <2>3. disk[e].notTested = None => WillBeCurrent(e, m)
    BY <1>5, <2>1, <2>2 DEF AreUpTo, WillBeCurrent
  <2> QED BY <1>1, <1>2, <1>4, <2>1, <2>2, <2>3, WritingStep
<1>6. CASE ~(disk[e].notTested # None \/ disk[e].summary = None)
  <2>1. /\ Remember(e)
        /\ WritesTest(runner[c].material, e, disk[e].raw.tested)
    BY <1>1, <1>6 DEF WriteStrongLocal, WritesTest
  <2>2. disk[e].raw.tested \in BOOLEAN
    <3>1. disk[e] \in Files
      BY <1>3, <1>4 DEF TypeOK
    <3>2. disk[e].raw # None
      BY <1>1, <1>2 DEF Orderly, HeldFilesAreThere, HoldsItsFiles
    <3> QED BY <3>1, <3>2 DEF Files, OrNone, Raws
  <2>3. PICK conclusive \in BOOLEAN : conclusive = disk[e].raw.tested
    BY <2>2
  <2>4. WritesTest(runner[c].material, e, conclusive)
    BY <2>1, <2>3
  <2> QED BY <1>1, <1>2, <1>6, <2>1, <2>4, TestStep
<1> QED BY <1>5, <1>6

\* A run is published with the records that its command has left.
LEMMA PublishRunStep ==
    ASSUME Orderly, TypeOK', NEW c \in Runners, PublishRun(c)
    PROVE  OrderlyFiles'
<1>1. TypeOK /\ NothingIsOfLater /\ RunnersAreHonest
  BY DEF Orderly, OrderlyFiles
<1>2. /\ Active(c) /\ At(c, "publish") /\ Go(c, "collect")
      /\ UNCHANGED <<material, family, reporter, left>>
  BY DEF PublishRun, Active, At, history
<1>3. PICK e, m : e = runner[c].experiment /\ m = runner[c].material
  OBVIOUS
<1>4. e \in Experiments /\ m \in Configurations
  BY <1>1, <1>2, <1>3, CommandsHaveNumbers
<1>5. /\ \A x \in Experiments \ {e} : disk'[x] = disk[x]
      /\ disk'[e].summary = disk[e].summary
      /\ disk'[e].tested = disk[e].tested /\ disk'[e].notTested = disk[e].notTested
      /\ disk'[e].run = m
  BY <1>1, <1>3, PublishRunWrites
<1>6. AreUpTo(disk[e], m) /\ Precedes(m, m)
  BY <1>1, <1>2, <1>3, <1>4, PrecedesIsOrder DEF NothingIsOfLater
<1>7. AreUpTo(disk'[e], m)
  BY <1>5, <1>6 DEF AreUpTo, IsConclusive
<1>8. disk'[e].notTested = None => WillBeCurrent(e, m)
  <2>1. disk[e].notTested = None => IsCurrent(e, m)
    BY <1>1, <1>2, <1>3 DEF RunnersAreHonest, IsHonest
  <2> QED BY <1>2, <1>5, <2>1 DEF IsCurrent, WillBeCurrent, IsConclusive
<1> QED BY <1>2, <1>3, <1>4, <1>5, <1>7, <1>8, WritingStep

\* What was collected is what is there, and of no later configuration.
LEMMA CollectStep ==
    ASSUME Orderly, TypeOK', NEW c \in Runners, Collect(c)
    PROVE  OrderlyFiles'
<1>1. TypeOK /\ HeldFilesAreThere /\ OrderlyFiles
  BY DEF Orderly
<1>2. Active(c) /\ UNCHANGED <<material, disk, family, reporter, left>>
  BY DEF Collect, Active, At, history
<1>3. FamilyIsHonest'
  BY <1>1, <1>2, FamilyIfKept DEF OrderlyFiles
<1>4. CASE Fail(c)
  BY <1>2, <1>3, <1>4, StopStep
<1>5. CASE ~Fail(c)
  <2>1. PICK m, paths : m = runner[c].material /\ paths = Chosen
    OBVIOUS
  <2>2. /\ \A e \in Experiments : Records(e) # {}
        /\ \A d \in Runners \ {c} : runner'[d] = runner[d]
        /\ runner'[c].at = "hash" /\ runner'[c].paths = paths
        /\ runner'[c].results = RecordsAt(paths)
        /\ runner'[c].material = m
    BY <1>1, <1>5, <2>1, CollectHolds
  <2>3. \A d \in Runners \ {c} : runner'[d].at = "idle"
    BY <1>2, <2>2, OthersAreIdle
  <2>4. EvidenceIsKept
    BY <1>2 DEF EvidenceIsKept
  <2>5. MaterialsAreKept /\ RunsComeOneAtATime'
    BY <1>2, <2>1, <2>2, <2>3 DEF MaterialsAreKept, RunsComeOneAtATime, Active, At
  <2>6. Precedes(material, material')
    BY <1>1, <1>2, PrecedesIsOrder DEF TypeOK
  <2>7. ASSUME NEW x \in Experiments, RecordsAt(paths)[x].conclusive
        PROVE  IsUpTo(RecordsAt(paths)[x], m)
    <3>1. RecordsAt(paths)[x] = disk[x][paths[x]] /\ paths[x] = TheSlot(x)
      BY <2>1 DEF RecordsAt, Chosen
    <3>2. paths[x] \in {"tested", "notTested"} /\ disk[x][paths[x]] # None
      BY <2>2, <3>1, SlotsAreChosen DEF Slots
    <3>3. CASE paths[x] = "notTested"
      <4>1. disk[x].notTested # None /\ disk[x].notTested.conclusive
        BY <2>7, <3>1, <3>2, <3>3
      <4> QED BY <1>1, <4>1 DEF HeldFilesAreThere, NotTestedIsNotConclusive
    <3>4. CASE paths[x] = "tested"
      <4>1. disk[x].tested # None /\ disk[x].tested.conclusive /\ RecordsAt(paths)[x] = disk[x].tested
        BY <2>7, <3>1, <3>2, <3>4
      <4>2. AreUpTo(disk[x], m)
        BY <1>1, <1>2, <2>1 DEF OrderlyFiles, NothingIsOfLater
      <4> QED BY <4>1, <4>2 DEF AreUpTo, IsConclusive
    <3> QED BY <3>2, <3>3, <3>4
  <2>8. runner'[c].results = [x \in Experiments |-> disk'[x][runner'[c].paths[x]]]
    BY <1>2, <2>2 DEF RecordsAt
  <2>9. IsHonest(c)'
    <3>1. \A x \in Experiments : runner'[c].results[x].conclusive =>
              IsUpTo(runner'[c].results[x], m)
      BY <2>2, <2>7
    <3> QED BY <2>2, <2>8, <3>1 DEF IsHonest, At, IsUpTo, RecordsAt
  <2>10. \A d \in Runners : IsHonest(d)'
    BY <2>3, <2>9 DEF IsHonest, At
  <2>11. ReporterIsHonest'
    BY <1>1, <1>2, <2>4, <2>5, <2>6, ReporterIfKept DEF OrderlyFiles
  <2> QED BY <1>1, <1>3, <2>4, <2>5, <2>6, <2>10, <2>11, QuietStep
<1> QED BY <1>4, <1>5

\* The sources that are hashed are the results that were collected.
LEMMA HashSourcesStep ==
    ASSUME Orderly, TypeOK', NEW c \in Runners, HashSources(c)
    PROVE  OrderlyFiles'
<1>1. TypeOK /\ HeldFilesAreThere /\ OrderlyFiles
  BY DEF Orderly
<1>2. Active(c) /\ At(c, "hash") /\ UNCHANGED <<material, disk, family, reporter, left>>
  BY DEF HashSources, Active, At, history
<1>3. PICK m, results : m = runner[c].material /\ results = runner[c].results
  OBVIOUS
<1>4. /\ results = RecordsAt(runner[c].paths)
      /\ \A x \in Experiments : results[x].conclusive => IsUpTo(results[x], m)
  BY <1>1, <1>2, <1>3 DEF OrderlyFiles, RunnersAreHonest, IsHonest
<1>5. /\ \A d \in Runners \ {c} : runner'[d] = runner[d]
      /\ runner'[c].at = "write" /\ runner'[c].sources = results
      /\ runner'[c].results = results /\ runner'[c].material = m
  BY <1>1, <1>3, <1>4, HashSourcesHolds DEF HeldFilesAreThere
<1>6. \A d \in Runners \ {c} : runner'[d].at = "idle"
  BY <1>2, <1>5, OthersAreIdle
<1>7. EvidenceIsKept
  BY <1>2 DEF EvidenceIsKept
<1>8. MaterialsAreKept /\ RunsComeOneAtATime'
  BY <1>2, <1>3, <1>5, <1>6 DEF MaterialsAreKept, RunsComeOneAtATime, Active, At
<1>9. Precedes(material, material')
  BY <1>1, <1>2, PrecedesIsOrder DEF TypeOK
<1>10. IsHonest(c)'
  BY <1>4, <1>5 DEF IsHonest, At, IsUpTo
<1>11. \A d \in Runners : IsHonest(d)'
  BY <1>6, <1>10 DEF IsHonest, At
<1>12. FamilyIsHonest' /\ ReporterIsHonest'
  BY <1>1, <1>2, <1>7, <1>8, <1>9, FamilyIfKept, ReporterIfKept DEF OrderlyFiles
<1> QED BY <1>1, <1>7, <1>8, <1>9, <1>11, <1>12, QuietStep

\* The family that is written names the sources it was computed from.
LEMMA WriteFamilyStep ==
    ASSUME Orderly, TypeOK', NEW c \in Runners, WriteFamily(c)
    PROVE  OrderlyFiles'
<1>1. Fail(c) /\ UNCHANGED <<material, disk, reporter, left>> /\ At(c, "write")
  BY DEF WriteFamily, history
<1>2. /\ runner[c].sources = runner[c].results
      /\ \A x \in Experiments : runner[c].results[x].conclusive =>
            IsUpTo(runner[c].results[x], runner[c].material)
  BY <1>1 DEF Orderly, OrderlyFiles, RunnersAreHonest, IsHonest
<1>3. /\ family'.material = runner[c].material /\ family'.results = runner[c].results
      /\ family'.sources = runner[c].sources
  BY DEF WriteFamily
<1>4. FamilyIsHonest'
  BY <1>2, <1>3 DEF FamilyIsHonest, IsHonestFamily, IsUpTo
<1> QED BY <1>1, <1>4, StopStep

\* A run starts under the configuration there is, and no other is under way.
LEMMA StartStep ==
    ASSUME Orderly, TypeOK', orderly', NEW c \in Runners, NEW e \in Experiments,
           StartRun(c, e) \/ ForceRun(c, e)
    PROVE  OrderlyFiles'
<1>1. TypeOK /\ HeldFilesAreThere /\ OrderlyFiles
  BY DEF Orderly
<1>2. UNCHANGED <<material, disk, family, reporter, left>> /\ StartsAlone
  BY DEF StartRun, ForceRun
<1>3. \A d \in Runners : runner[d].at = "idle"
  BY <1>2 DEF StartsAlone, At
<1>4. PICK where \in {"collect", "evaluate"} : runner' = [runner EXCEPT ![c] = Runner(e, where)]
  BY DEF StartRun, ForceRun
<1>5. runner'[c] = Runner(e, where) /\ \A d \in Runners \ {c} : runner'[d] = runner[d]
  BY <1>1, <1>4, StartIsTyped
<1>6. runner'[c].at = where /\ runner'[c].material = material
  BY <1>5 DEF Runner
<1>7. EvidenceIsKept
  BY <1>2 DEF EvidenceIsKept
<1>8. MaterialsAreKept /\ RunsComeOneAtATime'
  BY <1>3, <1>5, <1>6 DEF MaterialsAreKept, RunsComeOneAtATime, Active, At
<1>9. Precedes(material, material')
  BY <1>1, <1>2, PrecedesIsOrder DEF TypeOK
<1>10. \A d \in Runners : IsHonest(d)'
  BY <1>3, <1>5, <1>6 DEF IsHonest, At
<1>11. FamilyIsHonest' /\ ReporterIsHonest'
  BY <1>1, <1>2, <1>7, <1>8, <1>9, FamilyIfKept, ReporterIfKept DEF OrderlyFiles
<1> QED BY <1>1, <1>7, <1>8, <1>9, <1>10, <1>11, QuietStep

-----------------------------------------------------------------------------
(***************************************************************************)
(* The steps of a report, while the use is orderly.                        *)
(***************************************************************************)
\* A step of a report keeps what the runs have left.
LEMMA ReportingStep ==
    ASSUME Orderly, TypeOK', EvidenceIsKept, UNCHANGED <<material, family, runner>>,
           ReporterIsHonest'
    PROVE  OrderlyFiles'
<1>1. TypeOK /\ HeldFilesAreThere /\ OrderlyFiles
  BY DEF Orderly
<1>2. MaterialsAreKept /\ RunsComeOneAtATime'
  BY <1>1, OneAtATimeIfKept DEF MaterialsAreKept, Active, At, OrderlyFiles
<1>3. Precedes(material, material')
  BY <1>1, PrecedesIsOrder DEF TypeOK
<1>4. \A c \in Runners : IsHonest(c)'
  BY <1>1, HonestIfKept DEF HeldFilesAreThere, OrderlyFiles, RunnersAreHonest
<1>5. FamilyIsHonest'
  BY <1>1, FamilyIfKept DEF OrderlyFiles
<1> QED BY <1>1, <1>2, <1>3, <1>4, <1>5, QuietStep

\* With one record, an experiment that has a test has no record without one.
LEMMA OneRecord ==
    ASSUME NEW e \in Experiments, Cardinality(Records(e)) = 1, disk[e].tested # None
    PROVE  disk[e].notTested = None
<1> SUFFICES ASSUME disk[e].notTested # None PROVE FALSE
  OBVIOUS
<1>1. Records(e) = {"tested", "notTested"}
  BY DEF Records, Slots
<1>2. PICK s : Records(e) = {s}
  <2>1. IsFiniteSet({} \cup {"tested"})
    BY FS_EmptySet, FS_AddElement
  <2>2. IsFiniteSet(({} \cup {"tested"}) \cup {"notTested"})
    BY <2>1, FS_AddElement
  <2>3. Records(e) = ({} \cup {"tested"}) \cup {"notTested"}
    BY <1>1
  <2>4. IsFiniteSet(Records(e))
    BY <2>2, <2>3
  <2> QED BY <2>4, FS_Singleton
<1> QED BY <1>1, <1>2

\* A report begins with nothing selected, under the configuration there is.
LEMMA StartReportStep ==
    ASSUME Orderly, TypeOK', StartReport
    PROVE  OrderlyFiles'
<1>1. /\ UNCHANGED <<material, disk, family, runner, left>>
      /\ reporter'.at = "accept" /\ reporter'.todo = Experiments /\ reporter'.material = material
  BY DEF StartReport, history
<1>2. Selected' = {}
  BY <1>1 DEF Selected
<1>3. Precedes(material, material)
  BY PrecedesIsOrder DEF Orderly, TypeOK
<1>4. ReporterIsHonest'
  BY <1>1, <1>2, <1>3 DEF ReporterIsHonest
<1>5. EvidenceIsKept
  BY <1>1 DEF EvidenceIsKept
<1> QED BY <1>1, <1>4, <1>5, ReportingStep

\* The only record of an experiment whose published run is of the report's configuration
\* is not of an earlier one, and no run under way is.
LEMMA AcceptEvidenceStep ==
    ASSUME Orderly, TypeOK', AcceptEvidence
    PROVE  OrderlyFiles'
<1>1. TypeOK /\ NothingIsOfLater /\ PublishedRunsAreCurrent /\ ReporterIsHonest
  BY DEF Orderly, OrderlyFiles
<1>2. UNCHANGED <<material, disk, family, runner, left>> /\ reporter.at = "accept"
  BY DEF AcceptEvidence, history
<1>3. EvidenceIsKept
  BY <1>2 DEF EvidenceIsKept
<1>4. CASE reporter' = Idle
  <2>1. ReporterIsHonest'
    BY <1>4 DEF ReporterIsHonest, Selected, Idle
  <2> QED BY <1>2, <1>3, <2>1, ReportingStep
<1>5. CASE reporter' # Idle
  <2>1. PICK e, m : e = Current /\ m = reporter.material
    OBVIOUS
  <2>2. /\ e \in Experiments /\ reporter \in Reporting
        /\ ReportAccepts(e, m)
        /\ reporter'.at = "accept" /\ reporter'.material = m
        /\ reporter'.todo = reporter.todo \ {e}
    BY <1>1, <1>5, <2>1, AcceptEvidenceMoves
  <2>3. m \in Configurations /\ m # None
    <3>1. m \in Configurations
      BY <2>1, <2>2 DEF Reporting
    <3>2. Configurations \subseteq Nat
      <4> DEFINE N == Cardinality(Configurations)
      <4>1. N \in Nat /\ Configurations = 1 .. N
        BY ConstantsAssumption
      <4> HIDE DEF N
      <4> QED BY <4>1
    <3> QED BY <3>1, <3>2, NoneAssumption
  <2>4. disk[e].run = m /\ Cardinality(Records(e)) = 1
    BY <2>2 DEF ReportAccepts, RunIsReusable
  <2>5. IsCurrent(e, m)
    <3>1. CASE disk[e].tested = None
      BY <3>1 DEF IsCurrent, IsConclusive
    <3>2. CASE disk[e].tested # None
      BY <1>1, <2>2, <2>3, <2>4, <3>2, OneRecord DEF PublishedRunsAreCurrent
    <3> QED BY <3>1, <3>2
  <2>6. \A c \in Runners : Active(c) => Precedes(m, runner[c].material)
    BY <1>1, <2>2, <2>3, <2>4 DEF NothingIsOfLater, AreUpTo
  <2>7. Selected' \subseteq Selected \cup {e} /\ Selected = Experiments \ reporter.todo
    BY <1>2, <2>2 DEF Selected
  <2>8. ASSUME NEW x \in Selected'
        PROVE  /\ WillBeCurrent(x, m)
               /\ \A c \in Runners : (Active(c))' => Precedes(m, runner'[c].material)
    <3>1. IsCurrent(x, m) /\ \A c \in Runners : Active(c) => Precedes(m, runner[c].material)
      BY <1>1, <2>1, <2>5, <2>6, <2>7 DEF ReporterIsHonest
    <3>2. x \in Experiments
      BY <2>2, <2>7
    <3>3. WillBeCurrent(x, m)
      BY <1>3, <3>1, <3>2, KeptEvidence
    <3> QED BY <1>2, <3>1, <3>3 DEF Active, At
  <2>9. Precedes(m, material')
    BY <1>1, <1>2, <2>1 DEF ReporterIsHonest
  <2>10. ReporterIsHonest'
    BY <2>2, <2>8, <2>9 DEF ReporterIsHonest, IsCurrent, WillBeCurrent
  <2> QED BY <1>2, <1>3, <2>10, ReportingStep
<1> QED BY <1>4, <1>5

\* The family a report reads is of its configuration, and honest.
LEMMA ReadFamilyStep ==
    ASSUME Orderly, TypeOK', ReadFamily
    PROVE  OrderlyFiles'
<1>1. TypeOK /\ FamilyIsHonest /\ ReporterIsHonest
  BY DEF Orderly, OrderlyFiles
<1>2. /\ UNCHANGED <<material, disk, family, runner, left>>
      /\ reporter.at = "accept" /\ reporter.todo = {}
  BY DEF ReadFamily, history
<1>3. EvidenceIsKept
  BY <1>2 DEF EvidenceIsKept
<1>4. CASE reporter' = Idle
  <2>1. ReporterIsHonest'
    BY <1>4 DEF ReporterIsHonest, Selected, Idle
  <2> QED BY <1>2, <1>3, <2>1, ReportingStep
<1>5. CASE reporter' # Idle
  <2> DEFINE new == [reporter EXCEPT !.at = "export", !.family = family]
  <2>1. family # None /\ family.material = reporter.material /\ reporter' = new
    BY <1>5 DEF ReadFamily
  <2>2. reporter \in Reporting
    BY <1>1, <1>2, ReportingUnlessIdle
  <2>3. new.at = "export" /\ new.family = family /\ new.material = reporter.material
    BY <2>2 DEF Reporting
  <2> HIDE DEF new
  <2>4. PICK m : m = reporter.material
    OBVIOUS
  <2>5. /\ reporter'.at = "export" /\ reporter'.family = family /\ reporter'.material = m
    BY <2>1, <2>3, <2>4
  <2>6. Selected' = Experiments /\ Selected = Experiments
    BY <1>2, <2>5 DEF Selected
  <2>7. ASSUME NEW x \in Experiments
        PROVE  /\ WillBeCurrent(x, m)
               /\ \A c \in Runners : (Active(c))' => Precedes(m, runner'[c].material)
    <3>1. IsCurrent(x, m) /\ \A c \in Runners : Active(c) => Precedes(m, runner[c].material)
      BY <1>1, <2>4, <2>6 DEF ReporterIsHonest
    <3>2. WillBeCurrent(x, m)
      BY <1>3, <3>1, KeptEvidence
    <3> QED BY <1>2, <3>1, <3>2 DEF Active, At
  <2>8. Precedes(m, material') /\ IsHonestFamily(family) /\ family.material = m
    BY <1>1, <1>2, <2>1, <2>4 DEF ReporterIsHonest, FamilyIsHonest
  <2>9. ReporterIsHonest'
    BY <2>5, <2>6, <2>7, <2>8
       DEF ReporterIsHonest, IsCurrent, WillBeCurrent, IsHonestFamily, IsUpTo
  <2> QED BY <1>2, <1>3, <2>9, ReportingStep
<1> QED BY <1>4, <1>5

\* After the family the report has nothing selected any more.
LEMMA LateReportStep ==
    ASSUME Orderly, TypeOK', Export \/ SelectEvidence \/ WriteTable \/ WriteSource \/ EndReport
    PROVE  OrderlyFiles'
<1>1. TypeOK
  BY DEF Orderly
<1>2. UNCHANGED <<material, family, runner, left>>
  BY DEF Export, SelectEvidence, WriteTable, WriteSource, EndReport, history
<1>3. EvidenceIsKept
  <2>1. CASE WriteTable \/ WriteSource
    BY <1>1, <1>2, <2>1, ReportWrites DEF EvidenceIsKept
  <2>2. CASE Export \/ SelectEvidence \/ EndReport
    BY <1>2, <2>2 DEF EvidenceIsKept, Export, SelectEvidence, EndReport
  <2> QED BY <2>1, <2>2
<1>4. reporter \in Reporting
  BY <1>1, ReportingUnlessIdle DEF Export, SelectEvidence, WriteTable, WriteSource, EndReport
<1>5. \A todo, evidence :
          /\ [reporter EXCEPT !.todo = todo].at = reporter.at
          /\ [reporter EXCEPT !.at = "table", !.evidence = evidence].at = "table"
          /\ [reporter EXCEPT !.at = "source"].at = "source"
          /\ [reporter EXCEPT !.at = "select", !.todo = todo].at = "select"
  BY <1>4 DEF Reporting
<1>6. reporter'.at \notin {"accept", "export"}
  <2>1. CASE Export
    <3> DEFINE new == [reporter EXCEPT !.at = "select", !.todo = Experiments, !.paths = NoPaths]
    <3>1. new.at = "select"
      BY <1>4 DEF Reporting
    <3>2. reporter' = new \/ reporter' = Idle
      BY <2>1 DEF Export
    <3> HIDE DEF new
    <3> QED BY <3>1, <3>2 DEF Idle
  <2>2. CASE SelectEvidence
    BY <1>5, <2>2 DEF SelectEvidence, Idle
  <2>3. CASE WriteTable
    BY <1>5, <2>3 DEF WriteTable
  <2>4. CASE WriteSource
    BY <1>5, <2>4 DEF WriteSource
  <2>5. CASE EndReport
    BY <2>5 DEF EndReport, Idle
  <2> QED BY <2>1, <2>2, <2>3, <2>4, <2>5
<1>7. ReporterIsHonest'
  BY <1>6 DEF ReporterIsHonest, Selected
<1> QED BY <1>2, <1>3, <1>7, ReportingStep
-----------------------------------------------------------------------------
(***************************************************************************)
(* The environment, and the theorems.                                      *)
(***************************************************************************)
\* New data, an edit and a killed report leave the files and the run commands.
LEMMA DisturbingStep ==
    ASSUME Orderly, TypeOK', orderly',
           ReplaceData \/ EditConfiguration \/ KillReport \/ UNCHANGED vars
    PROVE  OrderlyFiles'
<1>1. TypeOK /\ HeldFilesAreThere /\ OrderlyFiles
  BY DEF Orderly
<1>2. UNCHANGED <<disk, family, runner, left>>
  BY DEF ReplaceData, EditConfiguration, KillReport, vars, history
<1>3. EvidenceIsKept
  BY <1>2 DEF EvidenceIsKept
<1>4. MaterialsAreKept /\ RunsComeOneAtATime'
  BY <1>1, <1>2, OneAtATimeIfKept DEF MaterialsAreKept, Active, At, OrderlyFiles
<1>5. Precedes(material, material')
  <2>1. CASE EditConfiguration
    BY <2>1 DEF EditConfiguration, Precedes
  <2>2. CASE ReplaceData \/ KillReport \/ UNCHANGED vars
    BY <1>1, <2>2, PrecedesIsOrder DEF ReplaceData, KillReport, vars, TypeOK
  <2> QED BY <2>1, <2>2
<1>6. \A c \in Runners : IsHonest(c)'
  BY <1>1, <1>2, <1>3, HonestIfKept DEF HeldFilesAreThere, OrderlyFiles, RunnersAreHonest
<1>7. FamilyIsHonest'
  BY <1>1, <1>2, FamilyIfKept DEF OrderlyFiles
<1>8. ReporterIsHonest'
  <2>1. CASE reporter' = reporter
    BY <1>1, <1>3, <1>4, <1>5, <2>1, ReporterIfKept DEF OrderlyFiles
  <2>2. CASE reporter' = Idle
    BY <2>2 DEF ReporterIsHonest, Selected, Idle
  <2> QED BY <2>1, <2>2 DEF ReplaceData, EditConfiguration, KillReport, vars
<1> QED BY <1>1, <1>3, <1>4, <1>5, <1>6, <1>7, <1>8, QuietStep

\* While the use is orderly, every step keeps what the files and the commands are of.
LEMMA OrderlyStep ==
    ASSUME Orderly, TypeOK', orderly', [Next]_vars
    PROVE  OrderlyFiles'
<1>1. ASSUME NEW c \in Runners, Step(c) PROVE OrderlyFiles'
  BY <1>1, EvaluateStep, WriteNotTestedStep, WriteContrastStep, WriteStrongLocalStep,
     PublishRunStep, CollectStep, HashSourcesStep, WriteFamilyStep DEF Step
<1>2. ASSUME NEW c \in Runners, NEW e \in Experiments, StartRun(c, e) \/ ForceRun(c, e)
      PROVE  OrderlyFiles'
  BY <1>2, StartStep
<1>3. ASSUME NEW c \in Runners, KillRun(c) PROVE OrderlyFiles'
  <2>1. Fail(c) /\ UNCHANGED <<material, disk, family, reporter, left>>
    BY <1>3 DEF KillRun, history
  <2>2. FamilyIsHonest'
    BY <2>1, FamilyIfKept DEF Orderly, OrderlyFiles
  <2> QED BY <2>1, <2>2, StopStep
<1>4. CASE StartReport
  BY <1>4, StartReportStep
<1>5. CASE ReportStep
  BY <1>5, AcceptEvidenceStep, ReadFamilyStep, LateReportStep DEF ReportStep
<1>6. CASE ReplaceData \/ EditConfiguration \/ KillReport \/ UNCHANGED vars
  BY <1>6, DisturbingStep
<1> QED BY <1>1, <1>2, <1>3, <1>4, <1>5, <1>6 DEF Next, Environment

\* What is exported is computed of the records there are: those are not of an earlier
\* configuration than the report's, nor the results of a later one than the family's.
LEMMA ExportStep ==
    ASSUME Orderly, Export, exported' = reporter.family, leftAtExport' = left,
           reporter.family.sources = RecordsAt(reporter.paths)
    PROVE  ExportedFamilyIsOfOneConfiguration'
<1> DEFINE m == reporter.material
           f == reporter.family
<1>1. TypeOK /\ HeldFilesAreThere /\ ReporterIsHonest
  BY DEF Orderly, OrderlyFiles
<1>2. reporter.at = "export" /\ reporter \in Reporting
  BY <1>1, ReportingUnlessIdle DEF Export
<1>3. m \in Configurations /\ f \in Families /\ reporter.paths \in Paths
  BY <1>1, <1>2 DEF HeldFilesAreThere, ReporterHoldsItsFiles, Reporting, OrNone
<1>4. f.material = m /\ IsHonestFamily(f)
  BY <1>1, <1>2 DEF ReporterIsHonest
<1>5. ASSUME NEW e \in Experiments \ left, f.results[e].conclusive
      PROVE  f.results[e].of.evaluation = EvaluationOf[m]
  <2>1. f.results[e] = disk[e][reporter.paths[e]] /\ reporter.paths[e] \in {"tested", "notTested"}
    BY <1>3, <1>4 DEF IsHonestFamily, RecordsAt, Paths, Slots
  <2>2. f.results[e] \in RecordsOf(Summaries) \cup RecordsOf(Raws)
    BY <1>3 DEF Families, RecordFamilies
  <2>3. f.results[e] # None
    BY <2>2, NoneAssumption
  <2>4. reporter.paths[e] # "notTested"
    BY <1>1, <1>5, <2>1, <2>3 DEF HeldFilesAreThere, NotTestedIsNotConclusive
  <2>5. f.results[e] = disk[e].tested /\ IsConclusive(disk[e])
    BY <1>5, <2>1, <2>3, <2>4 DEF IsConclusive
  <2>6. e \in Selected
    BY <1>2 DEF Selected
  <2>7. IsFrom(f.results[e], m)
    BY <1>1, <1>5, <2>5, <2>6 DEF ReporterIsHonest, IsCurrent
  <2>8. IsUpTo(f.results[e], m)
    BY <1>4, <1>5 DEF IsHonestFamily
  <2>9. f.results[e].of.evaluation \in Nat
    <3>1. disk[e] \in Files
      BY <1>1 DEF TypeOK
    <3> QED BY <2>5, <2>8, <3>1, FilesHaveNumbers DEF IsUpTo
  <2>10. EvaluationOf[m] \in Nat
    BY <1>3, ConfigurationsHaveNumbers
  <2> HIDE DEF m, f
  <2> QED BY <2>7, <2>8, <2>9, <2>10 DEF IsFrom, IsUpTo
<1> QED BY <1>4, <1>5 DEF ExportedFamilyIsOfOneConfiguration

\* Every step keeps the invariant.
LEMMA FamilyStep ==
    ASSUME FamilyInduction, [Next]_vars
    PROVE  FamilyInduction'
<1>1. TypeOK /\ HeldFilesAreThere /\ (orderly => OrderlyFiles) /\ ExportedFamilyIsOfOneConfiguration
  BY DEF FamilyInduction
<1>2. TypeOK' /\ HeldFilesAreThere'
  BY <1>1, TypeStep
<1>3. orderly' => orderly
  BY <1>1, HistoryIsKept
<1>4. orderly' => OrderlyFiles'
  BY <1>1, <1>2, <1>3, OrderlyStep DEF Orderly
<1>5. ExportedFamilyIsOfOneConfiguration'
  <2>1. CASE UNCHANGED <<exported, leftAtExport>>
    BY <1>1, <1>3, <2>1 DEF ExportedFamilyIsOfOneConfiguration
  <2>2. CASE ~UNCHANGED <<exported, leftAtExport>>
    <3>1. Export
      BY <2>2
         DEF Next, Step, Evaluate, EvaluateTo, WriteNotTested, WriteContrast, WriteStrongLocal,
             PublishRun, Collect, HashSources, WriteFamily, StartRun, ForceRun, StartReport,
             ReportStep, AcceptEvidence, ReadFamily, SelectEvidence, WriteTable, WriteSource,
             EndReport, Environment, ReplaceData, EditConfiguration, KillReport, KillRun,
             vars, history
    <3>2. /\ exported' = reporter.family /\ leftAtExport' = left
          /\ reporter.family.sources = RecordsAt(reporter.paths)
      BY <2>2, <3>1 DEF Export
    <3>3. orderly' => Orderly
      BY <1>1, <1>3 DEF Orderly
    <3> QED BY <3>1, <3>2, <3>3, ExportStep DEF ExportedFamilyIsOfOneConfiguration
  <2> QED BY <2>1, <2>2
<1> QED BY <1>2, <1>4, <1>5 DEF FamilyInduction

\* The invariant holds before anything was run.
LEMMA FamilyInit ==
    Init => FamilyInduction
<1> SUFFICES ASSUME Init PROVE FamilyInduction
  OBVIOUS
<1>1. \A e \in Experiments : disk[e] = NoFiles
  BY DEF Init
<1>2. \A e \in Experiments : /\ disk[e].raw = None /\ disk[e].summary = None
                             /\ disk[e].tested = None /\ disk[e].notTested = None
                             /\ disk[e].run = None
  BY <1>1 DEF NoFiles
<1>3. (\A c \in Runners : runner[c].at = "idle") /\ reporter.at = "idle"
  BY DEF Init, Idle
<1>4. TypeOK
  <2>1. NoFiles \in Files
    BY DEF NoFiles, Files, OrNone
  <2>2. MaxDisturbances \in Nat /\ 1 \in Configurations
    BY ConstantsAssumption, ConfigurationsHaveNumbers
  <2>3. orderly \in BOOLEAN
    BY DEF Init
  <2> QED BY <2>1, <2>2, <2>3 DEF Init, TypeOK, OrNone
<1>5. HeldFilesAreThere
  BY <1>2, <1>3 DEF HeldFilesAreThere, HoldsItsFiles, ReporterHoldsItsFiles,
                    NotTestedIsNotConclusive, At
<1>6. RunsComeOneAtATime /\ NothingIsOfLater /\ PublishedRunsAreCurrent
  BY <1>2, <1>3 DEF RunsComeOneAtATime, NothingIsOfLater, PublishedRunsAreCurrent, AreUpTo,
                    IsConclusive, Active, At
<1>7. RunnersAreHonest
  BY <1>3 DEF RunnersAreHonest, IsHonest, At
<1>8. ReporterIsHonest
  BY <1>3 DEF ReporterIsHonest, Selected
<1>9. FamilyIsHonest /\ ExportedFamilyIsOfOneConfiguration
  BY DEF Init, FamilyIsHonest, ExportedFamilyIsOfOneConfiguration
<1> QED BY <1>4, <1>5, <1>6, <1>7, <1>8, <1>9 DEF FamilyInduction, OrderlyFiles

\* Whatever is edited, forced or killed, a command holds what it has read; and until runs
\* overlap or an edit goes back, a test never gets ahead of the configuration nor a
\* published run behind its only record, unless it was made of a summary left behind, a
\* command under way answers for what it has read, and a report for the evidence it has
\* selected so far and the family it is about to export (results.py, evidence.py).
THEOREM FamilyInductionHolds ==
    Spec => []FamilyInduction
<1>1. Init => FamilyInduction
  BY FamilyInit
<1>2. FamilyInduction /\ [Next]_vars => FamilyInduction'
  BY FamilyStep
<1> QED BY <1>1, <1>2, PTL DEF Spec

\* Until runs overlap or an edit goes back, every test in an exported family that was not
\* derived from a summary left behind is of evaluations under the configuration the
\* export names, though the records were verified one by one, at other moments and
\* against sources that later runs replaced (reconcile_project_holm_families,
\* materialize_report_scope).
THEOREM FamilyInvariantHolds ==
    Spec => []FamilyInvariant
<1>1. FamilyInduction => FamilyInvariant
  BY DEF FamilyInduction, FamilyInvariant
<1> QED BY <1>1, FamilyInductionHolds, PTL
=============================================================================

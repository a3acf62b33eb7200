-------------------------- MODULE ExperimentRunProofs --------------------------
(***************************************************************************)
(* Proofs about ExperimentRun, for any cells, configurations and versions, *)
(* any number of runs that overlap, and any bound on disturbances.         *)
(***************************************************************************)
EXTENDS ExperimentRun, TLAPS

-----------------------------------------------------------------------------
(***************************************************************************)
(* Facts about the parts of the state.                                     *)
(***************************************************************************)

\* What is known of a run command by its place.
LEMMA RunnerCases ==
    ASSUME TypeOK, NEW r \in Runners
    PROVE  /\ runner[r] \in RunnerType
           /\ runner[r].pc \in {"idle", "check", "required", "cells", "publish"}
           /\ Active(r) => /\ runner[r].declared \in Declarations
                           /\ runner[r].alone \in BOOLEAN /\ runner[r].overwrite \in BOOLEAN
           /\ runner[r].pc = "cells" =>
                /\ runner[r].cell \in [CellsOf[runner[r].declared.material] -> CellStateType]
                /\ CellsOf[runner[r].declared.material] \subseteq Cells
                /\ runner[r] = [pc |-> "cells", overwrite |-> runner[r].overwrite,
                                alone |-> runner[r].alone, declared |-> runner[r].declared,
                                cell |-> runner[r].cell]
<1>1. runner[r] \in RunnerType
  BY DEF TypeOK
<1>2. CASE runner[r] = Idle
  BY <1>1, <1>2 DEF Idle, Active
<1>3. CASE runner[r] \in [pc: {"check", "required", "publish"}, overwrite: BOOLEAN,
                          alone: BOOLEAN, declared: Declarations]
  BY <1>1, <1>3 DEF Active
<1>4. ASSUME NEW m \in Materials,
             runner[r] \in [pc: {"cells"}, overwrite: BOOLEAN, alone: BOOLEAN,
                            declared: {d \in Declarations : d.material = m},
                            cell: [CellsOf[m] -> CellStateType]]
      PROVE  /\ runner[r].pc = "cells"
             /\ runner[r].declared \in Declarations /\ runner[r].declared.material = m
             /\ runner[r].alone \in BOOLEAN /\ runner[r].overwrite \in BOOLEAN
             /\ runner[r].cell \in [CellsOf[m] -> CellStateType]
             /\ CellsOf[m] \subseteq Cells
             /\ runner[r] = [pc |-> "cells", overwrite |-> runner[r].overwrite,
                             alone |-> runner[r].alone, declared |-> runner[r].declared,
                             cell |-> runner[r].cell]
  BY <1>4, ConstantsAssumption
<1> QED BY <1>1, <1>2, <1>3, <1>4 DEF RunnerType, Active

\* A run command that evaluates cells, put together from its parts.
LEMMA CellRunnerTyped ==
    ASSUME NEW d \in Declarations, NEW o \in BOOLEAN, NEW a \in BOOLEAN,
           NEW f \in [CellsOf[d.material] -> CellStateType]
    PROVE  [pc |-> "cells", overwrite |-> o, alone |-> a, declared |-> d, cell |-> f]
                \in RunnerType
<1>1. d.material \in Materials
  BY DEF Declarations
<1>2. [pc |-> "cells", overwrite |-> o, alone |-> a, declared |-> d, cell |-> f]
        \in [pc: {"cells"}, overwrite: BOOLEAN, alone: BOOLEAN,
             declared: {e \in Declarations : e.material = d.material},
             cell: [CellsOf[d.material] -> CellStateType]]
  OBVIOUS
<1> QED BY <1>1, <1>2 DEF RunnerType

\* One cell of one run command changes its state, and nothing else of it.
MovesCell(r, c, state) ==
    /\ \A q \in Runners \ {r} : runner'[q] = runner[q]
    /\ runner[r].pc = "cells" /\ runner'[r].pc = "cells"
    /\ runner'[r].declared = runner[r].declared
    /\ runner'[r].alone = runner[r].alone
    /\ runner'[r].overwrite = runner[r].overwrite
    /\ DOMAIN runner'[r].cell = DOMAIN runner[r].cell
    /\ runner'[r].cell[c] = state
    /\ \A d \in DOMAIN runner[r].cell \ {c} : runner'[r].cell[d] = runner[r].cell[d]

\* A cell that is set: the types are kept, and only that cell moves.
LEMMA SetCellMoves ==
    ASSUME TypeOK, NEW r \in Runners, NEW c \in Cells, Evaluating(r, c),
           NEW state \in CellStateType, SetCell(r, c, state)
    PROVE  runner' \in [Runners -> RunnerType] /\ MovesCell(r, c, state)
<1> DEFINE me == runner[r]
           next == [me.cell EXCEPT ![c] = state]
<1>1. /\ me.pc = "cells" /\ me.declared \in Declarations
      /\ me.alone \in BOOLEAN /\ me.overwrite \in BOOLEAN
      /\ me.cell \in [CellsOf[me.declared.material] -> CellStateType]
      /\ me = [pc |-> "cells", overwrite |-> me.overwrite, alone |-> me.alone,
               declared |-> me.declared, cell |-> me.cell]
  BY RunnerCases DEF Evaluating, Active
<1>2. next \in [CellsOf[me.declared.material] -> CellStateType]
  BY <1>1
<1>3. runner' = [runner EXCEPT ![r] = [pc |-> "cells", overwrite |-> me.overwrite,
                    alone |-> me.alone, declared |-> me.declared, cell |-> next]]
  <2>1. runner' = [runner EXCEPT ![r] = [me EXCEPT !.cell = next]]
    BY DEF SetCell
  <2>2. [me EXCEPT !.cell = next] = [pc |-> "cells", overwrite |-> me.overwrite,
                    alone |-> me.alone, declared |-> me.declared, cell |-> next]
    BY <1>1
  <2> QED BY <2>1, <2>2
<1>4. [pc |-> "cells", overwrite |-> me.overwrite, alone |-> me.alone,
       declared |-> me.declared, cell |-> next] \in RunnerType
  BY <1>1, <1>2, CellRunnerTyped
<1>5. runner \in [Runners -> RunnerType]
  BY DEF TypeOK
<1>6. runner' \in [Runners -> RunnerType]
  BY <1>3, <1>4, <1>5
<1>7. runner'[r] = [pc |-> "cells", overwrite |-> me.overwrite, alone |-> me.alone,
                    declared |-> me.declared, cell |-> next]
  BY <1>3, <1>5
<1>8. \A q \in Runners \ {r} : runner'[q] = runner[q]
  BY <1>3, <1>5
<1>9. c \in DOMAIN me.cell
  BY DEF Evaluating
<1> QED BY <1>1, <1>6, <1>7, <1>8, <1>9 DEF MovesCell

\* What is known of a cell under way by its phase.
LEMMA CellCases ==
    ASSUME TypeOK, NEW r \in Runners, NEW c \in Cells, Evaluating(r, c)
    PROVE  /\ runner[r].cell[c] \in CellStateType
           /\ Phase(r, c) \in {"todo", "done", "hashed", "evaluated", "raw", "summary", "record"}
           /\ Phase(r, c) = "hashed" => runner[r].cell[c].fingerprint \in 1 .. MaxUpstream
           /\ Phase(r, c) = "evaluated" => /\ runner[r].cell[c].read \in 1 .. MaxUpstream
                                           /\ runner[r].cell[c].timing \in 1 .. 2
           /\ Phase(r, c) \in {"raw", "summary", "record"} =>
                /\ runner[r].cell[c].fingerprint \in 1 .. MaxUpstream
                /\ runner[r].cell[c].read \in 1 .. MaxUpstream
                /\ runner[r].cell[c].timing \in 1 .. 2
                /\ runner[r].cell[c] = [phase |-> Phase(r, c),
                        fingerprint |-> runner[r].cell[c].fingerprint,
                        read |-> runner[r].cell[c].read, timing |-> runner[r].cell[c].timing]
<1>1. runner[r].cell[c] \in CellStateType
  BY RunnerCases DEF Evaluating
<1> QED BY <1>1 DEF CellStateType, Phase

\* The next phase, with what the cell remembers.
LEMMA NextPhaseMoves ==
    ASSUME TypeOK, NEW r \in Runners, NEW c \in Cells, Evaluating(r, c),
           Phase(r, c) \in {"raw", "summary", "record"},
           NEW phase \in {"summary", "record"}, NextPhase(r, c, phase)
    PROVE  LET state == [phase |-> phase, fingerprint |-> runner[r].cell[c].fingerprint,
                         read |-> runner[r].cell[c].read, timing |-> runner[r].cell[c].timing]
           IN  runner' \in [Runners -> RunnerType] /\ MovesCell(r, c, state)
<1> DEFINE state == [phase |-> phase, fingerprint |-> runner[r].cell[c].fingerprint,
                     read |-> runner[r].cell[c].read, timing |-> runner[r].cell[c].timing]
<1>1. state \in CellStateType
  BY CellCases DEF CellStateType
<1>2. [runner[r].cell[c] EXCEPT !.phase = phase] = state
  <2> DEFINE old == runner[r].cell[c]
  <2>1. old = [phase |-> old.phase, fingerprint |-> old.fingerprint, read |-> old.read,
               timing |-> old.timing]
    BY CellCases DEF Phase
  <2> HIDE DEF old
  <2>2. [old EXCEPT !.phase = phase]
            = [phase |-> phase, fingerprint |-> old.fingerprint, read |-> old.read,
               timing |-> old.timing]
    BY <2>1
  <2> QED BY <2>2 DEF old
<1>3. SetCell(r, c, [runner[r].cell[c] EXCEPT !.phase = phase])
  BY DEF NextPhase, SetCell
<1> HIDE DEF state
<1>4. SetCell(r, c, state)
  BY <1>2, <1>3
<1>5. runner' \in [Runners -> RunnerType] /\ MovesCell(r, c, state)
  BY <1>1, <1>4, SetCellMoves
<1> QED BY <1>5 DEF state

\* Whatever a run command does as a whole, the others are left alone.
LEMMA RunnerMoves ==
    ASSUME TypeOK, NEW r \in Runners, NEW state \in RunnerType,
           runner' = [runner EXCEPT ![r] = state]
    PROVE  /\ runner' \in [Runners -> RunnerType]
           /\ runner'[r] = state
           /\ \A q \in Runners \ {r} : runner'[q] = runner[q]
  BY DEF TypeOK

\* A run command that is no longer alone, its other parts as they were.
LEMMA NotAlone ==
    ASSUME TypeOK, NEW q \in Runners, Active(q)
    PROVE  LET next == [runner[q] EXCEPT !.alone = FALSE]
           IN  /\ next \in RunnerType
               /\ next.pc = runner[q].pc /\ next.declared = runner[q].declared
               /\ next.overwrite = runner[q].overwrite /\ next.alone = FALSE
               /\ next.pc = "cells" => next.cell = runner[q].cell
<1> DEFINE me == runner[q]
           next == [me EXCEPT !.alone = FALSE]
<1>1. CASE me.pc = "cells"
  <2> DEFINE like == [pc: {"cells"}, overwrite: BOOLEAN, alone: BOOLEAN,
                      declared: {d \in Declarations : d.material = me.declared.material},
                      cell: [CellsOf[me.declared.material] -> CellStateType]]
  <2>1. /\ me.declared \in Declarations /\ me.overwrite \in BOOLEAN /\ me.alone \in BOOLEAN
        /\ me.cell \in [CellsOf[me.declared.material] -> CellStateType]
        /\ me = [pc |-> "cells", overwrite |-> me.overwrite, alone |-> me.alone,
                 declared |-> me.declared, cell |-> me.cell]
    BY <1>1, RunnerCases
  <2>2. me.declared.material \in Materials
    BY <2>1 DEF Declarations
  <2> HIDE DEF me
  <2>3. me \in like
    BY <2>1
  <2>4. /\ next \in like
        /\ next.pc = me.pc /\ next.declared = me.declared /\ next.overwrite = me.overwrite
        /\ next.alone = FALSE /\ next.cell = me.cell
    BY <2>3
  <2> HIDE DEF next
  <2>5. next \in RunnerType
    BY <2>2, <2>4 DEF RunnerType
  <2> QED BY <2>4, <2>5 DEF next, me
<1>2. CASE me.pc # "cells"
  <2>1. me \in [pc: {"check", "required", "publish"}, overwrite: BOOLEAN,
                alone: BOOLEAN, declared: Declarations]
    <3>1. me \in RunnerType
      BY RunnerCases
    <3>0. me # Idle
      BY DEF Active, Idle
    <3> HIDE DEF me
    <3>2. \A m \in Materials :
            me \notin [pc: {"cells"}, overwrite: BOOLEAN, alone: BOOLEAN,
                       declared: {d \in Declarations : d.material = m},
                       cell: [CellsOf[m] -> CellStateType]]
      BY <1>2
    <3> QED BY <3>0, <3>1, <3>2 DEF RunnerType
  <2> HIDE DEF me
  <2>2. /\ next \in [pc: {"check", "required", "publish"}, overwrite: BOOLEAN,
                     alone: BOOLEAN, declared: Declarations]
        /\ next.pc = me.pc /\ next.declared = me.declared /\ next.overwrite = me.overwrite
        /\ next.alone = FALSE
    BY <2>1
  <2> HIDE DEF next
  <2>3. next \in RunnerType
    BY <2>2 DEF RunnerType
  <2> QED BY <1>2, <2>2, <2>3 DEF next, me
<1> QED BY <1>1, <1>2

\* A start: the new command, the commands it overlaps, and those at rest.
LEMMA StartMoves ==
    ASSUME TypeOK, NEW r \in Runners, NEW overwrite \in BOOLEAN, StartRun(r, overwrite)
    PROVE  /\ runner' \in [Runners -> RunnerType]
           /\ ~Active(r)
           /\ runner'[r].pc = "check"
           /\ runner'[r].declared = declared
           /\ runner'[r].alone <=> \A q \in Runners : ~Active(q)
           /\ \A q \in Runners \ {r} : Active(q) =>
                /\ runner'[q].pc = runner[q].pc /\ runner'[q].declared = runner[q].declared
                /\ runner'[q].overwrite = runner[q].overwrite /\ runner'[q].alone = FALSE
                /\ runner'[q].pc = "cells" => runner'[q].cell = runner[q].cell
           /\ \A q \in Runners \ {r} : ~Active(q) => runner'[q] = runner[q]
<1> DEFINE others == {q \in Runners : Active(q)}
           new == [pc |-> "check", overwrite |-> overwrite, declared |-> declared,
                   alone |-> others = {}]
<1>1. ~Active(r) /\ runner' = [q \in Runners |->
            IF q = r THEN new
            ELSE IF q \in others THEN [runner[q] EXCEPT !.alone = FALSE] ELSE runner[q]]
  BY DEF StartRun
<1>2. new \in RunnerType /\ new.pc = "check" /\ new.declared = declared /\ new.alone = (others = {})
  <2>1. declared \in Declarations
    BY DEF TypeOK
  <2>2. new \in [pc: {"check", "required", "publish"}, overwrite: BOOLEAN, alone: BOOLEAN,
                 declared: Declarations]
    BY <2>1
  <2> QED BY <2>2 DEF RunnerType
<1>3. \A q \in Runners : runner[q] \in RunnerType
  BY RunnerCases
<1>4. \A q \in Runners : Active(q) =>
        LET next == [runner[q] EXCEPT !.alone = FALSE]
        IN  /\ next \in RunnerType
            /\ next.pc = runner[q].pc /\ next.declared = runner[q].declared
            /\ next.overwrite = runner[q].overwrite /\ next.alone = FALSE
            /\ next.pc = "cells" => next.cell = runner[q].cell
  BY NotAlone
<1> HIDE DEF new
<1>5. runner' \in [Runners -> RunnerType]
  BY <1>1, <1>2, <1>3, <1>4
<1>6. runner'[r] = new
  BY <1>1
<1>7. \A q \in Runners \ {r} :
        runner'[q] = IF q \in others THEN [runner[q] EXCEPT !.alone = FALSE] ELSE runner[q]
  BY <1>1
<1>8. runner'[r].alone <=> \A q \in Runners : ~Active(q)
  BY <1>2, <1>6
<1> QED BY <1>1, <1>2, <1>4, <1>5, <1>6, <1>7, <1>8

-----------------------------------------------------------------------------
(***************************************************************************)
(* The effect of each step of a cell: where its command is left, and what  *)
(* becomes of the files.                                                   *)
(***************************************************************************)

\* A step before the files are written changes the cell's state only.
LEMMA ReadingMoves ==
    ASSUME TypeOK, NEW r \in Runners, NEW c \in Cells,
           \/ HashInputs(r, c) \/ EvaluateEmhi(r, c)
           \/ EvaluateComparator(r, c) \/ HashComparatorInputs(r, c)
    PROVE  \E state \in CellStateType :
             /\ runner' \in [Runners -> RunnerType]
             /\ MovesCell(r, c, state)
             /\ \/ /\ HashInputs(r, c)
                   /\ \/ /\ state = [phase |-> "done"]
                         /\ CellIsReusable(c, runner[r].declared, upstream)
                      \/ /\ state = [phase |-> "hashed", fingerprint |-> upstream]
                         /\ runner[r].overwrite
                              \/ ~CellIsReusable(c, runner[r].declared, upstream)
                \/ /\ EvaluateEmhi(r, c)
                   /\ \E timing \in 1 .. 2 :
                        state = [phase |-> "raw", fingerprint |-> runner[r].cell[c].fingerprint,
                                 read |-> upstream, timing |-> timing]
                \/ /\ EvaluateComparator(r, c)
                   /\ \E timing \in 1 .. 2 :
                        state = [phase |-> "evaluated", read |-> upstream, timing |-> timing]
                \/ /\ HashComparatorInputs(r, c)
                   /\ state = [phase |-> "raw", fingerprint |-> upstream,
                               read |-> runner[r].cell[c].read,
                               timing |-> runner[r].cell[c].timing]
<1>1. Evaluating(r, c) /\ upstream \in 1 .. MaxUpstream
  BY ConstantsAssumption DEF HashInputs, EvaluateEmhi, EvaluateComparator,
        HashComparatorInputs, TypeOK
<1>2. CASE HashInputs(r, c)
  <2> DEFINE keep == ~runner[r].overwrite /\ CellIsReusable(c, runner[r].declared, upstream)
  <2>1. CASE keep
    <3>1. SetCell(r, c, [phase |-> "done"]) /\ [phase |-> "done"] \in CellStateType
      BY <1>2, <2>1 DEF HashInputs, CellStateType
    <3> QED BY <1>1, <1>2, <2>1, <3>1, SetCellMoves
  <2>2. CASE ~keep
    <3> DEFINE state == [phase |-> "hashed", fingerprint |-> upstream]
    <3>1. SetCell(r, c, state) /\ state \in CellStateType
      BY <1>1, <1>2, <2>2 DEF HashInputs, CellStateType
    <3>2. runner' \in [Runners -> RunnerType] /\ MovesCell(r, c, state)
      BY <1>1, <3>1, SetCellMoves
    <3> QED BY <1>2, <2>2, <3>1, <3>2
  <2> QED BY <2>1, <2>2
<1>3. CASE EvaluateEmhi(r, c)
  <2>1. PICK timing \in 1 .. 2 :
            SetCell(r, c, [phase |-> "raw", fingerprint |-> runner[r].cell[c].fingerprint,
                           read |-> upstream, timing |-> timing])
    BY <1>3 DEF EvaluateEmhi
  <2> DEFINE state == [phase |-> "raw", fingerprint |-> runner[r].cell[c].fingerprint,
                       read |-> upstream, timing |-> timing]
  <2>2. Phase(r, c) = "hashed"
    BY <1>3 DEF EvaluateEmhi
  <2>3. state \in CellStateType
    BY <1>1, <2>2, CellCases DEF CellStateType
  <2>4. runner' \in [Runners -> RunnerType] /\ MovesCell(r, c, state)
    BY <1>1, <2>1, <2>3, SetCellMoves
  <2> QED BY <1>3, <2>3, <2>4
<1>4. CASE EvaluateComparator(r, c)
  <2>1. PICK timing \in 1 .. 2 :
            SetCell(r, c, [phase |-> "evaluated", read |-> upstream, timing |-> timing])
    BY <1>4 DEF EvaluateComparator
  <2> DEFINE state == [phase |-> "evaluated", read |-> upstream, timing |-> timing]
  <2>2. state \in CellStateType
    BY <1>1 DEF CellStateType
  <2>3. runner' \in [Runners -> RunnerType] /\ MovesCell(r, c, state)
    BY <1>1, <2>1, <2>2, SetCellMoves
  <2> QED BY <1>4, <2>2, <2>3
<1>5. CASE HashComparatorInputs(r, c)
  <2> DEFINE state == [phase |-> "raw", fingerprint |-> upstream,
                       read |-> runner[r].cell[c].read, timing |-> runner[r].cell[c].timing]
  <2>1. SetCell(r, c, state) /\ Phase(r, c) = "evaluated"
    BY <1>5 DEF HashComparatorInputs
  <2>2. state \in CellStateType
    BY <1>1, <2>1, CellCases DEF CellStateType
  <2>3. runner' \in [Runners -> RunnerType] /\ MovesCell(r, c, state)
    BY <1>1, <2>1, <2>2, SetCellMoves
  <2> QED BY <1>5, <2>2, <2>3
<1> QED BY <1>2, <1>3, <1>4, <1>5

\* What a cell publishes is of the type of its files.
LEMMA EvaluationTyped ==
    ASSUME TypeOK, NEW r \in Runners, NEW c \in Cells, Evaluating(r, c),
           Phase(r, c) \in {"raw", "summary", "record"}
    PROVE  /\ Lineage(r, c) \in LineageType
           /\ RawOf(r, c) \in RawType
           /\ [declared |-> runner[r].declared, fingerprint |-> runner[r].cell[c].fingerprint,
               raw |-> RawOf(r, c), summary |-> Lineage(r, c)] \in RecordType
<1>1. runner[r].declared \in Declarations
  BY RunnerCases DEF Evaluating, Active
<1>2. Lineage(r, c) \in LineageType
  BY <1>1, CellCases DEF Lineage, LineageType
<1>3. RawOf(r, c) \in RawType
  BY <1>2, CellCases DEF RawOf, RawType
<1> QED BY <1>1, <1>2, <1>3, CellCases DEF RecordType

\* A step that writes a file writes it of its own evaluation.
LEMMA WritingMoves ==
    ASSUME TypeOK, NEW r \in Runners, NEW c \in Cells,
           WriteRaw(r, c) \/ WriteSummary(r, c) \/ WriteRecord(r, c)
    PROVE  \E state \in CellStateType :
             /\ runner' \in [Runners -> RunnerType]
             /\ MovesCell(r, c, state)
             /\ \/ WriteRecord(r, c) /\ state = [phase |-> "done"]
                \/ /\ WriteRaw(r, c) \/ WriteSummary(r, c)
                   /\ state.phase \in {"summary", "record"}
                   /\ state.fingerprint = runner[r].cell[c].fingerprint
                   /\ state.read = runner[r].cell[c].read
<1>1. CASE WriteRecord(r, c)
  <2>1. /\ Evaluating(r, c) /\ SetCell(r, c, [phase |-> "done"])
        /\ [phase |-> "done"] \in CellStateType
    BY <1>1 DEF WriteRecord, CellStateType
  <2> QED BY <1>1, <2>1, SetCellMoves
<1>2. ASSUME NEW phase \in {"summary", "record"}, NextPhase(r, c, phase), Evaluating(r, c),
             Phase(r, c) \in {"raw", "summary", "record"},
             WriteRaw(r, c) \/ WriteSummary(r, c)
      PROVE  \E state \in CellStateType :
                /\ runner' \in [Runners -> RunnerType]
                /\ MovesCell(r, c, state)
                /\ WriteRaw(r, c) \/ WriteSummary(r, c)
                /\ state.phase \in {"summary", "record"}
                /\ state.fingerprint = runner[r].cell[c].fingerprint
                /\ state.read = runner[r].cell[c].read
  <2> DEFINE state == [phase |-> phase, fingerprint |-> runner[r].cell[c].fingerprint,
                       read |-> runner[r].cell[c].read, timing |-> runner[r].cell[c].timing]
  <2>1. runner' \in [Runners -> RunnerType] /\ MovesCell(r, c, state)
    BY <1>2, NextPhaseMoves
  <2>2. state \in CellStateType
    BY <1>2, CellCases DEF CellStateType
  <2>3. /\ state.phase = phase /\ state.fingerprint = runner[r].cell[c].fingerprint
        /\ state.read = runner[r].cell[c].read
    OBVIOUS
  <2> HIDE DEF state
  <2> QED BY <1>2, <2>1, <2>2, <2>3
<1>3. CASE WriteRaw(r, c)
  <2>1. NextPhase(r, c, "summary") /\ Evaluating(r, c) /\ Phase(r, c) = "raw"
    BY <1>3 DEF WriteRaw
  <2> QED BY <1>2, <1>3, <2>1
<1>4. CASE WriteSummary(r, c)
  <2>1. NextPhase(r, c, "record") /\ Evaluating(r, c) /\ Phase(r, c) = "summary"
    BY <1>4 DEF WriteSummary
  <2> QED BY <1>2, <1>4, <2>1
<1> QED BY <1>1, <1>3, <1>4

\* A missing input puts the cell back, or ends the command.
LEMMA MissingMoves ==
    ASSUME TypeOK, NEW r \in Runners, NEW c \in Cells, InputIsMissing(r, c)
    PROVE  /\ runner' \in [Runners -> RunnerType]
           /\ \/ MovesCell(r, c, [phase |-> "todo"])
              \/ /\ runner'[r] = Idle
                 /\ \A q \in Runners \ {r} : runner'[q] = runner[q]
<1>1. CASE SetCell(r, c, [phase |-> "todo"])
  <2>1. Evaluating(r, c) /\ [phase |-> "todo"] \in CellStateType
    BY DEF InputIsMissing, CellStateType
  <2> QED BY <1>1, <2>1, SetCellMoves
<1>2. CASE runner' = [runner EXCEPT ![r] = Idle]
  BY <1>2, RunnerMoves DEF RunnerType
<1> QED BY <1>1, <1>2 DEF InputIsMissing

\* A command that ends, or goes on to another place.
Ends(r) ==
    /\ runner'[r] = Idle
    /\ \A q \in Runners \ {r} : runner'[q] = runner[q]

GoesOn(r, pc) ==
    /\ runner'[r].pc = pc
    /\ runner'[r].declared = runner[r].declared
    /\ runner'[r].alone = runner[r].alone
    /\ \A q \in Runners \ {r} : runner'[q] = runner[q]

\* A command that looks for a completed run ends with it, or goes on to look for its inputs.
LEMMA CheckReuseMoves ==
    ASSUME TypeOK, NEW r \in Runners, CheckReuse(r)
    PROVE  runner' \in [Runners -> RunnerType] /\ (Ends(r) \/ GoesOn(r, "required"))
<1> DEFINE me == runner[r]
           next == [me EXCEPT !.pc = "required"]
<1>1. me \in RunnerType /\ me.pc = "check"
  BY RunnerCases DEF CheckReuse
<1>2. \/ runner' = [runner EXCEPT ![r] = Idle]
      \/ runner' = [runner EXCEPT ![r] = next]
  BY DEF CheckReuse
<1>3. Idle \in RunnerType
  BY DEF RunnerType
<1> HIDE DEF me
<1>4. me \in [pc: {"check", "required", "publish"}, overwrite: BOOLEAN,
              alone: BOOLEAN, declared: Declarations]
  BY <1>1 DEF RunnerType, Idle
<1>5. next \in [pc: {"check", "required", "publish"}, overwrite: BOOLEAN,
                alone: BOOLEAN, declared: Declarations]
      /\ next.pc = "required" /\ next.declared = me.declared /\ next.alone = me.alone
  BY <1>4
<1> HIDE DEF next
<1>6. next \in RunnerType
  BY <1>5 DEF RunnerType
<1>7. CASE runner' = [runner EXCEPT ![r] = Idle]
  BY <1>3, <1>7, RunnerMoves DEF Ends
<1>8. CASE runner' = [runner EXCEPT ![r] = next]
  <2>1. /\ runner' \in [Runners -> RunnerType] /\ runner'[r] = next
        /\ \A q \in Runners \ {r} : runner'[q] = runner[q]
    BY <1>6, <1>8, RunnerMoves
  <2> QED BY <1>5, <2>1 DEF GoesOn, me
<1> QED BY <1>2, <1>7, <1>8

\* A command that looks for the required artifacts is blocked, or has all its cells to do.
LEMMA CheckRequiredMoves ==
    ASSUME TypeOK, NEW r \in Runners, CheckRequired(r)
    PROVE  /\ runner' \in [Runners -> RunnerType]
           /\ \/ /\ Ends(r)
                 /\ run' = [state |-> "Blocked", declared |-> runner[r].declared]
                 /\ runner[r].declared \in Declarations
              \/ /\ GoesOn(r, "cells") /\ UNCHANGED run
                 /\ \A c \in DOMAIN runner'[r].cell : runner'[r].cell[c] = [phase |-> "todo"]
<1> DEFINE me == runner[r]
           todo == [c \in CellsOf[me.declared.material] |-> [phase |-> "todo"]]
           next == [pc |-> "cells", overwrite |-> me.overwrite, declared |-> me.declared,
                    alone |-> me.alone, cell |-> todo]
<1>1. /\ me.declared \in Declarations
      /\ me.overwrite \in BOOLEAN /\ me.alone \in BOOLEAN
  BY RunnerCases DEF CheckRequired, Active
<1>2. todo \in [CellsOf[me.declared.material] -> CellStateType]
  BY DEF CellStateType
<1>3. next = [pc |-> "cells", overwrite |-> me.overwrite, alone |-> me.alone,
              declared |-> me.declared, cell |-> todo]
  OBVIOUS
<1>4. next \in RunnerType
  BY <1>1, <1>2, <1>3, CellRunnerTyped
<1>5. CASE runner' = [runner EXCEPT ![r] = Idle]
           /\ run' = [state |-> "Blocked", declared |-> me.declared]
  <2>1. Idle \in RunnerType
    BY DEF RunnerType
  <2>2. Ends(r) /\ runner' \in [Runners -> RunnerType]
    BY <1>5, <2>1, RunnerMoves DEF Ends
  <2> QED BY <1>1, <1>5, <2>2
<1>6. CASE runner' = [runner EXCEPT ![r] = next] /\ UNCHANGED run
  <2>1. /\ runner' \in [Runners -> RunnerType] /\ runner'[r] = next
        /\ \A q \in Runners \ {r} : runner'[q] = runner[q]
    BY <1>4, <1>6, RunnerMoves
  <2>2. GoesOn(r, "cells")
    BY <2>1 DEF GoesOn
  <2> QED BY <1>6, <2>1, <2>2
<1> QED BY <1>5, <1>6 DEF CheckRequired

\* The statistics are of confirmatory cells, and there are some (a file that is there).
LEMMA StatisticTyped ==
    ASSUME TypeOK
    PROVE  LET new == [c \in PairedSources |-> summary[c]]
           IN  /\ new \in UNION {[S -> LineageType] : S \in SUBSET Confirmatory}
               /\ new # None
<1>1. PairedSources \in SUBSET Confirmatory
  BY ConstantsAssumption DEF PairedSources
<1>2. \A c \in PairedSources : summary[c] \in LineageType
  BY <1>1, ConstantsAssumption DEF PairedSources, Summarised, TypeOK
<1>3. [c \in PairedSources |-> summary[c]] \in [PairedSources -> LineageType]
  BY <1>2
<1> QED BY <1>1, <1>3, NoneAssumption

\* A command that derives statistics fails, or has them and is about to publish.
LEMMA DeriveMoves ==
    ASSUME TypeOK, NEW r \in Runners, DeriveStatistics(r)
    PROVE  /\ runner' \in [Runners -> RunnerType]
           /\ \/ Ends(r) /\ UNCHANGED statistic
              \/ GoesOn(r, "publish") /\ statistic' = [c \in PairedSources |-> summary[c]]
<1> DEFINE me == runner[r]
           next == [pc |-> "publish", overwrite |-> me.overwrite,
                    declared |-> me.declared, alone |-> me.alone]
<1>1. /\ me.declared \in Declarations
      /\ me.overwrite \in BOOLEAN /\ me.alone \in BOOLEAN
  BY RunnerCases DEF DeriveStatistics, Active
<1>2. next \in RunnerType /\ Idle \in RunnerType
  BY <1>1 DEF RunnerType
<1>3. CASE runner' = [runner EXCEPT ![r] = Idle] /\ UNCHANGED statistic
  BY <1>2, <1>3, RunnerMoves DEF Ends
<1>4. CASE runner' = [runner EXCEPT ![r] = next]
           /\ statistic' = [c \in PairedSources |-> summary[c]]
  <2>1. /\ runner' \in [Runners -> RunnerType] /\ runner'[r] = next
        /\ \A q \in Runners \ {r} : runner'[q] = runner[q]
    BY <1>2, <1>4, RunnerMoves
  <2> QED BY <1>4, <2>1 DEF GoesOn
<1> QED BY <1>3, <1>4 DEF DeriveStatistics

\* A command that publishes its run record has ended.
LEMMA PublishMoves ==
    ASSUME TypeOK, NEW r \in Runners, PublishRun(r)
    PROVE  runner' \in [Runners -> RunnerType] /\ Ends(r)
<1>1. Idle \in RunnerType
  BY DEF RunnerType
<1> QED BY <1>1, RunnerMoves DEF PublishRun, Ends

-----------------------------------------------------------------------------
(***************************************************************************)
(* Types.                                                                  *)
(***************************************************************************)

\* At first there are no files and no commands.
LEMMA TypeInit ==
    ASSUME Init
    PROVE  TypeOK
<1>1. declared \in Declarations /\ upstream \in 0 .. MaxUpstream
      /\ disturbances \in 0 .. MaxDisturbances
  BY ConstantsAssumption DEF Init
<1>2. runner \in [Runners -> RunnerType]
  BY DEF Init, RunnerType
<1>3. /\ raw \in [Cells -> RawType \cup {None}]
      /\ summary \in [Cells -> LineageType \cup {None}]
      /\ record \in [Cells -> RecordType \cup {None}]
  BY DEF Init
<1>4. /\ statistic \in (UNION {[S -> LineageType] : S \in SUBSET Confirmatory}) \cup {None}
      /\ run \in [state: {"Blocked", "Completed"}, declared: Declarations] \cup {None}
  BY DEF Init
<1> QED BY <1>1, <1>2, <1>3, <1>4 DEF TypeOK

\* A disturbance is counted.
LEMMA DisturbTyped ==
    ASSUME TypeOK, Disturb \/ UNCHANGED disturbances
    PROVE  disturbances' \in 0 .. MaxDisturbances
  BY ConstantsAssumption DEF TypeOK, Disturb

\* Every step keeps the types.
LEMMA TypeStep ==
    ASSUME TypeOK, [Next]_vars
    PROVE  TypeOK'
<1>1. CASE UNCHANGED vars
  BY <1>1 DEF TypeOK, vars, files
<1>2. ASSUME NEW r \in Runners, NEW overwrite \in BOOLEAN, StartRun(r, overwrite)
      PROVE  TypeOK'
  <2>1. runner' \in [Runners -> RunnerType]
    BY <1>2, StartMoves
  <2>2. disturbances' \in 0 .. MaxDisturbances
    BY <1>2, DisturbTyped DEF StartRun
  <2> QED BY <1>2, <2>1, <2>2 DEF StartRun, TypeOK, files
<1>3. ASSUME NEW r \in Runners, NEW c \in Cells,
             \/ HashInputs(r, c) \/ EvaluateEmhi(r, c)
             \/ EvaluateComparator(r, c) \/ HashComparatorInputs(r, c)
      PROVE  TypeOK'
  <2>1. runner' \in [Runners -> RunnerType]
    BY <1>3, ReadingMoves
  <2>2. UNCHANGED <<declared, upstream, files, disturbances>>
    BY <1>3 DEF HashInputs, EvaluateEmhi, EvaluateComparator, HashComparatorInputs
  <2> QED BY <2>1, <2>2 DEF TypeOK, files
<1>4. ASSUME NEW r \in Runners, NEW c \in Cells, InputIsMissing(r, c)
      PROVE  TypeOK'
  BY <1>4, MissingMoves DEF InputIsMissing, TypeOK, files
<1>5. ASSUME NEW r \in Runners, NEW c \in Cells,
             WriteRaw(r, c) \/ WriteSummary(r, c) \/ WriteRecord(r, c)
      PROVE  TypeOK'
  <2>1. runner' \in [Runners -> RunnerType]
    BY <1>5, WritingMoves
  <2>2. Evaluating(r, c) /\ Phase(r, c) \in {"raw", "summary", "record"}
    BY <1>5 DEF WriteRaw, WriteSummary, WriteRecord
  <2>3. /\ Lineage(r, c) \in LineageType /\ RawOf(r, c) \in RawType
        /\ [declared |-> runner[r].declared, fingerprint |-> runner[r].cell[c].fingerprint,
            raw |-> RawOf(r, c), summary |-> Lineage(r, c)] \in RecordType
    BY <2>2, EvaluationTyped
  <2>4. raw' \in [Cells -> RawType \cup {None}]
    BY <1>5, <2>3 DEF WriteRaw, WriteSummary, WriteRecord, TypeOK
  <2>5. summary' \in [Cells -> LineageType \cup {None}]
    BY <1>5, <2>3 DEF WriteRaw, WriteSummary, WriteRecord, TypeOK
  <2>6. record' \in [Cells -> RecordType \cup {None}]
    BY <1>5, <2>3 DEF WriteRaw, WriteSummary, WriteRecord, TypeOK
  <2>7. UNCHANGED <<declared, upstream, statistic, run, disturbances>>
    BY <1>5 DEF WriteRaw, WriteSummary, WriteRecord
  <2> QED BY <2>1, <2>4, <2>5, <2>6, <2>7 DEF TypeOK
<1>6. ASSUME NEW r \in Runners, CheckReuse(r)
      PROVE  TypeOK'
  BY <1>6, CheckReuseMoves DEF CheckReuse, TypeOK, files
<1>7. ASSUME NEW r \in Runners, CheckRequired(r)
      PROVE  TypeOK'
  <2>1. run' \in [state: {"Blocked", "Completed"}, declared: Declarations] \cup {None}
    BY <1>7, CheckRequiredMoves DEF TypeOK
  <2> QED BY <1>7, <2>1, CheckRequiredMoves DEF CheckRequired, TypeOK
<1>8. ASSUME NEW r \in Runners, DeriveStatistics(r)
      PROVE  TypeOK'
  <2>1. statistic' \in (UNION {[S -> LineageType] : S \in SUBSET Confirmatory}) \cup {None}
    BY <1>8, DeriveMoves, StatisticTyped DEF TypeOK
  <2> QED BY <1>8, <2>1, DeriveMoves DEF DeriveStatistics, TypeOK
<1>9. ASSUME NEW r \in Runners, PublishRun(r)
      PROVE  TypeOK'
  <2>1. runner[r].declared \in Declarations
    BY <1>9, RunnerCases DEF PublishRun, Active
  <2> QED BY <1>9, <2>1, PublishMoves DEF PublishRun, TypeOK
<1>10. CASE Environment
  <2>1. disturbances' \in 0 .. MaxDisturbances
    BY <1>10, DisturbTyped DEF Environment, ChangeUpstream, RestoreUpstream, EditDeclared,
          LoseOutput, Kill
  <2>2. upstream' \in 0 .. MaxUpstream
    BY <1>10, ConstantsAssumption DEF Environment, ChangeUpstream, RestoreUpstream,
          EditDeclared, LoseOutput, Kill, TypeOK
  <2>3. declared' \in Declarations
    BY <1>10 DEF Environment, ChangeUpstream, RestoreUpstream, EditDeclared, LoseOutput,
          Kill, TypeOK
  <2>4. runner' \in [Runners -> RunnerType]
    <3>1. Idle \in RunnerType
      BY DEF RunnerType
    <3> QED BY <1>10, <3>1 DEF Environment, ChangeUpstream, RestoreUpstream, EditDeclared,
          LoseOutput, Kill, TypeOK
  <2>5. /\ raw' \in [Cells -> RawType \cup {None}]
        /\ summary' \in [Cells -> LineageType \cup {None}]
    BY <1>10 DEF Environment, ChangeUpstream, RestoreUpstream, EditDeclared, LoseOutput,
          Kill, TypeOK, files
  <2>6. UNCHANGED <<record, statistic, run>>
    BY <1>10 DEF Environment, ChangeUpstream, RestoreUpstream, EditDeclared, LoseOutput,
          Kill, files
  <2> QED BY <2>1, <2>2, <2>3, <2>4, <2>5, <2>6 DEF TypeOK
<1> QED BY <1>1, <1>2, <1>3, <1>4, <1>5, <1>6, <1>7, <1>8, <1>9, <1>10
      DEF Next, Step, RunStep, CellStep

-----------------------------------------------------------------------------
(***************************************************************************)
(* The inductive invariant.                                                *)
(***************************************************************************)

\* The parts of the invariant that look at the cells under way, when one cell moved.
LEMMA MovedCells ==
    ASSUME NEW r \in Runners, NEW c \in Cells, NEW state, MovesCell(r, c, state),
           NEW q \in Runners, NEW d \in Cells, Evaluating(q, d)'
    PROVE  /\ Evaluating(q, d)
           /\ runner'[q].declared = runner[q].declared
           /\ runner'[q].alone = runner[q].alone
           /\ runner'[q].overwrite = runner[q].overwrite
           /\ \/ q = r /\ d = c /\ runner'[q].cell[d] = state
              \/ ~(q = r /\ d = c) /\ runner'[q].cell[d] = runner[q].cell[d]
<1>1. CASE q # r
  BY <1>1 DEF MovesCell, Evaluating
<1>2. CASE q = r
  BY <1>2 DEF MovesCell, Evaluating
<1> QED BY <1>1, <1>2

\* Whoever moves a cell is as alone as before.
LEMMA MovedAlone ==
    ASSUME NEW r \in Runners, NEW c, NEW state, MovesCell(r, c, state), AloneIsAlone
    PROVE  AloneIsAlone'
<1>1. \A q \in Runners : Active(q)' <=> Active(q)
  BY DEF MovesCell, Active
<1>2. \A q \in Runners : runner'[q].alone = runner[q].alone
  BY DEF MovesCell
<1> QED BY <1>1, <1>2 DEF AloneIsAlone

\* A command that ends, or goes on, is as alone as before.
LEMMA EndedAlone ==
    ASSUME NEW r \in Runners, Active(r), Ends(r) \/ (\E pc : GoesOn(r, pc)), AloneIsAlone
    PROVE  AloneIsAlone'
<1>1. \A q \in Runners \ {r} : runner'[q] = runner[q]
  BY DEF Ends, GoesOn
<1>2. Active(r)' => runner'[r].alone = runner[r].alone
  BY DEF Ends, GoesOn, Active, Idle
<1>3. SUFFICES ASSUME NEW q \in Runners, Active(q)', runner'[q].alone,
                      NEW p \in Runners \ {q}
               PROVE  ~Active(p)'
  BY DEF AloneIsAlone
<1>4. Active(q) /\ runner[q].alone
  <2>1. CASE q = r
    BY <1>2, <1>3, <2>1
  <2>2. CASE q # r
    BY <1>1, <1>3, <2>2 DEF Active
  <2> QED BY <2>1, <2>2
<1>5. ~Active(p)
  BY <1>4 DEF AloneIsAlone
<1>6. p # r
  BY <1>5
<1> QED BY <1>1, <1>5, <1>6 DEF Active

\* Other runners stay as they are and none is evaluating anew.
LEMMA EndedCells ==
    ASSUME NEW r \in Runners, Ends(r) \/ GoesOn(r, "required") \/ GoesOn(r, "publish"),
           NEW q \in Runners, NEW d \in Cells, Evaluating(q, d)'
    PROVE  Evaluating(q, d) /\ runner'[q] = runner[q]
  BY DEF Ends, GoesOn, Evaluating, Idle

\* The files of the upstream artifacts are replaced by newer ones.
LEMMA UpstreamGrows ==
    ASSUME TypeOK, [Next]_vars
    PROVE  /\ \A v \in 1 .. MaxUpstream : IsRead(v) => (upstream' # 0 => v <= upstream')
           /\ upstream' \in 0 .. MaxUpstream
<1>1. \/ upstream' = upstream
      \/ upstream # 0 /\ upstream' \in {0} \cup {v \in 1 .. MaxUpstream : v > upstream}
      \/ upstream' = MaxUpstream
  <2>1. ASSUME NEW r \in Runners, NEW overwrite \in BOOLEAN, StartRun(r, overwrite)
        PROVE  upstream' = upstream
    BY <2>1 DEF StartRun
  <2>2. ASSUME NEW r \in Runners, RunStep(r)
        PROVE  upstream' = upstream
    BY <2>2 DEF RunStep, CheckReuse, CheckRequired, DeriveStatistics, PublishRun
  <2>3. ASSUME NEW r \in Runners, NEW c \in Cells, CellStep(r, c)
        PROVE  upstream' = upstream
    BY <2>3 DEF CellStep, HashInputs, EvaluateEmhi, EvaluateComparator,
          HashComparatorInputs, InputIsMissing, WriteRaw, WriteSummary, WriteRecord
  <2>4. CASE Environment /\ ~ChangeUpstream /\ ~RestoreUpstream
    BY <2>4 DEF Environment, EditDeclared, LoseOutput, Kill
  <2>5. CASE ChangeUpstream
    BY <2>5 DEF ChangeUpstream
  <2>6. CASE RestoreUpstream
    BY <2>6 DEF RestoreUpstream
  <2>7. CASE UNCHANGED vars
    BY <2>7 DEF vars
  <2> QED BY <2>1, <2>2, <2>3, <2>4, <2>5, <2>6, <2>7 DEF Next, Step
<1>2. upstream \in 0 .. MaxUpstream /\ MaxUpstream \in Nat
  BY ConstantsAssumption DEF TypeOK
<1> QED BY <1>1, <1>2 DEF IsRead

\* Only the last step of a cell makes a record.
LEMMA RecordChanges ==
    ASSUME [Next]_vars
    PROVE  \/ UNCHANGED record
           \/ \E r \in Runners : \E c \in Cells : WriteRecord(r, c)
<1>1. ASSUME NEW r \in Runners, NEW c \in Cells, CellStep(r, c), ~WriteRecord(r, c)
      PROVE  record' = record
  BY <1>1 DEF CellStep, HashInputs, EvaluateEmhi, EvaluateComparator, HashComparatorInputs,
        InputIsMissing, WriteRaw, WriteSummary, files
<1>2. ASSUME NEW r \in Runners, RunStep(r)
      PROVE  record' = record
  BY <1>2 DEF RunStep, CheckReuse, CheckRequired, DeriveStatistics, PublishRun, files
<1>3. ASSUME Environment
      PROVE  record' = record
  BY <1>3 DEF Environment, ChangeUpstream, RestoreUpstream, EditDeclared, LoseOutput, Kill, files
<1>4. ASSUME (\E r \in Runners, overwrite \in BOOLEAN : StartRun(r, overwrite)) \/ UNCHANGED vars
      PROVE  record' = record
  BY <1>4 DEF StartRun, vars, files
<1> QED BY <1>1, <1>2, <1>3, <1>4 DEF Next, Step

\* What it makes is a record.
LEMMA WrittenIsRecorded ==
    ASSUME TypeOK, NEW r \in Runners, NEW c \in Cells, WriteRecord(r, c)
    PROVE  c \in Recorded'
<1> DEFINE new == [declared |-> runner[r].declared,
                   fingerprint |-> runner[r].cell[c].fingerprint,
                   raw |-> RawOf(r, c), summary |-> Lineage(r, c)]
<1>1. new \in RecordType
  BY EvaluationTyped DEF WriteRecord
<1>2. new # None
  BY <1>1, NoneAssumption
<1>3. record' = [record EXCEPT ![c] = new]
  BY DEF WriteRecord
<1> HIDE DEF new
<1> QED BY <1>2, <1>3 DEF Recorded, TypeOK

\* No step removes a record.
LEMMA RecordedGrows ==
    ASSUME TypeOK, [Next]_vars
    PROVE  Recorded \subseteq Recorded'
<1>1. CASE UNCHANGED record
  BY <1>1 DEF Recorded
<1>2. ASSUME NEW r \in Runners, NEW c \in Cells, WriteRecord(r, c)
      PROVE  Recorded \subseteq Recorded'
  <2>1. c \in Recorded'
    BY <1>2, WrittenIsRecorded
  <2>2. \A d \in Cells \ {c} : record'[d] = record[d]
    BY <1>2 DEF WriteRecord, TypeOK
  <2> QED BY <2>1, <2>2 DEF Recorded
<1> QED BY <1>1, <1>2, RecordChanges

\* A new record is of the evaluation of the cell; the others stay true.
LEMMA RecordsStep ==
    ASSUME TypeOK, RecordsAreHonest, WorkIsHonest, [Next]_vars
    PROVE  RecordsAreHonest'
<1> SUFFICES ASSUME NEW c \in Cells, record'[c] # None
             PROVE  /\ record'[c].raw.lineage = record'[c].summary
                    /\ record'[c].summary.declared = record'[c].declared
                    /\ upstream' # 0 => record'[c].summary.upstream <= upstream'
                    /\ c \in EmhiCells =>
                            record'[c].fingerprint <= record'[c].summary.upstream
  BY DEF RecordsAreHonest, Recorded, IsRead
<1>1. CASE record'[c] = record[c]
  <2>1. c \in Recorded
    BY <1>1 DEF Recorded
  <2>2. record[c].summary.upstream \in 1 .. MaxUpstream
    BY <1>1 DEF TypeOK, RecordType, LineageType
  <2> QED BY <1>1, <2>1, <2>2, UpstreamGrows DEF RecordsAreHonest
<1>2. CASE record'[c] # record[c]
  <2>1. PICK r \in Runners : WriteRecord(r, c)
    <3>1. PICK r \in Runners, d \in Cells : WriteRecord(r, d)
      BY <1>2, RecordChanges
    <3>2. d = c
      BY <1>2, <3>1 DEF WriteRecord, TypeOK
    <3> QED BY <3>1, <3>2
  <2>2. /\ Evaluating(r, c) /\ Phase(r, c) = "record"
        /\ record'[c] = [declared |-> runner[r].declared,
                         fingerprint |-> runner[r].cell[c].fingerprint,
                         raw |-> RawOf(r, c), summary |-> Lineage(r, c)]
        /\ UNCHANGED upstream
    BY <2>1 DEF WriteRecord, TypeOK
  <2>3. CellIsHonest(r, c)
    BY <2>2 DEF WorkIsHonest
  <2> QED BY <2>2, <2>3 DEF CellIsHonest, IsRead, Phase, RawOf, Lineage
<1> QED BY <1>1, <1>2

\* What is true of a cell under way stays true while it stays where it is.
LEMMA HonestyStays ==
    ASSUME TypeOK, WorkIsHonest, [Next]_vars, NEW q \in Runners, NEW d \in Cells,
           Evaluating(q, d), runner'[q].cell[d] = runner[q].cell[d]
    PROVE  CellIsHonest(q, d)'
<1> DEFINE state == runner[q].cell[d]
<1>1. CellIsHonest(q, d)
  BY DEF WorkIsHonest
<1>2. /\ state.phase = "hashed" => state.fingerprint \in 1 .. MaxUpstream
      /\ state.phase = "evaluated" => state.read \in 1 .. MaxUpstream
      /\ state.phase \in {"raw", "summary", "record"} => state.read \in 1 .. MaxUpstream
  BY CellCases DEF Phase
<1>3. /\ state.phase = "hashed" => (upstream' # 0 => state.fingerprint <= upstream')
      /\ state.phase = "evaluated" => (upstream' # 0 => state.read <= upstream')
      /\ state.phase \in {"raw", "summary", "record"} =>
            (upstream' # 0 => state.read <= upstream')
  BY <1>1, <1>2, UpstreamGrows DEF CellIsHonest
<1> HIDE DEF state
<1>4. runner'[q].cell[d] = state
  BY DEF state
<1> QED BY <1>1, <1>3, <1>4 DEF CellIsHonest, IsRead, state

\* Every step keeps what is true of the cells under way: inputs are hashed before an EMHI
\* cell reads them, and nothing newer than what is there can have been read.
LEMMA WorkStep ==
    ASSUME TypeOK, WorkIsHonest, [Next]_vars
    PROVE  WorkIsHonest'
<1> SUFFICES ASSUME NEW q \in Runners, NEW d \in Cells, Evaluating(q, d)'
             PROVE  CellIsHonest(q, d)'
  BY DEF WorkIsHonest
<1>1. CASE Evaluating(q, d) /\ runner'[q].cell[d] = runner[q].cell[d]
  BY <1>1, HonestyStays
<1>2. ASSUME NEW r \in Runners, NEW overwrite \in BOOLEAN, StartRun(r, overwrite)
      PROVE  CellIsHonest(q, d)'
  <2>1. q # r /\ runner'[q].pc = runner[q].pc
    BY <1>2, StartMoves DEF Evaluating
  <2>2. Evaluating(q, d) /\ runner'[q].cell[d] = runner[q].cell[d]
    BY <1>2, <2>1, StartMoves DEF Evaluating, Active
  <2> QED BY <1>1, <2>2
<1>3. ASSUME NEW r \in Runners, NEW c \in Cells,
             \/ HashInputs(r, c) \/ EvaluateEmhi(r, c)
             \/ EvaluateComparator(r, c) \/ HashComparatorInputs(r, c)
      PROVE  CellIsHonest(q, d)'
  <2>1. PICK state \in CellStateType :
             /\ MovesCell(r, c, state)
             /\ \/ state = [phase |-> "done"]
                \/ /\ HashInputs(r, c)
                   /\ state = [phase |-> "hashed", fingerprint |-> upstream]
                \/ /\ EvaluateEmhi(r, c)
                   /\ \E timing \in 1 .. 2 :
                        state = [phase |-> "raw", fingerprint |-> runner[r].cell[c].fingerprint,
                                 read |-> upstream, timing |-> timing]
                \/ /\ EvaluateComparator(r, c)
                   /\ \E timing \in 1 .. 2 :
                        state = [phase |-> "evaluated", read |-> upstream, timing |-> timing]
                \/ /\ HashComparatorInputs(r, c)
                   /\ state = [phase |-> "raw", fingerprint |-> upstream,
                               read |-> runner[r].cell[c].read,
                               timing |-> runner[r].cell[c].timing]
    BY <1>3, ReadingMoves
  <2>2. Evaluating(q, d) /\ \/ q = r /\ d = c /\ runner'[q].cell[d] = state
                            \/ runner'[q].cell[d] = runner[q].cell[d]
    BY <2>1, MovedCells
  <2>3. CASE q = r /\ d = c /\ runner'[q].cell[d] = state
    <3>0. upstream' = upstream /\ upstream \in 1 .. MaxUpstream /\ CellIsHonest(r, c)
      BY <1>3, <2>2, <2>3, ConstantsAssumption DEF HashInputs, EvaluateEmhi,
            EvaluateComparator, HashComparatorInputs, TypeOK, WorkIsHonest
    <3>1. CASE state = [phase |-> "done"]
      BY <2>3, <3>1 DEF CellIsHonest
    <3>2. CASE HashInputs(r, c) /\ state = [phase |-> "hashed", fingerprint |-> upstream]
      BY <2>3, <3>0, <3>2 DEF CellIsHonest, IsRead, HashInputs
    <3>3. ASSUME EvaluateEmhi(r, c), NEW timing \in 1 .. 2,
                 state = [phase |-> "raw", fingerprint |-> runner[r].cell[c].fingerprint,
                          read |-> upstream, timing |-> timing]
          PROVE  CellIsHonest(q, d)'
      <4>1. runner[r].cell[c].phase = "hashed"
        BY <3>3 DEF EvaluateEmhi, Phase
      <4>2. runner[r].cell[c].fingerprint <= upstream
        BY <3>0, <4>1 DEF CellIsHonest, IsRead
      <4> QED BY <2>3, <3>0, <3>3, <4>2 DEF CellIsHonest, IsRead
    <3>4. ASSUME EvaluateComparator(r, c), NEW timing \in 1 .. 2,
                 state = [phase |-> "evaluated", read |-> upstream, timing |-> timing]
          PROVE  CellIsHonest(q, d)'
      BY <2>3, <3>0, <3>4 DEF CellIsHonest, IsRead, EvaluateComparator
    <3>5. ASSUME HashComparatorInputs(r, c),
                 state = [phase |-> "raw", fingerprint |-> upstream,
                          read |-> runner[r].cell[c].read, timing |-> runner[r].cell[c].timing]
          PROVE  CellIsHonest(q, d)'
      <4>1. runner[r].cell[c].phase = "evaluated"
        BY <3>5 DEF HashComparatorInputs, Phase
      <4>2. /\ c \notin EmhiCells
            /\ upstream # 0 => runner[r].cell[c].read <= upstream
        BY <3>0, <4>1, ConstantsAssumption DEF CellIsHonest, IsRead
      <4> QED BY <2>3, <3>0, <3>5, <4>2 DEF CellIsHonest, IsRead
    <3> QED BY <2>1, <3>1, <3>2, <3>3, <3>4, <3>5
  <2> QED BY <1>1, <2>2, <2>3
<1>4. ASSUME NEW r \in Runners, NEW c \in Cells, InputIsMissing(r, c)
      PROVE  CellIsHonest(q, d)'
  <2>1. CASE MovesCell(r, c, [phase |-> "todo"])
    <3>1. Evaluating(q, d) /\ \/ runner'[q].cell[d] = [phase |-> "todo"]
                              \/ runner'[q].cell[d] = runner[q].cell[d]
      BY <2>1, MovedCells
    <3>2. CASE runner'[q].cell[d] = [phase |-> "todo"]
      BY <3>2 DEF CellIsHonest
    <3> QED BY <1>1, <3>1, <3>2
  <2>2. CASE Ends(r)
    BY <1>1, <2>2, EndedCells
  <2> QED BY <1>4, <2>1, <2>2, MissingMoves DEF Ends
<1>5. ASSUME NEW r \in Runners, NEW c \in Cells,
             WriteRaw(r, c) \/ WriteSummary(r, c) \/ WriteRecord(r, c)
      PROVE  CellIsHonest(q, d)'
  <2>1. PICK state \in CellStateType :
             /\ MovesCell(r, c, state)
             /\ \/ state = [phase |-> "done"]
                \/ /\ state.phase \in {"summary", "record"}
                   /\ state.fingerprint = runner[r].cell[c].fingerprint
                   /\ state.read = runner[r].cell[c].read
    BY <1>5, WritingMoves
  <2>2. Evaluating(q, d) /\ \/ q = r /\ d = c /\ runner'[q].cell[d] = state
                            \/ runner'[q].cell[d] = runner[q].cell[d]
    BY <2>1, MovedCells
  <2>3. CASE q = r /\ d = c /\ runner'[q].cell[d] = state
    <3>1. /\ upstream' = upstream /\ CellIsHonest(r, c)
          /\ runner[r].cell[c].phase \in {"raw", "summary", "record"}
      BY <1>5, <2>2, <2>3 DEF WriteRaw, WriteSummary, WriteRecord, WorkIsHonest, Phase
    <3> QED BY <2>1, <2>3, <3>1 DEF CellIsHonest, IsRead
  <2> QED BY <1>1, <2>2, <2>3
<1>6. ASSUME NEW r \in Runners, RunStep(r)
      PROVE  CellIsHonest(q, d)'
  <2>1. CASE Ends(r) \/ GoesOn(r, "required") \/ GoesOn(r, "publish")
    BY <1>1, <2>1, EndedCells
  <2>2. ASSUME GoesOn(r, "cells"),
               \A c \in DOMAIN runner'[r].cell : runner'[r].cell[c] = [phase |-> "todo"]
        PROVE  CellIsHonest(q, d)'
    <3>1. CASE q = r
      <4>1. runner'[q].cell[d] = [phase |-> "todo"]
        BY <2>2, <3>1 DEF Evaluating
      <4> QED BY <4>1 DEF CellIsHonest
    <3>2. CASE q # r
      BY <1>1, <2>2, <3>2 DEF GoesOn, Evaluating
    <3> QED BY <3>1, <3>2
  <2> QED BY <1>6, <2>1, <2>2, CheckReuseMoves, CheckRequiredMoves, DeriveMoves, PublishMoves
        DEF RunStep
<1>7. CASE Environment
  <2>1. Evaluating(q, d) /\ runner'[q] = runner[q]
    BY <1>7 DEF Environment, ChangeUpstream, RestoreUpstream, EditDeclared, LoseOutput, Kill,
          Evaluating, Idle, TypeOK
  <2> QED BY <1>1, <2>1
<1>8. CASE UNCHANGED vars
  BY <1>1, <1>8 DEF vars, Evaluating
<1> QED BY <1>2, <1>3, <1>4, <1>5, <1>6, <1>7, <1>8 DEF Next, Step, CellStep

\* No step removes the statistics.
LEMMA StatisticStays ==
    ASSUME TypeOK, [Next]_vars, statistic # None
    PROVE  statistic' # None
<1>1. ASSUME NEW r \in Runners, DeriveStatistics(r)
      PROVE  statistic' # None
  BY <1>1, StatisticTyped, DeriveMoves
<1>2. ASSUME NEW r \in Runners, NEW c \in Cells, CellStep(r, c)
      PROVE  statistic' = statistic
  BY <1>2 DEF CellStep, HashInputs, EvaluateEmhi, EvaluateComparator, HashComparatorInputs,
        InputIsMissing, WriteRaw, WriteSummary, WriteRecord, files
<1>3. ASSUME NEW r \in Runners, CheckReuse(r) \/ CheckRequired(r) \/ PublishRun(r)
      PROVE  statistic' = statistic
  BY <1>3 DEF CheckReuse, CheckRequired, PublishRun, files
<1>4. CASE (\E r \in Runners, overwrite \in BOOLEAN : StartRun(r, overwrite)) \/ UNCHANGED vars
  BY <1>4 DEF StartRun, vars, files
<1>5. CASE Environment
  BY <1>5 DEF Environment, ChangeUpstream, RestoreUpstream, EditDeclared, LoseOutput, Kill, files
<1> QED BY <1>1, <1>2, <1>3, <1>4, <1>5 DEF Next, Step, RunStep

\* What is complete stays complete.
LEMMA CompletenessStays ==
    ASSUME TypeOK, [Next]_vars, NEW d, IsComplete(d)
    PROVE  CellsOf[d.material] \subseteq Recorded' /\ statistic' # None
  BY RecordedGrows, StatisticStays DEF IsComplete

\* A cell is done when its record was found or has been written.
LEMMA DoneStep ==
    ASSUME TypeOK, CompletionIsRecorded, [Next]_vars,
           NEW q \in Runners, NEW d \in Cells, Evaluating(q, d)', runner'[q].cell[d].phase = "done"
    PROVE  d \in Recorded'
<1>1. CASE Evaluating(q, d) /\ runner'[q].cell[d] = runner[q].cell[d]
  BY <1>1, RecordedGrows DEF CompletionIsRecorded, Phase
<1>2. ASSUME NEW r \in Runners, NEW overwrite \in BOOLEAN, StartRun(r, overwrite)
      PROVE  d \in Recorded'
  <2>1. q # r /\ runner'[q].pc = runner[q].pc
    BY <1>2, StartMoves DEF Evaluating
  <2>2. Evaluating(q, d) /\ runner'[q].cell[d] = runner[q].cell[d]
    BY <1>2, <2>1, StartMoves DEF Evaluating, Active
  <2> QED BY <1>1, <2>2
<1>3. ASSUME NEW r \in Runners, NEW c \in Cells,
             \/ HashInputs(r, c) \/ EvaluateEmhi(r, c)
             \/ EvaluateComparator(r, c) \/ HashComparatorInputs(r, c)
      PROVE  d \in Recorded'
  <2>1. PICK state \in CellStateType :
             /\ MovesCell(r, c, state)
             /\ \/ CellIsReusable(c, runner[r].declared, upstream)
                \/ state.phase # "done"
    BY <1>3, ReadingMoves
  <2>2. Evaluating(q, d) /\ \/ q = r /\ d = c /\ runner'[q].cell[d] = state
                            \/ runner'[q].cell[d] = runner[q].cell[d]
    BY <2>1, MovedCells
  <2>3. CASE q = r /\ d = c /\ runner'[q].cell[d] = state
    <3>1. d \in Recorded
      BY <2>1, <2>3 DEF CellIsReusable, Recorded
    <3> QED BY <3>1, RecordedGrows
  <2> QED BY <1>1, <2>2, <2>3
<1>4. ASSUME NEW r \in Runners, NEW c \in Cells, InputIsMissing(r, c)
      PROVE  d \in Recorded'
  <2>1. CASE MovesCell(r, c, [phase |-> "todo"])
    BY <1>1, <2>1, MovedCells
  <2>2. CASE Ends(r)
    BY <1>1, <2>2, EndedCells
  <2> QED BY <1>4, <2>1, <2>2, MissingMoves DEF Ends
<1>5. ASSUME NEW r \in Runners, NEW c \in Cells,
             WriteRaw(r, c) \/ WriteSummary(r, c) \/ WriteRecord(r, c)
      PROVE  d \in Recorded'
  <2>1. PICK state \in CellStateType :
             /\ MovesCell(r, c, state)
             /\ WriteRecord(r, c) \/ state.phase # "done"
    BY <1>5, WritingMoves
  <2>2. Evaluating(q, d) /\ \/ q = r /\ d = c /\ runner'[q].cell[d] = state
                            \/ runner'[q].cell[d] = runner[q].cell[d]
    BY <2>1, MovedCells
  <2> QED BY <1>1, <2>1, <2>2, WrittenIsRecorded
<1>6. ASSUME NEW r \in Runners, RunStep(r)
      PROVE  d \in Recorded'
  <2>1. CASE Ends(r) \/ GoesOn(r, "required") \/ GoesOn(r, "publish")
    BY <1>1, <2>1, EndedCells
  <2>2. ASSUME GoesOn(r, "cells"),
               \A c \in DOMAIN runner'[r].cell : runner'[r].cell[c] = [phase |-> "todo"]
        PROVE  d \in Recorded'
    <3>1. q # r
      BY <2>2 DEF Evaluating
    <3> QED BY <1>1, <2>2, <3>1 DEF GoesOn, Evaluating
  <2> QED BY <1>6, <2>1, <2>2, CheckReuseMoves, CheckRequiredMoves, DeriveMoves, PublishMoves
        DEF RunStep
<1>7. CASE Environment
  <2>1. Evaluating(q, d) /\ runner'[q] = runner[q]
    BY <1>7 DEF Environment, ChangeUpstream, RestoreUpstream, EditDeclared, LoseOutput, Kill,
          Evaluating, Idle, TypeOK
  <2> QED BY <1>1, <2>1
<1>8. CASE UNCHANGED vars
  BY <1>1, <1>8 DEF vars, Evaluating
<1> QED BY <1>2, <1>3, <1>4, <1>5, <1>6, <1>7, <1>8 DEF Next, Step, CellStep

\* A command is about to publish when it was, or when it has derived the statistics of cells
\* that are all done.
LEMMA PublishStep ==
    ASSUME TypeOK, CompletionIsRecorded, [Next]_vars,
           NEW q \in Runners, runner'[q].pc = "publish"
    PROVE  CellsOf[runner'[q].declared.material] \subseteq Recorded' /\ statistic' # None
<1>1. CASE runner[q].pc = "publish" /\ runner'[q].declared = runner[q].declared
  BY <1>1, CompletenessStays DEF CompletionIsRecorded
<1>2. ASSUME NEW r \in Runners, NEW overwrite \in BOOLEAN, StartRun(r, overwrite)
      PROVE  runner[q].pc = "publish" /\ runner'[q].declared = runner[q].declared
  BY <1>2, StartMoves DEF Active
<1>3. ASSUME NEW r \in Runners, NEW c \in Cells, NEW state, MovesCell(r, c, state)
      PROVE  runner[q].pc = "publish" /\ runner'[q].declared = runner[q].declared
  BY <1>3 DEF MovesCell
<1>4. ASSUME NEW r \in Runners, Ends(r) \/ GoesOn(r, "required") \/ GoesOn(r, "cells")
      PROVE  runner[q].pc = "publish" /\ runner'[q].declared = runner[q].declared
  BY <1>4 DEF Ends, GoesOn, Idle
<1>5. ASSUME NEW r \in Runners, DeriveStatistics(r), GoesOn(r, "publish"),
             statistic' = [c \in PairedSources |-> summary[c]]
      PROVE  CellsOf[runner'[q].declared.material] \subseteq Recorded' /\ statistic' # None
  <2>1. CASE q # r
    BY <1>1, <1>5, <2>1 DEF GoesOn
  <2>2. CASE q = r
    <3>1. /\ runner[r].pc = "cells" /\ runner'[q].declared = runner[r].declared
          /\ \A c \in DOMAIN runner[r].cell : Phase(r, c) = "done"
          /\ DOMAIN runner[r].cell = CellsOf[runner[r].declared.material]
          /\ CellsOf[runner[r].declared.material] \subseteq Cells
      BY <1>5, <2>2, RunnerCases DEF DeriveStatistics, GoesOn
    <3>2. CellsOf[runner[r].declared.material] \subseteq Recorded
      BY <3>1 DEF CompletionIsRecorded, Evaluating
    <3>3. statistic' # None
      BY <1>5, StatisticTyped
    <3> QED BY <3>1, <3>2, <3>3, RecordedGrows
  <2> QED BY <2>1, <2>2
<1>6. ASSUME NEW r \in Runners, NEW c \in Cells, CellStep(r, c)
      PROVE  runner[q].pc = "publish" /\ runner'[q].declared = runner[q].declared
  <2>1. (\E state : MovesCell(r, c, state)) \/ Ends(r)
    BY <1>6, ReadingMoves, WritingMoves, MissingMoves DEF CellStep, Ends
  <2> QED BY <1>3, <1>4, <2>1
<1>7. ASSUME NEW r \in Runners, RunStep(r)
      PROVE  CellsOf[runner'[q].declared.material] \subseteq Recorded' /\ statistic' # None
  BY <1>1, <1>4, <1>5, <1>7, CheckReuseMoves, CheckRequiredMoves, DeriveMoves, PublishMoves
      DEF RunStep
<1>8. CASE Environment
  <2>1. runner'[q] = runner[q]
    BY <1>8 DEF Environment, ChangeUpstream, RestoreUpstream, EditDeclared, LoseOutput, Kill,
          Idle, TypeOK
  <2> QED BY <1>1, <2>1
<1>9. CASE UNCHANGED vars
  BY <1>1, <1>9 DEF vars
<1> QED BY <1>1, <1>2, <1>6, <1>7, <1>8, <1>9 DEF Next, Step

\* A run record is completed when it was, or when a command that may publish wrote it.
LEMMA RunRecordStep ==
    ASSUME TypeOK, CompletionIsRecorded, [Next]_vars,
           run' # None, run'.state = "Completed"
    PROVE  CellsOf[run'.declared.material] \subseteq Recorded' /\ statistic' # None
<1>1. CASE run' = run
  BY <1>1, CompletenessStays DEF CompletionIsRecorded
<1>2. ASSUME NEW r \in Runners, PublishRun(r)
      PROVE  CellsOf[run'.declared.material] \subseteq Recorded' /\ statistic' # None
  <2>1. IsComplete(runner[r].declared) /\ run'.declared = runner[r].declared
    BY <1>2 DEF PublishRun, CompletionIsRecorded
  <2> QED BY <2>1, CompletenessStays
<1>3. ASSUME NEW r \in Runners, CheckRequired(r)
      PROVE  run' = run
  BY <1>3 DEF CheckRequired
<1>4. ASSUME NEW r \in Runners, NEW c \in Cells, CellStep(r, c)
      PROVE  run' = run
  BY <1>4 DEF CellStep, HashInputs, EvaluateEmhi, EvaluateComparator, HashComparatorInputs,
        InputIsMissing, WriteRaw, WriteSummary, WriteRecord, files
<1>5. ASSUME NEW r \in Runners, CheckReuse(r) \/ DeriveStatistics(r)
      PROVE  run' = run
  BY <1>5 DEF CheckReuse, DeriveStatistics, files
<1>6. ASSUME (\E r \in Runners, overwrite \in BOOLEAN : StartRun(r, overwrite)) \/ UNCHANGED vars
      PROVE  run' = run
  BY <1>6 DEF StartRun, vars, files
<1>7. ASSUME Environment
      PROVE  run' = run
  BY <1>7 DEF Environment, ChangeUpstream, RestoreUpstream, EditDeclared, LoseOutput, Kill, files
<1> QED BY <1>1, <1>2, <1>3, <1>4, <1>5, <1>6, <1>7 DEF Next, Step, RunStep

\* Done, about to publish and completed are each recorded after every step.
LEMMA CompletionStep ==
    ASSUME TypeOK, CompletionIsRecorded, [Next]_vars
    PROVE  CompletionIsRecorded'
  BY DoneStep, PublishStep, RunRecordStep DEF CompletionIsRecorded, IsComplete, Phase

\* A command stays alone until another one is started.
LEMMA AloneStep ==
    ASSUME TypeOK, AloneIsAlone, [Next]_vars
    PROVE  AloneIsAlone'
<1>1. ASSUME NEW r \in Runners, NEW overwrite \in BOOLEAN, StartRun(r, overwrite)
      PROVE  AloneIsAlone'
  <2>1. SUFFICES ASSUME NEW q \in Runners, Active(q)', runner'[q].alone,
                        NEW p \in Runners \ {q}
                 PROVE  ~Active(p)'
    BY DEF AloneIsAlone
  <2>2. q = r
    BY <1>1, <2>1, StartMoves DEF Active
  <2>3. ~Active(p) /\ runner'[p] = runner[p]
    BY <1>1, <2>1, <2>2, StartMoves
  <2> QED BY <2>3 DEF Active
<1>2. ASSUME NEW r \in Runners, NEW c \in Cells, CellStep(r, c)
      PROVE  AloneIsAlone'
  <2>1. Active(r)
    BY <1>2 DEF CellStep, HashInputs, EvaluateEmhi, EvaluateComparator, HashComparatorInputs,
          InputIsMissing, WriteRaw, WriteSummary, WriteRecord, Evaluating, Active
  <2>2. (\E state : MovesCell(r, c, state)) \/ Ends(r)
    BY <1>2, ReadingMoves, WritingMoves, MissingMoves DEF CellStep, Ends
  <2> QED BY <2>1, <2>2, MovedAlone, EndedAlone
<1>3. ASSUME NEW r \in Runners, RunStep(r)
      PROVE  AloneIsAlone'
  <2>1. Active(r)
    BY <1>3 DEF RunStep, CheckReuse, CheckRequired, DeriveStatistics, PublishRun, Active
  <2>2. Ends(r) \/ GoesOn(r, "required") \/ GoesOn(r, "cells") \/ GoesOn(r, "publish")
    BY <1>3, CheckReuseMoves, CheckRequiredMoves, DeriveMoves, PublishMoves DEF RunStep
  <2> QED BY <2>1, <2>2, EndedAlone
<1>4. ASSUME NEW r \in Runners, Kill(r)
      PROVE  AloneIsAlone'
  <2>1. Active(r) /\ Ends(r)
    BY <1>4 DEF Kill, Ends, TypeOK
  <2> QED BY <2>1, EndedAlone
<1>5. CASE UNCHANGED runner
  BY <1>5 DEF AloneIsAlone, Active
<1>6. CASE Environment
  BY <1>4, <1>5, <1>6 DEF Environment, ChangeUpstream, RestoreUpstream, EditDeclared, LoseOutput
<1> QED BY <1>1, <1>2, <1>3, <1>5, <1>6 DEF Next, Step, vars

\* What could not be kept still cannot, as long as the files of the cell are the same.
LEMMA StillNotKept ==
    ASSUME EvaluatedIsNotKept, NEW q \in Runners, NEW d \in EmhiCells, NEW e, NEW f,
           Evaluating(q, d), Phase(q, d) \in {"hashed", "raw"},
           runner[q].alone, ~runner[q].overwrite,
           e = runner[q].declared, f = runner[q].cell[d].fingerprint,
           record'[d] = record[d], raw'[d] = raw[d], summary'[d] = summary[d]
    PROVE  ~ /\ record'[d] # None
             /\ record'[d].fingerprint = f
             /\ record'[d].declared = e
             /\ raw'[d] # None /\ raw'[d] = record'[d].raw
             /\ summary'[d] # None /\ summary'[d] = record'[d].summary
  BY DEF EvaluatedIsNotKept, CellIsReusable, CompletedCellIsReusable, OutputsVerify

\* A cell is evaluated by a plain run that is alone after it has been looked for, and nobody
\* else writes its files until its own run does.
LEMMA EvaluatedStep ==
    ASSUME TypeOK, WorkIsHonest, AloneIsAlone, EvaluatedIsNotKept, [Next]_vars
    PROVE  EvaluatedIsNotKept'
<1>1. SUFFICES ASSUME NEW q \in Runners, NEW d \in EmhiCells, Evaluating(q, d)',
                      runner'[q].cell[d].phase \in {"hashed", "raw"},
                      runner'[q].alone, ~runner'[q].overwrite
               PROVE  ~ /\ record'[d] # None
                        /\ record'[d].fingerprint = runner'[q].cell[d].fingerprint
                        /\ record'[d].declared = runner'[q].declared
                        /\ raw'[d] # None /\ raw'[d] = record'[d].raw
                        /\ summary'[d] # None /\ summary'[d] = record'[d].summary
  BY DEF EvaluatedIsNotKept, CellIsReusable, CompletedCellIsReusable, OutputsVerify, Phase
<1>0. d \in Cells /\ d \notin ComparatorCells /\ Evaluating(q, d)'
  BY <1>1, ConstantsAssumption DEF Cells
<1>2. CASE /\ Evaluating(q, d)
           /\ runner'[q].cell[d] = runner[q].cell[d]
           /\ runner'[q].declared = runner[q].declared
           /\ runner'[q].alone = runner[q].alone /\ runner'[q].overwrite = runner[q].overwrite
           /\ record'[d] = record[d] /\ raw'[d] = raw[d] /\ summary'[d] = summary[d]
  <2>1. Phase(q, d) \in {"hashed", "raw"} /\ runner[q].alone /\ ~runner[q].overwrite
    BY <1>1, <1>2 DEF Phase
  <2> QED BY <1>2, <2>1, StillNotKept
<1>3. ASSUME NEW r \in Runners, NEW overwrite \in BOOLEAN, StartRun(r, overwrite)
      PROVE  FALSE
  <2>1. q # r /\ runner'[q].pc = "cells"
    BY <1>1, <1>3, StartMoves DEF Evaluating
  <2>2. ~Active(q)
    BY <1>1, <1>3, <2>1, StartMoves
  <2> QED BY <1>3, <2>1, <2>2, StartMoves DEF Active
<1>4. ASSUME NEW r \in Runners, NEW c \in Cells,
             \/ HashInputs(r, c) \/ EvaluateEmhi(r, c)
             \/ EvaluateComparator(r, c) \/ HashComparatorInputs(r, c)
      PROVE  ~ /\ record'[d] # None
               /\ record'[d].fingerprint = runner'[q].cell[d].fingerprint
               /\ record'[d].declared = runner'[q].declared
               /\ raw'[d] # None /\ raw'[d] = record'[d].raw
               /\ summary'[d] # None /\ summary'[d] = record'[d].summary
  <2>1. PICK state \in CellStateType :
             /\ MovesCell(r, c, state)
             /\ \/ state.phase = "done"
                \/ /\ HashInputs(r, c)
                   /\ state = [phase |-> "hashed", fingerprint |-> upstream]
                   /\ runner[r].overwrite \/ ~CellIsReusable(c, runner[r].declared, upstream)
                \/ /\ EvaluateEmhi(r, c)
                   /\ state.fingerprint = runner[r].cell[c].fingerprint
                \/ EvaluateComparator(r, c) /\ state.phase = "evaluated"
                \/ HashComparatorInputs(r, c)
    BY <1>4, ReadingMoves
  <2>2. record' = record /\ raw' = raw /\ summary' = summary
    BY <1>4 DEF HashInputs, EvaluateEmhi, EvaluateComparator, HashComparatorInputs, files
  <2>3. /\ Evaluating(q, d)
        /\ runner'[q].declared = runner[q].declared
        /\ runner'[q].alone = runner[q].alone
        /\ runner'[q].overwrite = runner[q].overwrite
        /\ \/ q = r /\ d = c /\ runner'[q].cell[d] = state
           \/ runner'[q].cell[d] = runner[q].cell[d]
    BY <1>0, <2>1, MovedCells
  <2>4. CASE q = r /\ d = c /\ runner'[q].cell[d] = state
    <3>1. CASE /\ state.fingerprint = upstream
               /\ ~CellIsReusable(c, runner[r].declared, upstream)
      BY <2>2, <2>3, <2>4, <3>1 DEF CellIsReusable, CompletedCellIsReusable, OutputsVerify
    <3>2. CASE EvaluateEmhi(r, c) /\ state.fingerprint = runner[r].cell[c].fingerprint
      <4>1. Phase(q, d) = "hashed"
        BY <2>4, <3>2 DEF EvaluateEmhi
      <4>2. /\ runner'[q].cell[d].fingerprint = runner[q].cell[d].fingerprint
            /\ record'[d] = record[d] /\ raw'[d] = raw[d] /\ summary'[d] = summary[d]
            /\ runner[q].alone /\ ~runner[q].overwrite
        BY <1>1, <2>2, <2>3, <2>4, <3>2
      <4> QED BY <2>3, <4>1, <4>2, StillNotKept
    <3>3. CASE HashComparatorInputs(r, c)
      <4>1. Evaluating(q, d) /\ runner[q].cell[d].phase = "evaluated"
        BY <2>4, <3>3 DEF HashComparatorInputs, Phase
      <4>2. d \in ComparatorCells
        BY <1>0, <4>1 DEF WorkIsHonest, CellIsHonest
      <4> QED BY <1>0, <4>2
    <3> QED BY <1>1, <2>1, <2>3, <2>4, <3>1, <3>2, <3>3
  <2> QED BY <1>2, <2>2, <2>3, <2>4
<1>5. ASSUME NEW r \in Runners, NEW c \in Cells, InputIsMissing(r, c)
      PROVE  ~ /\ record'[d] # None
               /\ record'[d].fingerprint = runner'[q].cell[d].fingerprint
               /\ record'[d].declared = runner'[q].declared
               /\ raw'[d] # None /\ raw'[d] = record'[d].raw
               /\ summary'[d] # None /\ summary'[d] = record'[d].summary
  <2>1. record' = record /\ raw' = raw /\ summary' = summary
    BY <1>5 DEF InputIsMissing, files
  <2>2. CASE MovesCell(r, c, [phase |-> "todo"])
    <3>1. /\ Evaluating(q, d)
          /\ runner'[q].declared = runner[q].declared
          /\ runner'[q].alone = runner[q].alone
          /\ runner'[q].overwrite = runner[q].overwrite
          /\ \/ runner'[q].cell[d] = [phase |-> "todo"]
             \/ runner'[q].cell[d] = runner[q].cell[d]
      BY <1>0, <2>2, MovedCells
    <3>2. runner'[q].cell[d] # [phase |-> "todo"]
      BY <1>1
    <3> QED BY <1>2, <2>1, <3>1, <3>2
  <2>3. CASE Ends(r)
    BY <1>0, <1>1, <1>2, <2>1, <2>3, EndedCells
  <2> QED BY <1>5, <2>2, <2>3, MissingMoves DEF Ends
<1>6. ASSUME NEW r \in Runners, NEW c \in Cells,
             WriteRaw(r, c) \/ WriteSummary(r, c) \/ WriteRecord(r, c)
      PROVE  ~ /\ record'[d] # None
               /\ record'[d].fingerprint = runner'[q].cell[d].fingerprint
               /\ record'[d].declared = runner'[q].declared
               /\ raw'[d] # None /\ raw'[d] = record'[d].raw
               /\ summary'[d] # None /\ summary'[d] = record'[d].summary
  <2>1. PICK state \in CellStateType :
             /\ MovesCell(r, c, state)
             /\ state.phase \in {"done", "summary", "record"}
    BY <1>6, WritingMoves
  <2>2. /\ Evaluating(q, d)
        /\ runner'[q].declared = runner[q].declared
        /\ runner'[q].alone = runner[q].alone
        /\ runner'[q].overwrite = runner[q].overwrite
        /\ \/ q = r /\ d = c /\ runner'[q].cell[d] = state
           \/ ~(q = r /\ d = c) /\ runner'[q].cell[d] = runner[q].cell[d]
    BY <1>0, <2>1, MovedCells
  <2>5. runner'[q].cell[d] # state
    BY <1>1, <2>1
  <2>3. d # c
    <3>1. Active(r) /\ Active(q) /\ runner[q].alone
      BY <1>1, <1>6, <2>2 DEF WriteRaw, WriteSummary, WriteRecord, Evaluating, Active
    <3>2. q = r
      BY <3>1 DEF AloneIsAlone
    <3> QED BY <2>2, <2>5, <3>2
  <2>4. record'[d] = record[d] /\ raw'[d] = raw[d] /\ summary'[d] = summary[d]
    BY <1>0, <1>6, <2>3 DEF WriteRaw, WriteSummary, WriteRecord, TypeOK
  <2> QED BY <1>2, <2>2, <2>4, <2>5
<1>7. ASSUME NEW r \in Runners, RunStep(r)
      PROVE  ~ /\ record'[d] # None
               /\ record'[d].fingerprint = runner'[q].cell[d].fingerprint
               /\ record'[d].declared = runner'[q].declared
               /\ raw'[d] # None /\ raw'[d] = record'[d].raw
               /\ summary'[d] # None /\ summary'[d] = record'[d].summary
  <2>1. record' = record /\ raw' = raw /\ summary' = summary
    BY <1>7 DEF RunStep, CheckReuse, CheckRequired, DeriveStatistics, PublishRun, files
  <2>2. CASE Ends(r) \/ GoesOn(r, "required") \/ GoesOn(r, "publish")
    BY <1>0, <1>1, <1>2, <2>1, <2>2, EndedCells
  <2>3. ASSUME GoesOn(r, "cells"),
               \A c \in DOMAIN runner'[r].cell : runner'[r].cell[c] = [phase |-> "todo"]
        PROVE  /\ Evaluating(q, d)
               /\ runner'[q] = runner[q]
    <3>1. q # r
      BY <1>1, <2>3 DEF Evaluating
    <3> QED BY <1>1, <2>3, <3>1 DEF GoesOn, Evaluating
  <2> QED BY <1>2, <1>7, <2>1, <2>2, <2>3, CheckReuseMoves, CheckRequiredMoves, DeriveMoves,
             PublishMoves DEF RunStep
<1>8. CASE Environment
  <2>1. Evaluating(q, d) /\ runner'[q] = runner[q]
    BY <1>1, <1>8 DEF Environment, ChangeUpstream, RestoreUpstream, EditDeclared, LoseOutput,
          Kill, Evaluating, Idle, TypeOK
  <2>2. Active(q)
    BY <2>1 DEF Evaluating, Active
  <2>3. record' = record /\ raw' = raw /\ summary' = summary
    BY <1>8, <2>2 DEF Environment, ChangeUpstream, RestoreUpstream, EditDeclared, LoseOutput,
          Kill, files
  <2> QED BY <1>2, <2>1, <2>3
<1>9. CASE UNCHANGED vars
  BY <1>1, <1>2, <1>9 DEF vars, files, Evaluating
<1> QED BY <1>3, <1>4, <1>5, <1>6, <1>7, <1>8, <1>9 DEF Next, Step, CellStep

\* The inductive invariant holds at first,
LEMMA RunInductionInit ==
    ASSUME Init
    PROVE  RunInduction
<1>1. TypeOK
  BY TypeInit
<1>2. Recorded = {} /\ run = None
  BY DEF Init, Recorded
<1>3. \A r \in Runners : runner[r].pc = "idle"
  BY DEF Init, Idle
<1>4. RecordsAreHonest
  BY <1>2 DEF RecordsAreHonest
<1>5. WorkIsHonest /\ CompletionIsRecorded /\ AloneIsAlone /\ EvaluatedIsNotKept
  BY <1>2, <1>3 DEF WorkIsHonest, CompletionIsRecorded, AloneIsAlone, EvaluatedIsNotKept,
        Evaluating, Active
<1> QED BY <1>1, <1>4, <1>5 DEF RunInduction

\* and every step keeps it.
LEMMA RunInductionStep ==
    ASSUME RunInduction, [Next]_vars
    PROVE  RunInduction'
  BY TypeStep, RecordsStep, WorkStep, CompletionStep, AloneStep, EvaluatedStep
      DEF RunInduction

\* The inductive invariant holds in every state.
THEOREM RunInductionHolds == Spec => []RunInduction
  BY RunInductionInit, RunInductionStep, PTL DEF Spec

-----------------------------------------------------------------------------
(***************************************************************************)
(* The properties.                                                         *)
(***************************************************************************)

\* What verifies is what the record was made of.
LEMMA VerifiedFromHonest ==
    ASSUME RunInduction
    PROVE  VerifiedCellIsOneEvaluation
<1> SUFFICES ASSUME NEW c \in Recorded, OutputsVerify(c)
             PROVE  raw[c].lineage = summary[c] /\ summary[c].declared = record[c].declared
  BY DEF VerifiedCellIsOneEvaluation
<1>1. raw[c] = record[c].raw /\ summary[c] = record[c].summary
  BY DEF OutputsVerify
<1> QED BY <1>1 DEF RunInduction, RecordsAreHonest

\* A kept cell carries the version of the artifacts that are there, was read after it was
\* hashed, and nothing newer can have been read.
LEMMA FreshFromHonest ==
    ASSUME RunInduction
    PROVE  KeptCellsAreFresh
<1> SUFFICES ASSUME NEW c \in EmhiCells, c \in Recorded,
                    CellIsReusable(c, record[c].declared, upstream)
             PROVE  summary[c].upstream = upstream
  BY DEF KeptCellsAreFresh
<1>1. /\ record[c].fingerprint = upstream
      /\ summary[c] = record[c].summary
  BY DEF CellIsReusable, CompletedCellIsReusable, OutputsVerify
<1>2. /\ record[c].fingerprint \in 1 .. MaxUpstream
      /\ record[c].summary.upstream \in 1 .. MaxUpstream
  BY DEF RunInduction, TypeOK, Recorded, RecordType, LineageType
<1>3. /\ IsRead(record[c].summary.upstream)
      /\ record[c].fingerprint <= record[c].summary.upstream
  BY DEF RunInduction, RecordsAreHonest
<1> QED BY <1>1, <1>2, <1>3, ConstantsAssumption DEF IsRead

\* Whatever is killed, edited, lost or run twice: a record that verifies is of one
\* evaluation under the configuration it names, and an EMHI cell that would be kept was
\* evaluated from the artifacts as they are.
THEOREM RunInvariantHolds == Spec => []RunInvariant
<1>1. RunInduction => RunInvariant
  BY VerifiedFromHonest, FreshFromHonest DEF RunInduction, RunInvariant
<1> QED BY <1>1, RunInductionHolds, PTL

\* The report that is let through is complete and all of the declared configuration, when
\* the configurations ask for the same cells.
THEOREM ReportIsCurrent ==
    ASSUME CellsAreFixed
    PROVE  Spec => []ReportedEvidenceIsCurrent
<1>1. ASSUME RunInduction
      PROVE  ReportedEvidenceIsCurrent
  <2> SUFFICES ASSUME ReportAccepts(declared)
               PROVE  /\ \A c \in CellsOf[declared.material] :
                            record[c] # None /\ summary[c].declared = declared
                      /\ statistic # None
                      /\ \A c \in DOMAIN statistic : statistic[c].declared = declared
    BY DEF ReportedEvidenceIsCurrent
  <2>1. /\ run # None /\ run.state = "Completed"
        /\ run.declared.material = declared.material
    BY DEF ReportAccepts
  <2>2. CellsOf[declared.material] \subseteq Recorded /\ statistic # None
    BY <1>1, <2>1 DEF RunInduction, CompletionIsRecorded, IsComplete
  <2>3. declared.material \in Materials
    BY <1>1 DEF RunInduction, TypeOK, Declarations
  <2>4. Cells \subseteq Recorded
    BY <2>2, <2>3 DEF CellsAreFixed
  <2>5. \A c \in Cells : record[c] # None /\ summary[c].declared = declared
    BY <1>1, <2>4 DEF ReportAccepts, Recorded, OutputsVerify, RunInduction, RecordsAreHonest
  <2>6. DOMAIN statistic \subseteq Cells /\ \A c \in DOMAIN statistic : summary[c] = statistic[c]
    <3>1. \E S \in SUBSET Confirmatory : statistic \in [S -> LineageType]
      BY <1>1, <2>2 DEF RunInduction, TypeOK
    <3>2. DOMAIN statistic \subseteq Cells
      BY <3>1, ConstantsAssumption
    <3> QED BY <2>2, <3>2 DEF ReportAccepts, StatisticVerifies
  <2>7. CellsOf[declared.material] = Cells
    BY <2>3 DEF CellsAreFixed
  <2> QED BY <2>2, <2>5, <2>6, <2>7
<1> QED BY <1>1, RunInductionHolds, PTL

\* The evaluation of an EMHI cell is replaced only by a run that was told to, that overlaps
\* another one, or whose configuration or inputs are others than the cell's.
THEOREM CellsAreKept == Spec => CompletedEmhiCellsAreKept
<1> DEFINE Kept ==
        \A c \in EmhiCells : raw'[c] \notin {raw[c], None} =>
            \E r \in Runners :
                /\ WriteRaw(r, c)
                /\ \/ runner[r].overwrite
                   \/ ~runner[r].alone
                   \/ ~CellIsReusable(c, runner[r].declared, runner[r].cell[c].fingerprint)
<1>1. ASSUME RunInduction, [Next]_vars
      PROVE  Kept
  <2> SUFFICES ASSUME NEW c \in EmhiCells, raw'[c] \notin {raw[c], None}
               PROVE  \E r \in Runners :
                        /\ WriteRaw(r, c)
                        /\ \/ runner[r].overwrite
                           \/ ~runner[r].alone
                           \/ ~CellIsReusable(c, runner[r].declared,
                                              runner[r].cell[c].fingerprint)
    OBVIOUS
  <2>1. PICK r \in Runners, d \in Cells : WriteRaw(r, d)
    <3>1. ASSUME NEW r \in Runners, NEW d \in Cells, CellStep(r, d), ~WriteRaw(r, d)
          PROVE  raw' = raw
      BY <3>1 DEF CellStep, HashInputs, EvaluateEmhi, EvaluateComparator,
            HashComparatorInputs, InputIsMissing, WriteSummary, WriteRecord, files
    <3>2. ASSUME NEW r \in Runners, RunStep(r)
          PROVE  raw' = raw
      BY <3>2 DEF RunStep, CheckReuse, CheckRequired, DeriveStatistics, PublishRun, files
    <3>3. ASSUME Environment
          PROVE  raw'[c] \in {raw[c], None}
      <4>1. c \in Cells /\ raw \in [Cells -> RawType \cup {None}]
        BY <1>1 DEF Cells, RunInduction, TypeOK
      <4>2. ASSUME NEW d \in Cells, LoseOutput(d)
            PROVE  raw'[c] \in {raw[c], None}
        BY <4>1, <4>2 DEF LoseOutput
      <4>3. CASE ~\E d \in Cells : LoseOutput(d)
        BY <3>3, <4>3 DEF Environment, ChangeUpstream, RestoreUpstream, EditDeclared, Kill, files
      <4> QED BY <4>2, <4>3
    <3>4. ASSUME (\E r \in Runners, overwrite \in BOOLEAN : StartRun(r, overwrite))
                    \/ UNCHANGED vars
          PROVE  raw' = raw
      BY <3>4 DEF StartRun, vars, files
    <3> QED BY <1>1, <3>1, <3>2, <3>3, <3>4 DEF Next, Step
  <2>2. c \in Cells
    BY DEF Cells
  <2>3. d = c
    BY <1>1, <2>1, <2>2 DEF WriteRaw, RunInduction, TypeOK
  <2>4. Evaluating(r, c) /\ Phase(r, c) = "raw"
    BY <2>1, <2>3 DEF WriteRaw
  <2>5. runner[r].alone /\ ~runner[r].overwrite =>
            ~CellIsReusable(c, runner[r].declared, runner[r].cell[c].fingerprint)
    BY <1>1, <2>4 DEF RunInduction, EvaluatedIsNotKept
  <2> QED BY <2>1, <2>3, <2>5
<1>2. Spec => [][Kept]_vars
  BY <1>1, RunInductionHolds, PTL DEF Spec
<1> QED BY <1>2 DEF CompletedEmhiCellsAreKept
=============================================================================

--------------------------- MODULE MCExperimentRun ---------------------------
(***************************************************************************)
(* An instance of ExperimentRun: a confirmatory seed with one EMHI method  *)
(* and one comparator, which are paired.                                   *)
(***************************************************************************)
EXTENDS ExperimentRun

CONSTANTS emhi, comparator,   \* cells
          m1,                 \* the material digest
          s1, s2              \* semantic digests

MCTaskOf == [c \in Cells |-> 1]
MCConfirmatory == Cells
MCPairs == {<<emhi, comparator>>}

\* Every configuration asks for all cells.
MCSameCells == [m \in Materials |-> Cells]

ASSUME InstanceFixesCells == CellsAreFixed

MCSemantics == {s1, s2}

\* The first command runs the first version of the code.
MCFirst == [material: Materials, semantics: {s1}]
=============================================================================

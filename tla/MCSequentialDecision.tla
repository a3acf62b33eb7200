------------------------ MODULE MCSequentialDecision ------------------------
(***************************************************************************)
(* Small instances of SequentialDecision: two clients, the coalitions of   *)
(* one of them and of both; one of them has a local policy.                *)
(***************************************************************************)
EXTENDS SequentialDecision

CONSTANTS a, b

MCCoalitions == {{a}, {a, b}}

\* Two exceedances in two epochs.
MCPolicies == [c \in {a} |-> [required |-> 2, window |-> 2]]
=============================================================================

---------------------------- MODULE MCSyntheticPool ----------------------------
(***************************************************************************)
(* Instances of SyntheticPool.                                             *)
(***************************************************************************)
EXTENDS SyntheticPool

\* The first two cells share an execution.
MCShared == [c \in Cells |-> IF c = 2 THEN 1 ELSE c]

\* What is lost is never the checkpoint that is looked up.
ASSUME InstanceKeepsLookedUp == LookedUpIsNotLost

\* Configurations and code versions differ in name only: any may come first.
MCFirst == {CHOOSE d \in Declarations : TRUE}
=============================================================================

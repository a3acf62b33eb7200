--------------------------- MODULE MCAtomicPublish ---------------------------
(***************************************************************************)
(* Small instances of AtomicPublish for TLC.                               *)
(***************************************************************************)
EXTENDS AtomicPublish

CONSTANTS d1, d2

\* d1 and d2 are files of the same name in two directories.
SameNames == [d \in Destinations |-> "a.json"]

\* No more publications can interfere than a writer has retries.
ASSUME InstanceRetriesSuffice == RetriesSuffice
=============================================================================

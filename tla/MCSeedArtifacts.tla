--------------------------- MODULE MCSeedArtifacts ---------------------------
(***************************************************************************)
(* Small instances of SeedArtifacts.                                       *)
(***************************************************************************)
EXTENDS SeedArtifacts
=============================================================================

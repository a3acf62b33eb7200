---------------------------- MODULE MCScalability ----------------------------
(***************************************************************************)
(* Scalability with two client counts and two timing seeds.                *)
(***************************************************************************)
EXTENDS Scalability

MCClientCounts == <<5, 10>>
MCSeeds == <<9000, 9001>>
=============================================================================

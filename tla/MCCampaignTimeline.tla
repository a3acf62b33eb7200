------------------------- MODULE MCCampaignTimeline -------------------------
(***************************************************************************)
(* Small instances of CampaignTimeline.                                    *)
(***************************************************************************)
EXTENDS CampaignTimeline, TLC

ClientSymmetry == Permutations(Clients)
=============================================================================

-------------------------- MODULE CampaignParameters --------------------------
(***************************************************************************)
(* What the campaigns of a release and the decisions about them have in    *)
(* common: the selected clients and two sections of the configuration.     *)
(***************************************************************************)
EXTENDS Integers, FiniteSets

CONSTANTS Clients,          \* the selected clients
          MinimumClients,   \* distributed_support.minimum_clients
          Horizon           \* campaign.evaluation_horizon_epochs

ASSUME ParametersAssumption ==
    /\ IsFiniteSet(Clients) /\ Clients # {}
    /\ MinimumClients \in Nat
    /\ Horizon \in Nat \ {0}
=============================================================================

--------------------------- MODULE SlashRefinement ---------------------------
(***************************************************************************)
(* The program implements SlashGovernance: its proposals are the cases and *)
(* its services the defendants.  A case is due when the dispute window of  *)
(* its proposal, in the length the parameters gave it when it was made,    *)
(* has elapsed.                                                            *)
(***************************************************************************)
EXTENDS ElasticRestaking

Due == {p \in Proposed : DisputeWindowElapsed(p)}

Governance == INSTANCE SlashGovernance WITH
    Cases      <- ProposalIds,
    Defendants <- Services,
    Immune     <- BaseServices,
    Nobody     <- NoService,
    opened     <- Proposed,
    due        <- Due,
    executed   <- finalized,
    defendant  <- proposal_service,
    condemned  <- slashed,
    taken      <- total_slashed

(***************************************************************************)
(* Every step of the program is one of the governance or leaves it alone:  *)
(* no deposit, allocation, rebalance, retirement of a service or change of *)
(* the dispute window opens, stops, hastens, executes or reopens a case    *)
(* (slashing/propose_slash.rs, veto_slash.rs, finalize_slash.rs).          *)
(***************************************************************************)
ImplementsGovernance == Governance!Spec

=============================================================================

------------------------------ MODULE Network ------------------------------
(***************************************************************************)
(* What drives the protocol from outside the staking flow: the clock, the  *)
(* epoch counter (instructions/epoch/advance_epoch.rs), the parameters     *)
(* (instructions/admin/update_network_config.rs) and the retirement of a   *)
(* service (instructions/service/deactivate_service.rs).                   *)
(***************************************************************************)
EXTENDS RestakingAccounts

(***************************************************************************)
(* The Solana clock moves on by one unit.                                  *)
(***************************************************************************)
Tick ==
    /\ epoch_elapsed' = Least(epoch_elapsed + 1, Horizon)
    /\ dispute_left' = [p \in ProposalIds |-> SatSub(dispute_left[p], 1)]
    /\ UNCHANGED <<config, networkVars, depositVars, exposureVars, ticketVars, serviceVars,
                   allocationVars, slash_proposal_count, proposal_service, vetoed, finalized,
                   total_slashed, tokenVars>>

\* Anyone may advance the epoch; every open ticket has then waited one more.
AdvanceEpoch ==
    /\ epoch_elapsed >= config.epoch_duration
    /\ epoch_elapsed' = 0
    /\ epochs_waited' = [v \in Validators |-> [i \in TicketIds |->
           IF ticket_amount[v][i] > 0 THEN Least(epochs_waited[v][i] + 1, Horizon)
                                      ELSE epochs_waited[v][i]]]
    /\ UNCHANGED <<config, networkVars, depositVars, exposureVars, ticket_amount, serviceVars,
                   allocationVars, proposalVars, tokenVars>>

ValidConfig(c) ==
    /\ c.target_restaking_degree_bps <= c.max_restaking_degree_bps
    /\ c.min_stake_amount > 0
    /\ c.deposit_fee_bps <= BPS_DENOMINATOR

\* Every field is optional in the call, so any valid combination is one call away.
UpdateNetworkConfig(c) ==
    /\ ValidConfig(c)
    /\ config' = c
    /\ UNCHANGED <<networkVars, depositVars, exposureVars, ticketVars, serviceVars,
                   allocationVars, proposalVars, tokenVars, epoch_elapsed>>

\* The network authority or the service's own authority signs.
DeactivateService(s) ==
    /\ s \in active
    /\ active' = active \ {s}
    /\ UNCHANGED <<config, networkVars, depositVars, exposureVars, ticketVars,
                   service_allocated, service_effective, service_validators, slashed,
                   allocationVars, proposalVars, tokenVars, epoch_elapsed>>

=============================================================================
